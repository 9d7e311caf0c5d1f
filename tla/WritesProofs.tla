----------------------------- MODULE WritesProofs -----------------------------
(***************************************************************************)
(* Theorems about the write queue for every set of brackets and sets, and  *)
(* every bound: an intent makes one trip to the site at a time, and none   *)
(* is stranded on the list while the writer lives.                         *)
(***************************************************************************)
EXTENDS Writes, TLAPS

(* Facts about queues. *)
LEMMA RangeOfAppend ==
  ASSUME NEW S, NEW q \in Seq(S), NEW e \in S
  PROVE  /\ Append(q, e) \in Seq(S)
         /\ Range(Append(q, e)) = Range(q) \cup {e}
         /\ IsInjective(q) /\ e \notin Range(q) => IsInjective(Append(q, e))
<1>1. /\ Append(q, e) \in Seq(S)
      /\ DOMAIN Append(q, e) = 1 .. Len(q) + 1
      /\ \A n \in 1 .. Len(q) : Append(q, e)[n] = q[n]
      /\ Append(q, e)[Len(q) + 1] = e
      /\ Len(q) \in Nat /\ DOMAIN q = 1 .. Len(q)
  OBVIOUS
<1>2. Range(Append(q, e)) = Range(q) \cup {e}
  <2>1. ASSUME NEW x \in Range(q) \cup {e} PROVE x \in Range(Append(q, e))
    <3>1. CASE x = e
      BY <1>1, <3>1 DEF Range
    <3>2. CASE x \in Range(q)
      BY <1>1, <3>2 DEF Range
    <3> QED
      BY <2>1, <3>1, <3>2
  <2>2. ASSUME NEW x \in Range(Append(q, e)) PROVE x \in Range(q) \cup {e}
    BY <1>1, <2>2 DEF Range
  <2> QED
    BY <2>1, <2>2
<1>3. IsInjective(q) /\ e \notin Range(q) => IsInjective(Append(q, e))
  BY <1>1 DEF Range, IsInjective
<1> QED
  BY <1>1, <1>2, <1>3

LEMMA RangeOfTail ==
  ASSUME NEW S, NEW q \in Seq(S), q # <<>>
  PROVE  /\ Head(q) \in S /\ Head(q) \in Range(q) /\ Tail(q) \in Seq(S)
         /\ Range(q) = Range(Tail(q)) \cup {Head(q)}
         /\ IsInjective(q) => IsInjective(Tail(q)) /\ Head(q) \notin Range(Tail(q))
<1>1. /\ Tail(q) \in Seq(S)
      /\ Len(q) \in Nat \ {0} /\ DOMAIN q = 1 .. Len(q)
      /\ DOMAIN Tail(q) = 1 .. Len(q) - 1
      /\ \A n \in 1 .. Len(q) - 1 : Tail(q)[n] = q[n + 1]
      /\ Head(q) = q[1] /\ Head(q) \in S
  OBVIOUS
<1>2. Head(q) \in Range(q)
  BY <1>1 DEF Range
<1>3. Range(q) = Range(Tail(q)) \cup {Head(q)}
  <2>1. ASSUME NEW n \in DOMAIN q PROVE q[n] \in Range(Tail(q)) \cup {Head(q)}
    <3>1. CASE n = 1
      BY <1>1, <3>1
    <3>2. CASE n # 1
      <4>1. n - 1 \in DOMAIN Tail(q) /\ Tail(q)[n - 1] = q[n]
        BY <1>1, <3>2
      <4> QED
        BY <4>1 DEF Range
    <3> QED
      BY <3>1, <3>2
  <2>2. ASSUME NEW n \in DOMAIN Tail(q) PROVE Tail(q)[n] \in Range(q)
    BY <1>1 DEF Range
  <2> QED
    BY <2>1, <2>2, <1>2 DEF Range
<1>4. IsInjective(q) => IsInjective(Tail(q)) /\ Head(q) \notin Range(Tail(q))
  <2> SUFFICES ASSUME IsInjective(q)
               PROVE  IsInjective(Tail(q)) /\ Head(q) \notin Range(Tail(q))
    OBVIOUS
  <2>1. IsInjective(Tail(q))
    BY <1>1 DEF IsInjective
  <2>2. ASSUME NEW n \in DOMAIN Tail(q) PROVE Tail(q)[n] # Head(q)
    BY <1>1 DEF IsInjective
  <2> QED
    BY <2>1, <2>2 DEF Range
<1> QED
  BY <1>1, <1>2, <1>3, <1>4

LEMMA RangeOfConcat ==
  ASSUME NEW S, NEW q \in Seq(S), NEW r \in Seq(S)
  PROVE  /\ q \o r \in Seq(S)
         /\ Range(q \o r) = Range(q) \cup Range(r)
         /\ IsInjective(q) /\ IsInjective(r) /\ Range(q) \cap Range(r) = {}
              => IsInjective(q \o r)
<1>1. /\ q \o r \in Seq(S)
      /\ Len(q) \in Nat /\ DOMAIN q = 1 .. Len(q)
      /\ Len(r) \in Nat /\ DOMAIN r = 1 .. Len(r)
      /\ DOMAIN (q \o r) = 1 .. Len(q) + Len(r)
      /\ \A n \in 1 .. Len(q) : (q \o r)[n] = q[n]
      /\ \A n \in 1 .. Len(r) : (q \o r)[Len(q) + n] = r[n]
  OBVIOUS
<1>2. ASSUME NEW n \in DOMAIN (q \o r), n \notin DOMAIN q
      PROVE  n - Len(q) \in DOMAIN r /\ (q \o r)[n] = r[n - Len(q)]
  <2>1. n - Len(q) \in 1 .. Len(r)
    BY <1>1, <1>2
  <2>2. Len(q) + (n - Len(q)) = n
    BY <1>1
  <2> QED
    BY <1>1, <2>1, <2>2
<1>3. Range(q \o r) = Range(q) \cup Range(r)
  <2>1. ASSUME NEW n \in DOMAIN (q \o r) PROVE (q \o r)[n] \in Range(q) \cup Range(r)
    BY <1>1, <1>2 DEF Range
  <2>2. ASSUME NEW n \in DOMAIN q PROVE q[n] \in Range(q \o r)
    BY <1>1 DEF Range
  <2>3. ASSUME NEW n \in DOMAIN r PROVE r[n] \in Range(q \o r)
    <3>1. Len(q) + n \in DOMAIN (q \o r)
      BY <1>1
    <3> QED
      BY <1>1, <3>1 DEF Range
  <2> QED
    BY <2>1, <2>2, <2>3 DEF Range
<1>4. ASSUME IsInjective(q), IsInjective(r), Range(q) \cap Range(r) = {}
      PROVE  IsInjective(q \o r)
  <2> SUFFICES ASSUME NEW m \in DOMAIN (q \o r), NEW n \in DOMAIN (q \o r), (q \o r)[m] = (q \o r)[n]
               PROVE  m = n
    BY DEF IsInjective
  <2>1. CASE m \in DOMAIN q /\ n \in DOMAIN q
    BY <1>1, <1>4, <2>1 DEF IsInjective
  <2>2. CASE m \notin DOMAIN q /\ n \notin DOMAIN q
    <3>1. m - Len(q) = n - Len(q)
      BY <1>2, <1>4, <2>2 DEF IsInjective
    <3> QED
      BY <1>1, <3>1
  <2>3. CASE m \in DOMAIN q /\ n \notin DOMAIN q
    BY <1>1, <1>2, <1>4, <2>3 DEF Range
  <2>4. CASE m \notin DOMAIN q /\ n \in DOMAIN q
    BY <1>1, <1>2, <1>4, <2>4 DEF Range
  <2> QED
    BY <2>1, <2>2, <2>3, <2>4
<1> QED
  BY <1>1, <1>3, <1>4

LEMMA IntervalInNat == \A m : \A n \in 0 .. m : n \in Nat
  OBVIOUS

(* An arrangement of the elements of a queue is a queue. *)
LEMMA ArrangementsOf ==
  ASSUME NEW S, NEW h \in Seq(S), NEW q \in Arrangements(Range(h))
  PROVE  q \in Seq(S) /\ \E n \in Nat : DOMAIN q = 1 .. n
<1>1. Range(h) \subseteq S
  BY DEF Range
<1>2. PICK n \in 0 .. Cardinality(Range(h)) : q \in [1 .. n -> Range(h)]
  BY DEF Arrangements
<1>3. n \in Nat
  BY <1>2, IntervalInNat
<1> QED
  BY <1>1, <1>2, <1>3

(* A filtered queue is a queue without duplicates. *)
LEMMA FilteredQueue ==
  ASSUME NEW S, NEW h \in Seq(S), IsInjective(h), NEW keep,
         NEW q \in Arrangements(Range(h)), IsFiltered(q, h, keep)
  PROVE  q \in Seq(S) /\ IsInjective(q) /\ Range(q) = Range(h) \cap keep
<1>3. PICK n \in Nat : DOMAIN q = 1 .. n
  BY ArrangementsOf
<1>4. q \in Seq(S)
  BY ArrangementsOf
<1>5. IsInjective(q)
  <2> SUFFICES ASSUME NEW i \in DOMAIN q, NEW j \in DOMAIN q, q[i] = q[j], i # j PROVE FALSE
    BY DEF IsInjective
  <2>1. DOMAIN h = 1 .. Len(h) /\ Len(h) \in Nat
    OBVIOUS
  <2>2. ASSUME NEW k \in DOMAIN q, NEW l \in DOMAIN q, k < l, q[k] = q[l] PROVE FALSE
    <3>1. PICK x, y \in DOMAIN h : x < y /\ h[x] = q[k] /\ h[y] = q[l]
      BY <2>2 DEF IsFiltered
    <3>2. x = y
      BY <2>2, <3>1 DEF IsInjective
    <3> QED
      BY <2>1, <3>1, <3>2
  <2>3. i < j \/ j < i
    BY <1>3, <1>4
  <2> QED
    BY <2>2, <2>3
<1> QED
  BY <1>4, <1>5 DEF IsFiltered

-----------------------------------------------------------------------------
(* Type correctness. *)

LEMMA InitType == Init => TypeOK
<1> SUFFICES ASSUME Init PROVE TypeOK
  OBVIOUS
<1>1. NonePending \in [Intents -> Statuses]
  BY DEF NonePending, Statuses
<1>2. 0 \in 0 .. MaxAttempts - 1 /\ 0 \in 0 .. MaxIntents /\ 0 \in 0 .. MaxRestarts
  BY WritesAssumption
<1>3. table \in Tables /\ site \in Tables
  BY DEF Init, Tables, Views
<1>4. polling \in [Brackets -> Tables \cup {NoPoll}]
  BY DEF Init
<1> QED
  BY <1>1, <1>2, <1>3, <1>4 DEF Init, TypeOK

(* What is handed to the writer are intents. *)
LEMMA SentIntents ==
  ASSUME TypeOK, NEW q \in Seq(Intents)
  PROVE  Sent(q) \in Seq(Intents)
  BY RangeOfConcat DEF TypeOK, Sent

LEMMA SingleIntent == \A i \in Intents : <<i>> \in Seq(Intents)
  OBVIOUS

(* The head of the mailbox. *)
LEMMA HeadMessage ==
  ASSUME TypeOK, mailbox # <<>>
  PROVE  /\ Tail(mailbox) \in Seq(Results \cup Polls)
         /\ Head(mailbox).type = "Result" => Head(mailbox) \in Results /\ Head(mailbox).intent \in Intents
         /\ Head(mailbox).type = "Poll" => Head(mailbox) \in Polls
<1>1. Tail(mailbox) \in Seq(Results \cup Polls) /\ Head(mailbox) \in Results \cup Polls
  BY RangeOfTail DEF TypeOK
<1> QED
  BY <1>1 DEF Results, Polls

LEMMA PerformedSite == TypeOK /\ writing # NoIntent => Performed \in Tables
<1> SUFFICES ASSUME TypeOK, writing # NoIntent PROVE Performed \in Tables
  OBVIOUS
<1>1. writing \in Intents /\ writing.set \in Sets
  BY DEF TypeOK, Intents
<1> QED
  BY <1>1 DEF TypeOK, Performed, Tables, Views

LEMMA OperatorType == TypeOK /\ Operator => TypeOK'
<1> SUFFICES ASSUME TypeOK, Operator PROVE TypeOK'
  OBVIOUS
<1> USE DEF writer, world
<1>1. ASSUME NEW s \in Sets, NEW k \in Kinds, Enqueue(s, k) PROVE TypeOK'
  <2> DEFINE intent == [set |-> s, kind |-> k, at |-> created]
  <2>1. created \in 0 .. MaxIntents - 1 /\ created + 1 \in 0 .. MaxIntents
    BY <1>1, WritesAssumption DEF TypeOK, Enqueue
  <2>2. intent \in Intents
    BY <2>1 DEF Intents
  <2>3. channel' \in Seq(Intents)
    BY <1>1, <2>2, SingleIntent, SentIntents DEF Enqueue
  <2>4. pending' \in [Intents -> Statuses]
    BY <1>1, <2>2 DEF TypeOK, Enqueue, Statuses
  <2> QED
    BY <1>1, <2>1, <2>3, <2>4 DEF TypeOK, Enqueue
<1>2. ASSUME NEW i \in Intents, Retry(i) PROVE TypeOK'
  <2>1. channel' \in Seq(Intents)
    BY <1>2, SingleIntent, SentIntents DEF Retry
  <2>2. pending' \in [Intents -> Statuses]
    BY <1>2 DEF TypeOK, Retry, Statuses
  <2> QED
    BY <1>2, <2>1, <2>2 DEF TypeOK, Retry
<1>3. ASSUME NEW i \in Intents, Discard(i) PROVE TypeOK'
  <2>1. held' \in Seq(Intents)
    <3>1. held' \in Arrangements(Range(held))
      BY <1>3 DEF Discard
    <3> QED
      BY <3>1, ArrangementsOf DEF TypeOK
  <2>2. pending' \in [Intents -> Statuses]
    BY <1>3 DEF TypeOK, Discard, Statuses
  <2> QED
    BY <1>3, <2>1, <2>2 DEF TypeOK, Discard
<1> QED
  BY <1>1, <1>2, <1>3 DEF Operator

LEMMA HandleType == TypeOK /\ Handle => TypeOK'
<1> SUFFICES ASSUME TypeOK, Handle PROVE TypeOK'
  OBVIOUS
<1> USE DEF writer, world
<1>1. ASSUME HandleResult PROVE TypeOK'
  <2> DEFINE result == Head(mailbox)
  <2>1. result.intent \in Intents /\ mailbox' \in Seq(Results \cup Polls)
    BY <1>1, HeadMessage DEF HandleResult
  <2>2. pending' \in [Intents -> Statuses] /\ held' \in Seq(Intents)
    <3>1. \A status \in Statuses : OnList(result.intent, status) \in [Intents -> Statuses]
      BY <2>1 DEF TypeOK, OnList, Statuses
    <3>2. CASE Confirm(result.intent)
      BY <2>1, <3>2 DEF TypeOK, Confirm, Statuses
    <3>3. CASE Hold(result.intent)
      BY <2>1, <3>1, <3>3, RangeOfAppend DEF TypeOK, Hold, Statuses
    <3>4. CASE Park(result.intent)
      BY <2>1, <3>1, <3>4 DEF TypeOK, Park, Statuses
    <3> QED
      BY <1>1, <3>2, <3>3, <3>4 DEF HandleResult
  <2> QED
    BY <1>1, <2>1, <2>2 DEF TypeOK, HandleResult
<1>2. ASSUME HandlePoll PROVE TypeOK'
  <2> DEFINE poll == Head(mailbox)
             released == Released(poll.bracket, poll.captured)
  <2>1. poll \in Polls /\ mailbox' \in Seq(Results \cup Polls)
    BY <1>2, HeadMessage DEF HandlePoll
  <2>2. table' \in Tables
    BY <1>2, <2>1 DEF TypeOK, HandlePoll, Tables, Polls
  <2>3. Release(released, table')
    BY <1>2 DEF HandlePoll
  <2>4. pending' \in [Intents -> Statuses]
    BY <2>3 DEF TypeOK, Release, Statuses
  <2>5. held' \in Seq(Intents) /\ channel' \in Seq(Intents)
    <3>1. ASSUME NEW q \in Arrangements(Range(held)) PROVE q \in Seq(Intents)
      BY <3>1, ArrangementsOf DEF TypeOK
    <3> QED
      BY <2>3, <3>1, SentIntents DEF Release
  <2> QED
    BY <1>2, <2>1, <2>2, <2>4, <2>5 DEF TypeOK, HandlePoll
<1> QED
  BY <1>1, <1>2 DEF Handle

LEMMA WriterType == TypeOK /\ (Receive \/ Attempt) => TypeOK'
<1> SUFFICES ASSUME TypeOK, Receive \/ Attempt PROVE TypeOK'
  OBVIOUS
<1> USE DEF desk, world
<1>0. 0 \in 0 .. MaxAttempts - 1
  BY WritesAssumption
<1>1. CASE Receive
  <2>1. writing' \in Intents /\ channel' \in Seq(Intents)
    BY <1>1, RangeOfTail DEF TypeOK, Receive
  <2> QED
    BY <1>0, <1>1, <2>1 DEF TypeOK, Receive
<1>2. ASSUME NEW outcome \in {"Success", "AwaitReconnect", "Terminal"},
             writing # NoIntent, Finish(outcome)
      PROVE  /\ mailbox' \in Seq(Results \cup Polls)
             /\ writing' \in Intents \cup {NoIntent}
             /\ attempts' \in 0 .. MaxAttempts - 1
  <2>1. [type |-> "Result", intent |-> writing, outcome |-> outcome] \in Results
    BY <1>2 DEF TypeOK, Results
  <2> QED
    BY <1>0, <1>2, <2>1, RangeOfAppend DEF TypeOK, Finish
<1>3. ASSUME Succeed PROVE TypeOK'
  BY <1>2, <1>3, PerformedSite DEF TypeOK, Succeed
<1>4. ASSUME FailForGood PROVE TypeOK'
  BY <1>2, <1>4 DEF TypeOK, FailForGood
<1>5. ASSUME LoseConnection PROVE TypeOK'
  <2>1. site' \in Tables
    BY <1>5, PerformedSite DEF TypeOK, LoseConnection
  <2> QED
    BY <1>2, <1>5, <2>1 DEF TypeOK, LoseConnection
<1>6. ASSUME FailAttempt PROVE TypeOK'
  <2>1. site' \in Tables
    BY <1>6, PerformedSite DEF TypeOK, FailAttempt
  <2>2. CASE attempts + 1 >= MaxAttempts
    BY <1>2, <1>6, <2>1, <2>2 DEF TypeOK, FailAttempt
  <2>3. CASE ~(attempts + 1 >= MaxAttempts)
    <3>1. attempts + 1 \in 0 .. MaxAttempts - 1
      BY <2>3, WritesAssumption DEF TypeOK
    <3> QED
      BY <1>6, <2>1, <2>3, <3>1 DEF TypeOK, FailAttempt
  <2> QED
    BY <2>2, <2>3
<1> QED
  BY <1>1, <1>3, <1>4, <1>5, <1>6 DEF Attempt

LEMMA EnvironmentType == TypeOK /\ Environment => TypeOK'
<1> SUFFICES ASSUME TypeOK, Environment PROVE TypeOK'
  OBVIOUS
<1> USE DEF desk, writer
<1>1. ASSUME NEW b \in Brackets, Fetch(b) PROVE TypeOK'
  <2>1. PICK gone \in SUBSET VanishingSets :
           polling' = [polling EXCEPT ![b] =
                        [s \in Sets |-> IF s \in gone \/ BracketOf[s] # b THEN "Gone" ELSE site[s]]]
    BY <1>1 DEF Fetch
  <2>2. [s \in Sets |-> IF s \in gone \/ BracketOf[s] # b THEN "Gone" ELSE site[s]] \in Tables
    BY DEF TypeOK, Tables, Views
  <2>3. polling' \in [Brackets -> Tables \cup {NoPoll}]
    BY <2>1, <2>2 DEF TypeOK
  <2> QED
    BY <1>1, <2>3 DEF TypeOK, Fetch
<1>2. ASSUME NEW b \in Brackets, Deliver(b) PROVE TypeOK'
  <2>1. polling[b] \in Tables
    BY <1>2 DEF TypeOK, Deliver
  <2>2. [type |-> "Poll", bracket |-> b, view |-> polling[b], captured |-> created] \in Polls
    BY <2>1 DEF TypeOK, Polls
  <2>3. mailbox' \in Seq(Results \cup Polls)
    BY <1>2, <2>2, RangeOfAppend DEF TypeOK, Deliver
  <2>4. polling' \in [Brackets -> Tables \cup {NoPoll}]
    BY <1>2 DEF TypeOK, Deliver
  <2> QED
    BY <1>2, <2>3, <2>4 DEF TypeOK, Deliver
<1>3. ASSUME NEW b \in Brackets, FailPoll(b) PROVE TypeOK'
  BY <1>3 DEF TypeOK, FailPoll
<1>4. ASSUME SiteStep PROVE TypeOK'
  BY <1>4 DEF TypeOK, SiteStep, Tables, Views
<1>5. ASSUME Save PROVE TypeOK'
  BY <1>5, WritesAssumption DEF TypeOK, Save, world
<1>6. ASSUME Restart PROVE TypeOK'
  <2>1. pending' \in [Intents -> Statuses]
    BY <1>6 DEF Restart, Restored, Statuses
  <2>2. restarts' \in 0 .. MaxRestarts /\ 0 \in 0 .. MaxAttempts - 1
    BY <1>6, WritesAssumption DEF TypeOK, Restart
  <2>3. polling' \in [Brackets -> Tables \cup {NoPoll}]
    BY <1>6 DEF Restart
  <2> QED
    BY <1>6, <2>1, <2>2, <2>3 DEF TypeOK, Restart
<1>7. ASSUME WriterPanics PROVE TypeOK'
  <2>1. 0 \in 0 .. MaxAttempts - 1
    BY WritesAssumption
  <2>2. channel' \in Seq(Intents) /\ alive' \in BOOLEAN
    <3>1. channel' \in Seq(Intents)
      BY <1>7 DEF WriterPanics
    <3>2. alive' = FALSE
      BY <1>7 DEF WriterPanics
    <3>3. alive' \in BOOLEAN
      BY <3>2, Zenon
    <3> QED
      BY <3>1, <3>3
  <2> QED
    BY <1>7, <2>1, <2>2 DEF TypeOK, WriterPanics, world
<1> QED
  BY <1>1, <1>2, <1>3, <1>4, <1>5, <1>6, <1>7 DEF Environment

LEMMA TypeStep == TypeOK /\ [Next]_vars => TypeOK'
<1> SUFFICES ASSUME TypeOK, [Next]_vars PROVE TypeOK'
  OBVIOUS
<1>1. CASE UNCHANGED vars
  BY <1>1 DEF TypeOK, vars, desk, writer, world
<1> QED
  BY <1>1, OperatorType, HandleType, WriterType, EnvironmentType DEF Next

(* The queues, the mailbox and the lists of the write queue keep their     *)
(* types, and no intent is attempted more than max_attempts times.         *)
THEOREM TypeCorrect == Spec => []TypeOK
  BY InitType, TypeStep, PTL DEF Spec

-----------------------------------------------------------------------------
(* One trip at a time. *)

(* The answers in the mailbox as messages come and go. *)
LEMMA NewMessage ==
  ASSUME NEW M, NEW mail \in Seq(M), NEW msg \in M
  PROVE  /\ msg.type = "Result" =>
              /\ \A i : Answered(Append(mail, msg), i) <=> Answered(mail, i) \/ i = msg.intent
              /\ AnsweredOnce(mail) /\ ~Answered(mail, msg.intent) => AnsweredOnce(Append(mail, msg))
         /\ msg.type # "Result" =>
              /\ \A i : Answered(Append(mail, msg), i) <=> Answered(mail, i)
              /\ AnsweredOnce(mail) => AnsweredOnce(Append(mail, msg))
<1> DEFINE more == Append(mail, msg)
<1>1. /\ Len(mail) \in Nat /\ DOMAIN mail = 1 .. Len(mail)
      /\ DOMAIN more = 1 .. Len(mail) + 1
      /\ \A n \in 1 .. Len(mail) : more[n] = mail[n]
      /\ more[Len(mail) + 1] = msg
  OBVIOUS
<1> HIDE DEF more
<1>2. CASE msg.type = "Result"
  <2>1. Answers(more) = Answers(mail) \cup {Len(mail) + 1}
    BY <1>1, <1>2 DEF Answers
  <2>2. \A n \in Answers(mail) : more[n] = mail[n]
    BY <1>1 DEF Answers
  <2>3. ASSUME NEW i PROVE Answered(more, i) <=> Answered(mail, i) \/ i = msg.intent
    BY <1>1, <2>1, <2>2 DEF Answered
  <2>4. ASSUME AnsweredOnce(mail), ~Answered(mail, msg.intent) PROVE AnsweredOnce(more)
    BY <1>1, <2>1, <2>2, <2>4 DEF AnsweredOnce, Answered
  <2> QED
    BY <1>2, <2>3, <2>4 DEF more
<1>3. CASE msg.type # "Result"
  <2>1. Answers(more) = Answers(mail)
    BY <1>1, <1>3 DEF Answers
  <2>2. \A n \in Answers(mail) : more[n] = mail[n]
    BY <1>1 DEF Answers
  <2>3. ASSUME NEW i PROVE Answered(more, i) <=> Answered(mail, i)
    BY <2>1, <2>2 DEF Answered
  <2>4. ASSUME AnsweredOnce(mail) PROVE AnsweredOnce(more)
    BY <2>1, <2>2, <2>4 DEF AnsweredOnce
  <2> QED
    BY <1>3, <2>3, <2>4 DEF more
<1> QED
  BY <1>2, <1>3

LEMMA NextMessage ==
  ASSUME NEW M, NEW mail \in Seq(M), mail # <<>>
  PROVE  /\ \A i : Answered(mail, i) <=>
                     \/ Answered(Tail(mail), i)
                     \/ Head(mail).type = "Result" /\ i = Head(mail).intent
         /\ AnsweredOnce(mail) =>
              /\ AnsweredOnce(Tail(mail))
              /\ Head(mail).type = "Result" => ~Answered(Tail(mail), Head(mail).intent)
<1> DEFINE rest == Tail(mail)
<1>1. /\ Len(mail) \in Nat \ {0} /\ DOMAIN mail = 1 .. Len(mail)
      /\ DOMAIN rest = 1 .. Len(mail) - 1
      /\ \A n \in 1 .. Len(mail) - 1 : rest[n] = mail[n + 1]
      /\ Head(mail) = mail[1]
  OBVIOUS
<1> HIDE DEF rest
<1>2. ASSUME NEW n \in Answers(rest) PROVE n + 1 \in Answers(mail) /\ mail[n + 1] = rest[n] /\ n + 1 # 1
  BY <1>1 DEF Answers
<1>3. ASSUME NEW n \in Answers(mail), n # 1 PROVE n - 1 \in Answers(rest) /\ mail[n] = rest[n - 1]
  <2>1. n - 1 \in 1 .. Len(mail) - 1 /\ (n - 1) + 1 = n
    BY <1>1, <1>3 DEF Answers
  <2>2. rest[n - 1] = mail[n]
    BY <1>1, <2>1
  <2> QED
    BY <1>1, <2>1, <2>2 DEF Answers
<1>4. 1 \in Answers(mail) <=> Head(mail).type = "Result"
  BY <1>1 DEF Answers
<1>5. ASSUME NEW i
      PROVE  Answered(mail, i) <=>
                Answered(rest, i) \/ (Head(mail).type = "Result" /\ i = Head(mail).intent)
  BY <1>1, <1>2, <1>3, <1>4 DEF Answered
<1>6. ASSUME AnsweredOnce(mail)
      PROVE  /\ AnsweredOnce(rest)
             /\ Head(mail).type = "Result" => ~Answered(rest, Head(mail).intent)
  <2>1. ASSUME NEW m \in Answers(rest), NEW n \in Answers(rest), rest[m].intent = rest[n].intent
        PROVE  m = n
    <3>1. m + 1 = n + 1
      BY <1>2, <1>6, <2>1 DEF AnsweredOnce
    <3> QED
      BY <1>1, <3>1 DEF Answers
  <2>2. ASSUME Head(mail).type = "Result", NEW n \in Answers(rest), rest[n].intent = Head(mail).intent
        PROVE  FALSE
    BY <1>1, <1>2, <1>4, <1>6, <2>2 DEF AnsweredOnce
  <2> QED
    BY <2>1, <2>2 DEF AnsweredOnce, Answered
<1> QED
  BY <1>5, <1>6 DEF rest

LEMMA TripInit == Init => OneTrip
<1> SUFFICES ASSUME Init PROVE OneTrip
  OBVIOUS
<1>1. Range(channel) = {} /\ Range(held) = {} /\ IsInjective(channel) /\ IsInjective(held)
  BY DEF Init, Range, IsInjective
<1>2. Answers(mailbox) = {}
  BY DEF Init, Answers
<1>3. \A i \in Intents : pending[i] = "None"
  BY DEF Init, NonePending
<1>4. writing \notin Intents
  BY WritesAssumption DEF Init, Intents
<1> QED
  BY <1>1, <1>2, <1>3, <1>4 DEF OneTrip, Once, OnItsWay, AnsweredOnce, Answered

(* Handing the writer intents that are not on their way. *)
LEMMA Handed ==
  ASSUME TypeOK, Once, NEW q \in Seq(Intents), IsInjective(q),
         \A i \in Range(q) : ~OnItsWay(i)
  PROVE  /\ IsInjective(Sent(q)) /\ writing \notin Range(Sent(q))
         /\ \A i \in Range(Sent(q)) : ~Answered(mailbox, i)
         /\ Range(Sent(q)) \subseteq Range(channel) \cup Range(q)
         /\ alive => Range(Sent(q)) = Range(channel) \cup Range(q)
<1>1. Range(channel) \cap Range(q) = {}
  BY DEF OnItsWay
<1>2. CASE alive
  BY <1>1, <1>2, RangeOfConcat DEF Sent, TypeOK, Once, OnItsWay
<1>3. CASE ~alive
  BY <1>3 DEF Sent, Once
<1> QED
  BY <1>2, <1>3

LEMMA OneIntent == \A i \in Intents : /\ <<i>> \in Seq(Intents) /\ IsInjective(<<i>>)
                                      /\ Range(<<i>>) = {i}
  BY DEF IsInjective, Range
LEMMA OperatorTrip == TypeOK /\ OneTrip /\ Operator => OneTrip'
<1> SUFFICES ASSUME TypeOK, OneTrip, Operator PROVE OneTrip'
  OBVIOUS
<1> USE DEF writer, world
<1>1. ASSUME NEW i \in Intents, pending[i] \notin {"Queued", "AwaitingReconnect"},
             pending' = [pending EXCEPT ![i] = "Queued"], channel' = Sent(<<i>>),
             UNCHANGED <<held, writing, mailbox>>
      PROVE  OneTrip'
  <2>1. ~OnItsWay(i) /\ i \notin Range(held)
    BY <1>1 DEF OneTrip
  <2>2. /\ IsInjective(channel') /\ writing \notin Range(channel')
        /\ \A j \in Range(channel') : ~Answered(mailbox, j)
        /\ Range(channel') \subseteq Range(channel) \cup {i}
    <3> DEFINE q == <<i>>
    <3>1. q \in Seq(Intents) /\ IsInjective(q) /\ Range(q) = {i} /\ channel' = Sent(q)
      BY <1>1, OneIntent
    <3>2. \A j \in Range(q) : ~OnItsWay(j)
      BY <2>1, <3>1
    <3> HIDE DEF q
    <3> QED
      BY <3>1, <3>2, Handed DEF OneTrip
  <2>3. Once'
    BY <1>1, <2>2 DEF OneTrip, Once
  <2>4. ASSUME NEW j \in Intents, OnItsWay(j)' PROVE pending'[j] = "Queued"
    BY <1>1, <2>2, <2>4 DEF OneTrip, OnItsWay, TypeOK
  <2>5. ASSUME NEW j \in Intents
        PROVE  j \in Range(held') <=> pending'[j] = "AwaitingReconnect"
    BY <1>1, <2>1 DEF OneTrip, TypeOK
  <2> QED
    BY <2>3, <2>4, <2>5 DEF OneTrip
<1>2. ASSUME NEW s \in Sets, NEW k \in Kinds, Enqueue(s, k) PROVE OneTrip'
  <2> DEFINE intent == [set |-> s, kind |-> k, at |-> created]
  <2>1. created \in 0 .. MaxIntents - 1
    BY <1>2, WritesAssumption DEF TypeOK, Enqueue
  <2>2. intent \in Intents /\ intent.set = s /\ intent.kind = k
    BY <2>1 DEF Intents
  <2>3. pending[intent] \notin {"Queued", "AwaitingReconnect"}
    BY <1>2, <2>2 DEF Enqueue, Twin
  <2> HIDE DEF intent
  <2> QED
    BY <1>1, <1>2, <2>2, <2>3 DEF Enqueue, intent
<1>3. ASSUME NEW i \in Intents, Retry(i) PROVE OneTrip'
  BY <1>1, <1>3 DEF Retry
<1>4. ASSUME NEW i \in Intents, Discard(i) PROVE OneTrip'
  <2>1. PICK kept \in Arrangements(Range(held)) :
           IsFiltered(kept, held, Intents \ {i}) /\ held' = kept
    BY <1>4 DEF Discard
  <2>2. IsInjective(held') /\ Range(held') = Range(held) \cap (Intents \ {i})
    BY <2>1, FilteredQueue DEF TypeOK, OneTrip, Once
  <2>3. ~OnItsWay(i) /\ i \notin Range(held)
    BY <1>4 DEF Discard, OneTrip
  <2>4. Once'
    BY <1>4, <2>2 DEF Discard, OneTrip, Once
  <2>5. ASSUME NEW j \in Intents, OnItsWay(j)' PROVE pending'[j] = "Queued"
    BY <1>4, <2>3, <2>5 DEF Discard, OneTrip, OnItsWay, TypeOK
  <2>6. ASSUME NEW j \in Intents
        PROVE  j \in Range(held') <=> pending'[j] = "AwaitingReconnect"
    BY <1>4, <2>2, <2>3 DEF Discard, OneTrip, TypeOK
  <2> QED
    BY <2>4, <2>5, <2>6 DEF OneTrip
<1> QED
  BY <1>2, <1>3, <1>4 DEF Operator

LEMMA HandleResultTrip == TypeOK /\ OneTrip /\ HandleResult => OneTrip'
<1> SUFFICES ASSUME TypeOK, OneTrip, HandleResult PROVE OneTrip'
  OBVIOUS
<1> USE DEF writer, world
<1> DEFINE i == Head(mailbox).intent
<1>1. i \in Intents /\ mailbox # <<>> /\ Head(mailbox).type = "Result"
  BY HeadMessage DEF HandleResult
<1>2. /\ \A j : Answered(mailbox, j) <=> Answered(mailbox', j) \/ j = i
      /\ AnsweredOnce(mailbox') /\ ~Answered(mailbox', i)
  BY <1>1, NextMessage DEF HandleResult, TypeOK, OneTrip, Once
<1>3. UNCHANGED <<channel, writing>>
  BY DEF HandleResult
<1>4. /\ pending[i] = "Queued" /\ i \notin Range(held)
      /\ i \notin Range(channel) /\ i # writing
  BY <1>1, <1>2 DEF OneTrip, Once, OnItsWay
<1> HIDE DEF i
<1>5. \A j : OnItsWay(j)' => OnItsWay(j) /\ j # i
  BY <1>2, <1>3, <1>4 DEF OnItsWay
<1>6. /\ IsInjective(held')
      /\ \A j \in Intents : /\ j # i => pending'[j] = pending[j]
                            /\ j # i => (j \in Range(held') <=> j \in Range(held))
      /\ i \in Range(held') <=> pending'[i] = "AwaitingReconnect"
  <2>1. CASE Confirm(i)
    BY <1>1, <1>4, <2>1 DEF Confirm, OneTrip, Once, TypeOK
  <2>2. CASE Park(i)
    BY <1>1, <1>4, <2>2 DEF Park, OnList, OneTrip, Once, TypeOK
  <2>3. CASE Hold(i)
    <3>1. held' = Append(held, i)
      BY <1>4, <2>3 DEF Hold
    <3>2. IsInjective(held') /\ Range(held') = Range(held) \cup {i}
      BY <1>1, <1>4, <3>1, RangeOfAppend DEF TypeOK, OneTrip, Once
    <3> QED
      BY <1>1, <1>4, <2>3, <3>2 DEF Hold, OnList, TypeOK
  <2> QED
    BY <2>1, <2>2, <2>3 DEF HandleResult, i
<1>7. Once'
  BY <1>2, <1>3, <1>6 DEF OneTrip, Once
<1>8. ASSUME NEW j \in Intents, OnItsWay(j)' PROVE pending'[j] = "Queued"
  BY <1>5, <1>6, <1>8 DEF OneTrip
<1>9. ASSUME NEW j \in Intents PROVE j \in Range(held') <=> pending'[j] = "AwaitingReconnect"
  BY <1>6 DEF OneTrip
<1> QED
  BY <1>7, <1>8, <1>9 DEF OneTrip

LEMMA HandlePollTrip == TypeOK /\ OneTrip /\ HandlePoll => OneTrip'
<1> SUFFICES ASSUME TypeOK, OneTrip, HandlePoll PROVE OneTrip'
  OBVIOUS
<1> USE DEF writer, world
<1> DEFINE released == Released(Head(mailbox).bracket, Head(mailbox).captured)
           moot == Moot(released, table')
<1>1. mailbox # <<>> /\ Head(mailbox).type # "Result" /\ Release(released, table')
  BY DEF HandlePoll
<1>2. released \subseteq Range(held) /\ moot \subseteq released /\ released \subseteq Intents
  BY DEF Released, Moot, TypeOK, Range
<1>3. UNCHANGED writing
  BY DEF HandlePoll
<1>4. /\ \A j : Answered(mailbox', j) <=> Answered(mailbox, j)
      /\ AnsweredOnce(mailbox')
  BY <1>1, NextMessage DEF HandlePoll, TypeOK, OneTrip, Once
<1> HIDE DEF released
<1>5. PICK kept, resent \in Arrangements(Range(held)) :
         /\ IsFiltered(kept, held, Intents \ released)
         /\ IsFiltered(resent, held, released \ moot)
         /\ held' = kept
         /\ channel' = Sent(resent)
  BY <1>1 DEF Release
<1>6. \A j \in Intents : pending'[j] = IF j \in moot THEN "None"
                                       ELSE IF j \in released /\ pending[j] # "None" THEN "Queued"
                                       ELSE pending[j]
  BY <1>1 DEF Release
<1> HIDE DEF moot
<1>7. IsInjective(held') /\ Range(held') = Range(held) \ released
  <2>1. IsInjective(held') /\ Range(held') = Range(held) \cap (Intents \ released)
    BY <1>5, FilteredQueue DEF TypeOK, OneTrip, Once
  <2> QED
    BY <2>1 DEF TypeOK, Range
<1>8. resent \in Seq(Intents) /\ IsInjective(resent) /\ Range(resent) = released \ moot
  BY <1>2, <1>5, FilteredQueue DEF TypeOK, OneTrip, Once
<1>9. \A j \in released : pending[j] = "AwaitingReconnect" /\ ~OnItsWay(j)
  BY <1>2 DEF OneTrip
<1>10. /\ IsInjective(channel') /\ writing \notin Range(channel')
       /\ \A j \in Range(channel') : ~Answered(mailbox, j)
       /\ Range(channel') \subseteq Range(channel) \cup (released \ moot)
  BY <1>5, <1>8, <1>9, Handed DEF OneTrip
<1>11. Once'
  BY <1>3, <1>4, <1>7, <1>10 DEF OneTrip, Once
<1>12. ASSUME NEW j \in Intents, OnItsWay(j)' PROVE pending'[j] = "Queued"
  <2>1. OnItsWay(j) \/ j \in released \ moot
    BY <1>3, <1>4, <1>10, <1>12 DEF OnItsWay
  <2> QED
    BY <1>2, <1>6, <1>9, <2>1 DEF OneTrip
<1>13. ASSUME NEW j \in Intents PROVE j \in Range(held') <=> pending'[j] = "AwaitingReconnect"
  BY <1>2, <1>6, <1>7, <1>9 DEF OneTrip
<1> QED
  BY <1>11, <1>12, <1>13 DEF OneTrip

LEMMA WriterTrip == TypeOK /\ OneTrip /\ (Receive \/ Attempt) => OneTrip'
<1> SUFFICES ASSUME TypeOK, OneTrip, Receive \/ Attempt PROVE OneTrip'
  OBVIOUS
<1> USE DEF desk, world
<1>1. NoIntent \notin Intents
  BY WritesAssumption DEF Intents
<1>2. CASE Receive
  <2>1. /\ Range(channel) = Range(channel') \cup {writing'}
        /\ IsInjective(channel') /\ writing' \notin Range(channel')
    BY <1>2, RangeOfTail DEF Receive, TypeOK, OneTrip, Once
  <2>2. \A j : OnItsWay(j)' => OnItsWay(j)
    BY <1>2, <2>1 DEF Receive, OnItsWay
  <2>3. Once'
    BY <1>2, <2>1 DEF Receive, OneTrip, Once
  <2> QED
    BY <1>2, <2>2, <2>3 DEF Receive, OneTrip
<1>3. ASSUME NEW outcome \in {"Success", "AwaitReconnect", "Terminal"},
             writing # NoIntent, Finish(outcome), UNCHANGED <<pending, held, channel>>
      PROVE  OneTrip'
  <2> DEFINE result == [type |-> "Result", intent |-> writing, outcome |-> outcome]
  <2>1. result \in Results /\ result.type = "Result" /\ result.intent = writing
    BY <1>3 DEF TypeOK, Results
  <2>2. mailbox' = Append(mailbox, result) /\ writing' = NoIntent
    BY <1>3 DEF Finish
  <2> HIDE DEF result
  <2>3. /\ \A j : Answered(mailbox', j) <=> Answered(mailbox, j) \/ j = writing
        /\ AnsweredOnce(mailbox')
    BY <2>1, <2>2, NewMessage DEF TypeOK, OneTrip, Once
  <2>4. \A j \in Intents : OnItsWay(j)' => OnItsWay(j)
    BY <1>1, <1>3, <2>2, <2>3 DEF OnItsWay
  <2>5. NoIntent \notin Range(channel) /\ ~Answered(mailbox, NoIntent)
    <3>1. Range(channel) \subseteq Intents
      BY DEF TypeOK, Range
    <3>2. \A n \in Answers(mailbox) : mailbox[n].intent \in Intents
      BY DEF TypeOK, Answers, Results, Polls
    <3> QED
      BY <1>1, <3>1, <3>2 DEF Answered
  <2>6. Once'
    BY <1>3, <2>2, <2>3, <2>5 DEF OneTrip, Once
  <2> QED
    BY <1>3, <2>4, <2>6 DEF OneTrip
<1>4. ASSUME UNCHANGED <<pending, held, channel, writing, mailbox>> PROVE OneTrip'
  BY <1>4 DEF OneTrip, Once, OnItsWay
<1>5. CASE Succeed
  BY <1>3, <1>5 DEF Succeed
<1>6. CASE FailForGood
  BY <1>3, <1>6 DEF FailForGood
<1>7. CASE LoseConnection
  BY <1>3, <1>7 DEF LoseConnection
<1>8. CASE FailAttempt
  BY <1>3, <1>4, <1>8 DEF FailAttempt
<1> QED
  BY <1>2, <1>5, <1>6, <1>7, <1>8 DEF Attempt

LEMMA EnvironmentTrip == TypeOK /\ OneTrip /\ Environment => OneTrip'
<1> SUFFICES ASSUME TypeOK, OneTrip, Environment PROVE OneTrip'
  OBVIOUS
<1> USE DEF desk, writer
<1>1. NoIntent \notin Intents
  BY WritesAssumption DEF Intents
<1>2. ASSUME UNCHANGED <<pending, held, channel, writing, mailbox>> PROVE OneTrip'
  BY <1>2 DEF OneTrip, Once, OnItsWay
<1>3. ASSUME NEW b \in Brackets, Fetch(b) \/ FailPoll(b) PROVE OneTrip'
  BY <1>2, <1>3 DEF Fetch, FailPoll
<1>4. ASSUME NEW b \in Brackets, Deliver(b) PROVE OneTrip'
  <2> DEFINE msg == [type |-> "Poll", bracket |-> b, view |-> polling[b], captured |-> created]
  <2>1. mailbox' = Append(mailbox, msg) /\ msg.type # "Result"
    BY <1>4 DEF Deliver
  <2>2. mailbox \in Seq((Results \cup Polls) \cup {msg})
    <3>1. \A n \in DOMAIN mailbox : mailbox[n] \in Results \cup Polls
      BY DEF TypeOK
    <3> HIDE DEF msg
    <3> QED
      BY <3>1 DEF TypeOK
  <2> HIDE DEF msg
  <2>3. /\ \A j : Answered(mailbox', j) <=> Answered(mailbox, j)
        /\ AnsweredOnce(mailbox')
    BY <2>1, <2>2, NewMessage DEF OneTrip, Once
  <2> QED
    BY <1>4, <2>3 DEF Deliver, OneTrip, Once, OnItsWay
<1>5. CASE SiteStep \/ Save
  BY <1>2, <1>5 DEF SiteStep, Save, world
<1>6. ASSUME channel' = <<>>, writing' = NoIntent PROVE
        /\ IsInjective(channel') /\ Range(channel') = {} /\ writing' \notin Intents
  BY <1>1, <1>6 DEF IsInjective, Range
<1>7. CASE Restart
  <2>1. held' = <<>> /\ mailbox' = <<>> /\ channel' = <<>> /\ writing' = NoIntent
    BY <1>7 DEF Restart
  <2>2. IsInjective(held') /\ Range(held') = {} /\ Answers(mailbox') = {}
    BY <2>1 DEF IsInjective, Range, Answers
  <2>3. \A j \in Intents : pending'[j] # "AwaitingReconnect"
    BY <1>7 DEF Restart, Restored
  <2>4. Once' /\ \A j \in Intents : ~OnItsWay(j)'
    BY <1>6, <2>1, <2>2 DEF Once, OnItsWay, Answered, AnsweredOnce
  <2> QED
    BY <2>2, <2>3, <2>4 DEF OneTrip
<1>8. CASE WriterPanics
  <2>1. UNCHANGED <<pending, held, mailbox>> /\ channel' = <<>> /\ writing' = NoIntent
    BY <1>8 DEF WriterPanics
  <2>2. ~Answered(mailbox, NoIntent)
    <3>1. \A n \in Answers(mailbox) : mailbox[n].intent \in Intents
      BY DEF TypeOK, Answers, Results, Polls
    <3> QED
      BY <1>1, <3>1 DEF Answered
  <2>3. Once' /\ \A j \in Intents : OnItsWay(j)' => OnItsWay(j)
    BY <1>6, <2>1, <2>2 DEF OneTrip, Once, OnItsWay
  <2> QED
    BY <2>1, <2>3 DEF OneTrip
<1> QED
  BY <1>3, <1>4, <1>5, <1>7, <1>8 DEF Environment

LEMMA TripStep == TypeOK /\ OneTrip /\ [Next]_vars => OneTrip'
<1> SUFFICES ASSUME TypeOK, OneTrip, [Next]_vars PROVE OneTrip'
  OBVIOUS
<1>1. CASE UNCHANGED vars
  BY <1>1 DEF OneTrip, Once, OnItsWay, vars, desk, writer
<1> QED
  BY <1>1, OperatorTrip, HandleResultTrip, HandlePollTrip, WriterTrip, EnvironmentTrip
     DEF Next, Handle

(* An intent makes one trip to the site at a time, through retries,        *)
(* hand-backs, releases, panics of the writer and restarts, and what the   *)
(* operator can retry or discard is not on its way.                        *)
THEOREM Trips == Spec => []OneTrip
<1>1. TypeOK /\ OneTrip /\ [Next]_vars => (TypeOK /\ OneTrip)'
  BY TypeStep, TripStep
<1> QED
  BY InitType, TripInit, <1>1, PTL DEF Spec

-----------------------------------------------------------------------------
(* No queued intent is stranded while the writer lives. *)

Owned == (alive = TRUE) /\ QueuedOnTheirWay

LEMMA OwnedInit == Init => Owned
  BY DEF Init, Owned, QueuedOnTheirWay, NonePending

LEMMA OwnedStep ==
  ASSUME TypeOK, OneTrip, Owned, [Next]_vars, alive' = TRUE
  PROVE  Owned'
<1> USE DEF Owned
<1>1. ASSUME NEW q \in Seq(Intents)
      PROVE  Sent(q) = channel \o q /\ Range(Sent(q)) = Range(channel) \cup Range(q)
  BY <1>1, RangeOfConcat DEF Sent, TypeOK
<1>2. ASSUME NEW i \in Intents, pending' = [pending EXCEPT ![i] = "Queued"],
             channel' = Sent(<<i>>), UNCHANGED <<writing, alive, mailbox>>
      PROVE  Owned'
  <2> DEFINE q == <<i>>
  <2>1. q \in Seq(Intents) /\ Range(q) = {i} /\ channel' = Sent(q)
    BY <1>2, OneIntent
  <2> HIDE DEF q
  <2>2. Range(channel') = Range(channel) \cup {i}
    BY <1>1, <2>1
  <2> QED
    BY <1>2, <2>2 DEF QueuedOnTheirWay, OnItsWay, TypeOK
<1>3. ASSUME NEW s \in Sets, NEW k \in Kinds, Enqueue(s, k) PROVE Owned'
  <2> DEFINE intent == [set |-> s, kind |-> k, at |-> created]
  <2>1. created \in 0 .. MaxIntents - 1
    BY <1>3, WritesAssumption DEF TypeOK, Enqueue
  <2>2. intent \in Intents
    BY <2>1 DEF Intents
  <2> HIDE DEF intent
  <2> QED
    BY <1>2, <1>3, <2>2 DEF Enqueue, intent
<1>4. ASSUME NEW i \in Intents, Retry(i) PROVE Owned'
  BY <1>2, <1>4 DEF Retry
<1>5. ASSUME NEW i \in Intents, Discard(i) PROVE Owned'
  BY <1>5 DEF Discard, QueuedOnTheirWay, OnItsWay, TypeOK, writer
<1>6. ASSUME HandleResult PROVE Owned'
  <2> DEFINE i == Head(mailbox).intent
  <2>1. i \in Intents /\ mailbox # <<>> /\ Head(mailbox).type = "Result"
    BY <1>6, HeadMessage DEF HandleResult
  <2>2. \A j : Answered(mailbox, j) <=> Answered(mailbox', j) \/ j = i
    BY <1>6, <2>1, NextMessage DEF HandleResult, TypeOK
  <2>3. \A j \in Intents : pending'[j] = "Queued" => pending[j] = "Queued" /\ j # i
    <3>1. CASE Confirm(i)
      BY <2>1, <3>1 DEF Confirm, TypeOK
    <3>2. CASE Park(i)
      BY <2>1, <3>2 DEF Park, OnList, TypeOK
    <3>3. CASE Hold(i)
      BY <2>1, <3>3 DEF Hold, OnList, TypeOK
    <3> QED
      BY <1>6, <3>1, <3>2, <3>3 DEF HandleResult
  <2> QED
    BY <1>6, <2>2, <2>3 DEF HandleResult, QueuedOnTheirWay, OnItsWay, writer
<1>7. ASSUME HandlePoll PROVE Owned'
  <2> DEFINE released == Released(Head(mailbox).bracket, Head(mailbox).captured)
             moot == Moot(released, table')
  <2>1. mailbox # <<>> /\ Head(mailbox).type # "Result" /\ Release(released, table')
    BY <1>7 DEF HandlePoll
  <2>2. \A j : Answered(mailbox', j) <=> Answered(mailbox, j)
    BY <1>7, <2>1, NextMessage DEF HandlePoll, TypeOK
  <2>3. released \subseteq Range(held) /\ moot \subseteq released
    BY DEF Released, Moot
  <2>4. UNCHANGED <<writing, alive>>
    BY <1>7 DEF HandlePoll
  <2> HIDE DEF released
  <2>5. \A j \in Intents : pending'[j] = "Queued" => pending[j] = "Queued" \/ j \in released \ moot
    BY <2>1 DEF Release
  <2>6. PICK resent \in Arrangements(Range(held)) :
           IsFiltered(resent, held, released \ moot) /\ channel' = Sent(resent)
    BY <2>1 DEF Release
  <2> HIDE DEF moot
  <2>7. resent \in Seq(Intents) /\ Range(resent) = Range(held) \cap (released \ moot)
    BY <2>6, FilteredQueue DEF TypeOK, OneTrip, Once
  <2>8. Range(channel') = Range(channel) \cup (released \ moot)
    BY <1>1, <2>3, <2>6, <2>7
  <2> QED
    BY <2>2, <2>4, <2>5, <2>8 DEF QueuedOnTheirWay, OnItsWay
<1>8. ASSUME Receive PROVE Owned'
  <2>1. Range(channel) = Range(channel') \cup {writing'}
    BY <1>8, RangeOfTail DEF Receive, TypeOK
  <2>2. writing = NoIntent /\ NoIntent \notin Intents
    BY <1>8, WritesAssumption DEF Receive, Intents
  <2> QED
    BY <1>8, <2>1, <2>2 DEF Receive, QueuedOnTheirWay, OnItsWay, desk
<1>9. ASSUME NEW outcome \in {"Success", "AwaitReconnect", "Terminal"},
             writing # NoIntent, Finish(outcome), UNCHANGED <<pending, channel, alive>>
      PROVE  Owned'
  <2> DEFINE result == [type |-> "Result", intent |-> writing, outcome |-> outcome]
  <2>1. result \in Results /\ result.type = "Result" /\ result.intent = writing
    BY <1>9 DEF TypeOK, Results
  <2>2. mailbox' = Append(mailbox, result)
    BY <1>9 DEF Finish
  <2> HIDE DEF result
  <2>3. mailbox \in Seq(Results \cup Polls)
    BY DEF TypeOK
  <2>4. \A j : Answered(mailbox', j) <=> Answered(mailbox, j) \/ j = writing
    BY <2>1, <2>2, <2>3, NewMessage
  <2> QED
    BY <1>9, <2>4 DEF QueuedOnTheirWay, OnItsWay
<1>10. ASSUME UNCHANGED <<pending, channel, writing, alive, mailbox>> PROVE Owned'
  BY <1>10 DEF QueuedOnTheirWay, OnItsWay
<1>11. ASSUME Attempt PROVE Owned'
  <2>1. CASE Succeed
    BY <1>9, <2>1 DEF Succeed, desk
  <2>2. CASE FailForGood
    BY <1>9, <2>2 DEF FailForGood, desk
  <2>3. CASE LoseConnection
    BY <1>9, <2>3 DEF LoseConnection, desk
  <2>4. CASE FailAttempt
    BY <1>9, <1>10, <2>4 DEF FailAttempt, desk
  <2> QED
    BY <1>11, <2>1, <2>2, <2>3, <2>4 DEF Attempt
<1>12. ASSUME NEW b \in Brackets, Deliver(b) PROVE Owned'
  <2> DEFINE msg == [type |-> "Poll", bracket |-> b, view |-> polling[b], captured |-> created]
  <2>1. mailbox' = Append(mailbox, msg) /\ msg.type # "Result"
    BY <1>12 DEF Deliver
  <2>2. mailbox \in Seq((Results \cup Polls) \cup {msg})
    <3>1. \A n \in DOMAIN mailbox : mailbox[n] \in Results \cup Polls
      BY DEF TypeOK
    <3> HIDE DEF msg
    <3> QED
      BY <3>1 DEF TypeOK
  <2> HIDE DEF msg
  <2>3. \A j : Answered(mailbox', j) <=> Answered(mailbox, j)
    BY <2>1, <2>2, NewMessage
  <2> QED
    BY <1>12, <2>3 DEF Deliver, QueuedOnTheirWay, OnItsWay, desk, writer
<1>13. ASSUME Environment PROVE Owned'
  <2>1. ASSUME NEW b \in Brackets, Fetch(b) \/ FailPoll(b) PROVE Owned'
    BY <1>10, <2>1 DEF Fetch, FailPoll, desk, writer
  <2>2. CASE SiteStep \/ Save
    BY <1>10, <2>2 DEF SiteStep, Save, desk, writer, world
  <2>3. CASE Restart
    BY <2>3 DEF Restart, Restored, QueuedOnTheirWay
  <2>4. CASE WriterPanics
    BY <2>4 DEF WriterPanics
  <2> QED
    BY <1>12, <1>13, <2>1, <2>2, <2>3, <2>4 DEF Environment
<1>14. CASE UNCHANGED vars
  BY <1>10, <1>14 DEF vars, desk, writer
<1> QED
  BY <1>3, <1>4, <1>5, <1>6, <1>7, <1>8, <1>11, <1>13, <1>14 DEF Next, Operator, Handle

LEMMA StrandedStep ==
  ASSUME TypeOK, OneTrip, NoneStranded, [Next]_vars
  PROVE  NoneStranded'
<1>1. CASE alive = TRUE /\ alive' = TRUE
  <2>1. Owned
    BY <1>1 DEF NoneStranded, Owned
  <2> QED
    BY <1>1, <2>1, OwnedStep DEF NoneStranded, Owned
<1>2. CASE alive = FALSE /\ alive' = TRUE
  <2>1. Restart
    BY <1>2 DEF Next, Operator, Handle, Attempt, Environment, Enqueue, Retry, Discard, HandleResult,
                HandlePoll, Receive, Succeed, FailForGood, LoseConnection, FailAttempt, Fetch,
                Deliver, FailPoll, SiteStep, Save, WriterPanics, vars, writer
  <2>2. \A i \in Intents : pending'[i] # "Queued"
    BY <2>1 DEF Restart, Restored
  <2> QED
    BY <2>2 DEF NoneStranded, QueuedOnTheirWay
<1>3. CASE alive' = FALSE
  BY <1>3 DEF NoneStranded
<1>4. alive \in BOOLEAN /\ alive' \in BOOLEAN
  BY TypeStep DEF TypeOK
<1> QED
  BY <1>1, <1>2, <1>3, <1>4

(* While the writer lives, every queued intent is in its channel, in its   *)
(* hands, or answered: no entry is left behind that would suppress a fresh *)
(* enqueue, not even by a restart.                                         *)
THEOREM NoStrays == Spec => []NoneStranded
<1>1. TypeOK /\ OneTrip /\ NoneStranded /\ [Next]_vars => (TypeOK /\ OneTrip /\ NoneStranded)'
  BY TypeStep, TripStep, StrandedStep
<1>2. Init => NoneStranded
  BY OwnedInit DEF Owned, NoneStranded
<1> QED
  BY InitType, TripInit, <1>1, <1>2, PTL DEF Spec
=============================================================================
