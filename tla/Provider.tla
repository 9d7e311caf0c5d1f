------------------------------- MODULE Provider -------------------------------
(***************************************************************************)
(* The start.gg client (crates/bracket-tools-startgg/src/provider.rs) with *)
(* its response cache (bracket-tools-cache) and the journal by which the   *)
(* processes of one token share a window of requests (limit_journal.rs).   *)
(*                                                                         *)
(* Workers are concurrent calls of the client: reads of one cached set and *)
(* mutations of it.  A value of the set is the number of mutations it has  *)
(* seen; from Final on the set is completed.  Time is in units of which    *)
(* the window has Window and the hold after a 429 has Hold.                *)
(***************************************************************************)
EXTENDS Naturals, FiniteSets

CONSTANTS
    Workers, Processes,
    ProcessOf, \* the process of each worker
    NoOne,
    Capacity,  \* requests per window that the journal admits
    Window, Hold,
    Ttl,       \* the age at which a cached set is stale; Ttl > MaxTime for none
    Final,     \* the value from which the set is completed
    MaxValue,  \* Bound: mutations the site performs
    MaxTime    \* Bound: the clock

ASSUME ProviderAssumption ==
    /\ IsFiniteSet(Workers) /\ ProcessOf \in [Workers -> Processes] /\ NoOne \notin Workers
    /\ Capacity \in Nat \ {0} /\ Window \in Nat \ {0} /\ Hold \in Nat \ {0}
    /\ Ttl \in Nat /\ Final \in Nat /\ MaxValue \in Nat /\ MaxTime \in Nat

Times  == 0..MaxTime
Values == 0..MaxValue
Jobs   == {"none", "read", "write"}
Steps == {"idle", "gate", "waiting", "stamping", "sent", "answered",
           "rejected", "holding"}

VARIABLES
    now,
    journal,   \* blocked: the end of the hold (0: none); sent: recent requests
    lock,      \* who holds the journal's mutex in each process
    copy,      \* the journal a worker has loaded and not yet saved
    job, step,
    answer,    \* the value of the set in a worker's answer
    cache,     \* the cached set: full or not, its value, when it was stored
    site,      \* the value of the set at start.gg
    sends,     \* ghost: when each request left
    held,      \* ghost: the end of the last hold that was recorded
    confirmed, \* ghost: the newest mutation of ours that returned
    straddled  \* ghost: an answer was on its way to the cache when one returned

calls == <<job, step, answer>>
ghost == <<sends, held, confirmed, straddled>>
client  == <<now, journal, lock, copy, calls, cache, site, ghost>>

(* A request is the time it left and a number that tells it from others of  *)
(* that time.                                                              *)
Requests == Times \X Nat
Journals == [blocked : 0..(MaxTime + Hold), sent : SUBSET Requests]
Empty    == [blocked |-> 0, sent |-> {}]
Entry    == [full : {"no", "yes"}, value : Values, at : Times]
NoEntry  == [full |-> "no", value |-> 0, at |-> 0]

ClientTypeOK ==
    /\ now \in Times
    /\ journal \in Journals
    /\ lock \in [Processes -> Workers \cup {NoOne}]
    /\ copy \in [Workers -> Journals]
    /\ job \in [Workers -> Jobs]
    /\ step \in [Workers -> Steps]
    /\ answer \in [Workers -> Values]
    /\ cache \in Entry
    /\ site \in Values
    /\ sends \subseteq Requests
    /\ held \in 0..(MaxTime + Hold)
    /\ confirmed \in Values
    /\ straddled \in {"no", "yes"}

ClientInit ==
    /\ now = 0
    /\ journal = Empty
    /\ lock = [p \in Processes |-> NoOne]
    /\ copy = [w \in Workers |-> Empty]
    /\ job = [w \in Workers |-> "none"]
    /\ step = [w \in Workers |-> "idle"]
    /\ answer = [w \in Workers |-> 0]
    /\ cache = NoEntry
    /\ site = 0
    /\ sends = {} /\ held = 0 /\ confirmed = 0 /\ straddled = "no"

-----------------------------------------------------------------------------
(* The journal. *)

Recent(requests, t) == {r \in requests : r[1] + Window > t}

(* Variant: the window admits one request too many. *)
PassesLate(j, t) == j.blocked <= t /\ Cardinality(Recent(j.sent, t)) <= Capacity

(* gate: whether it lets a request through at t.  How long the others are    *)
(* told to wait is left out: what is recent ends after t.                  *)
Passes(j, t) == j.blocked <= t /\ Cardinality(Recent(j.sent, t)) < Capacity

With(requests, t) ==
    requests \cup {<<t, CHOOSE k \in 0..Cardinality(requests) : <<t, k>> \notin requests>>}

Stamped(j, t) ==
    [blocked |-> IF j.blocked <= t THEN 0 ELSE j.blocked,
     sent    |-> With(Recent(j.sent, t), t)]

Larger(u, v) == IF u < v THEN v ELSE u

Blocked(j, t) == [j EXCEPT !.blocked = Larger(@, t + Hold)]

(* Variant: no mutex. *)
AnyTime(w) == TRUE

Free(w) == lock[ProcessOf[w]] = NoOne

Load(w, next) ==
    /\ Free(w)
    /\ lock' = [lock EXCEPT ![ProcessOf[w]] = w]
    /\ copy' = [copy EXCEPT ![w] = journal]
    /\ step' = [step EXCEPT ![w] = next]

Save(w, j) ==
    /\ journal' = j
    /\ lock' = [lock EXCEPT ![ProcessOf[w]] = NoOne]
    /\ copy' = [copy EXCEPT ![w] = Empty]

-----------------------------------------------------------------------------
(* run_query. *)

Ended(w) ==
    /\ step' = [step EXCEPT ![w] = "idle"]
    /\ job' = [job EXCEPT ![w] = "none"]
    /\ answer' = [answer EXCEPT ![w] = 0]

GateOpens(w) ==
    /\ step[w] = "gate" /\ Free(w)
    /\ Passes(journal, now)
    /\ step' = [step EXCEPT ![w] = "waiting"]
    /\ UNCHANGED <<now, journal, lock, copy, job, answer, cache, site, ghost>>

(* GGProviderError::RateLimited: nothing was sent. *)
GateRefuses(w) ==
    /\ step[w] = "gate" /\ Free(w)
    /\ ~Passes(journal, now)
    /\ Ended(w)
    /\ UNCHANGED <<now, journal, lock, copy, cache, site, ghost>>

(* until_ready (external) lets the call go, record_sent stamps it. *)
LoadSent(w) ==
    /\ step[w] = "waiting"
    /\ Load(w, "stamping")
    /\ UNCHANGED <<now, journal, job, answer, cache, site, ghost>>

SaveSent(w) ==
    /\ step[w] = "stamping"
    /\ Save(w, Stamped(copy[w], now))
    /\ step' = [step EXCEPT ![w] = "sent"]
    /\ sends' = With(Recent(sends, now), now)
    /\ UNCHANGED <<now, job, answer, cache, site, held, confirmed, straddled>>

(* start.gg answers ... *)
Answered(w) ==
    /\ step[w] = "sent"
    /\ job[w] = "write" => site < MaxValue
    /\ site' = IF job[w] = "write" THEN site + 1 ELSE site
    /\ answer' = [answer EXCEPT ![w] = site']
    /\ step' = [step EXCEPT ![w] = "answered"]
    /\ UNCHANGED <<now, journal, lock, copy, job, cache, ghost>>

(* ... or rejects the request with 429 ... *)
Rejected(w) ==
    /\ step[w] = "sent"
    /\ step' = [step EXCEPT ![w] = "rejected"]
    /\ UNCHANGED <<now, journal, lock, copy, job, answer, cache, site, ghost>>

LoadRejected(w) ==
    /\ step[w] = "rejected"
    /\ Load(w, "holding")
    /\ UNCHANGED <<now, journal, job, answer, cache, site, ghost>>

SaveRejected(w) ==
    /\ step[w] = "holding"
    /\ Save(w, Blocked(copy[w], now))
    /\ held' = Larger(held, now + Hold)
    /\ Ended(w)
    /\ UNCHANGED <<now, cache, site, sends, confirmed, straddled>>

(* ... or the call ends in an error: what it sent may have been performed. *)
Fails(w) ==
    /\ step[w] \in {"sent", "answered"}
    /\ Ended(w)
    /\ UNCHANGED <<now, journal, lock, copy, cache, site, ghost>>

-----------------------------------------------------------------------------
(* cached_fetch and run_set_mutation. *)

Fresh == cache.full = "yes" /\ (cache.value >= Final \/ now - cache.at < Ttl)

ReadHits(w) ==
    /\ step[w] = "idle"
    /\ Fresh
    /\ UNCHANGED client

ReadMisses(w) ==
    /\ step[w] = "idle"
    /\ ~Fresh
    /\ job' = [job EXCEPT ![w] = "read"]
    /\ step' = [step EXCEPT ![w] = "gate"]
    /\ UNCHANGED <<now, journal, lock, copy, answer, cache, site, ghost>>

Put(w) ==
    /\ step[w] = "answered" /\ job[w] = "read"
    /\ cache' = [full |-> "yes", value |-> answer[w], at |-> now]
    /\ Ended(w)
    /\ UNCHANGED <<now, journal, lock, copy, site, ghost>>

Mutate(w) ==
    /\ step[w] = "idle"
    /\ job' = [job EXCEPT ![w] = "write"]
    /\ step' = [step EXCEPT ![w] = "gate"]
    /\ UNCHANGED <<now, journal, lock, copy, answer, cache, site, ghost>>

(* Variant: what is completed is kept. *)
EmptiedIfOpen(entry) == IF entry.value >= Final THEN entry ELSE NoEntry

Emptied(entry) == NoEntry

Delete(w) ==
    /\ step[w] = "answered" /\ job[w] = "write"
    /\ cache' = Emptied(cache)
    /\ confirmed' = Larger(confirmed, answer[w])
    /\ straddled' = IF \E r \in Workers : job[r] = "read" /\ step[r] = "answered"
                                          /\ answer[r] < answer[w]
                    THEN "yes" ELSE straddled
    /\ Ended(w)
    /\ UNCHANGED <<now, journal, lock, copy, site, sends, held>>

-----------------------------------------------------------------------------

(* Somebody else changes the set. *)
SiteChanges ==
    /\ site < MaxValue
    /\ site' = site + 1
    /\ UNCHANGED <<now, journal, lock, copy, calls, cache, ghost>>

(* Critical sections take no time, waiting and requests do. *)
Tick ==
    /\ now < MaxTime
    /\ \A p \in Processes : lock[p] = NoOne
    /\ now' = now + 1
    /\ UNCHANGED <<journal, lock, copy, calls, cache, site, ghost>>

Call(w) ==
    \/ ReadHits(w) \/ ReadMisses(w) \/ Mutate(w)
    \/ GateOpens(w) \/ GateRefuses(w)
    \/ LoadSent(w) \/ SaveSent(w)
    \/ Answered(w) \/ Rejected(w) \/ LoadRejected(w) \/ SaveRejected(w) \/ Fails(w)
    \/ Put(w) \/ Delete(w)

ClientNext == (\E w \in Workers : Call(w)) \/ SiteChanges \/ Tick

ClientSpec == ClientInit /\ [][ClientNext]_client

-----------------------------------------------------------------------------
(* Properties of the calls of one process. *)

(* However many calls wait at once, a window never sees more requests than  *)
(* the journal's capacity and one for each further call that had passed the *)
(* gate: the wait between gate and record_sent costs that much.            *)
WindowHolds == Cardinality(Recent(sends, now)) <= Capacity + Cardinality(Workers) - 1

(* A 429 holds every later request for the whole hold: no call that records *)
(* its own request wipes the hold out.                                     *)
HoldHeeded ==
    [][\A w \in Workers : step[w] = "gate" /\ step'[w] = "waiting" => now >= held]_client

(* Read your writes: once a mutation returned no read is served a value     *)
(* from before it, unless such a value was already on its way to the cache. *)
ReadYourWrites ==
    straddled = "no" /\ cache.full = "yes" => cache.value >= confirmed
=============================================================================
