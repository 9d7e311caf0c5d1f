------------------------------ MODULE Conversions ------------------------------
(***************************************************************************)
(* What the start.gg client makes of an answer                             *)
(* (crates/bracket-tools-startgg/src/conversions.rs): every field of a     *)
(* node may be missing (Null), a node that lacks a required one is dropped *)
(* and a page that does not say how many there are is the only one.  An id *)
(* that is no number counts as missing.                                    *)
(***************************************************************************)
EXTENDS Naturals, FiniteSets, Sequences, SequencesExt

CONSTANTS
    Null,
    PageSize   \* page_size of the client

ASSUME PageAssumption == PageSize \in Nat \ {0} /\ Null \notin Nat

Or(value, default) == IF value = Null THEN default ELSE value

(* The elements of s at the places S, in their order. *)
Only(s, S) ==
    [k \in 1..Cardinality(S) |-> s[CHOOSE i \in S : Cardinality({j \in S : j <= i}) = k]]

(* The site's half: page number k of a list, and the pages it has now. *)
PageCount(list) == IF list = <<>> THEN 1 ELSE (Len(list) + PageSize - 1) \div PageSize
PageNodes(list, k) ==
    Only(list, {i \in (PageSize * (k - 1) + 1)..(PageSize * k) : i \in DOMAIN list})
PageOf(list, k, counted) ==
    [nodes |-> PageNodes(list, k),
     total |-> IF counted THEN PageCount(list) ELSE Null]

TotalPages(page) == Or(page.total, 1)

Each(nodes, F(_)) == [i \in DOMAIN nodes |-> F(nodes[i])]
Having(nodes, fields) ==
    Only(nodes, {i \in DOMAIN nodes : nodes[i] # Null /\ \A f \in fields : nodes[i][f] # Null})

Participant(n)  == [id |-> n.id, tag |-> n.tag, user |-> n.user]
Participants(nodes) == Each(Having(nodes, {"tag"}), Participant)

(* A team has several users; people without an account have none. *)
EntrantRef(n) == [id |-> n.id, tag |-> n.tag, users |-> SelectSeq(n.users, LAMBDA u : u # Null)]
IsEntrant(n)  == n.id # Null /\ n.tag # Null
Entrants(nodes) == Each(Having(nodes, {"id", "tag"}), EntrantRef)

(* A seed without a readable entrant is a bye or a placeholder. *)
PhaseSeed(n) ==
    [id |-> n.id, num |-> n.num,
     entrant |-> IF n.entrant = Null \/ ~IsEntrant(n.entrant) THEN Null ELSE EntrantRef(n.entrant)]
PhaseSeeds(nodes) == Each(Having(nodes, {"id"}), PhaseSeed)

EventStanding(n) == [place |-> n.place, entrant |-> EntrantRef(n.entrant)]
EventStandings(nodes) ==
    LET placed == Having(nodes, {"place", "entrant"}) IN
    Each(Only(placed, {i \in DOMAIN placed : IsEntrant(placed[i].entrant)}), EventStanding)

(* Phases in play order; those without an order come first. *)
OrderOf(phase) == Or(phase.order, 0)
EventPhases(nodes) ==
    LET phases == Having(nodes, {"id"})
        Index(i) == Cardinality({j \in DOMAIN phases :
                        \/ OrderOf(phases[j]) < OrderOf(phases[i])
                        \/ OrderOf(phases[j]) = OrderOf(phases[i]) /\ j <= i})
    IN  [k \in DOMAIN phases |-> phases[CHOOSE i \in DOMAIN phases : Index(i) = k]]

(* A tournament's events, and the tournaments of a listing. *)
Summaries(nodes) == Having(nodes, {"id", "slug"})

(* A deletion that is not confirmed did not happen. *)
Deleted(flag) == Or(flag, "no") = "yes"
=============================================================================
