---------------------------- MODULE SimulationProofs ----------------------------
(***************************************************************************)
(* Theorems about one run of the greedy simulation, for every snapshot:    *)
(* nobody plays two sets at once, and no call or walkover is missed for    *)
(* want of a wake; the same for the runs of a rollout, and a rehearsal     *)
(* shows what the projection it recorded had played.                       *)
(***************************************************************************)
EXTENDS Recompute, Inductions

-----------------------------------------------------------------------------
(* Sets and their places. *)

(* What a set keeps while the simulation goes on. *)
Same(x, y) ==
    /\ y.key = x.key /\ y.started = x.started /\ y.called = x.called
    /\ x.done => y.done
    /\ AllOccupied(x) => AllOccupied(y) /\ Occupants(y) = Occupants(x)

(* Sets are added behind those that were there, none under way. *)
Added(S, x) == ~x.started /\ ~x.called /\ \A i \in 1..Len(S) : S[i].key # x.key
Grown(S, T) ==
    /\ Len(S) <= Len(T)
    /\ \A i \in 1..Len(S) : Same(S[i], T[i])
    /\ \A j \in 1..Len(T) : j > Len(S) => Added(S, T[j])

LEMMA SameTwice == ASSUME NEW x, NEW y, NEW z, Same(x, y), Same(y, z) PROVE Same(x, z)
  BY DEF Same

Tables == [Brackets -> Seq(SimSets)]

(* A name leads to the place of its set. *)
LEMMA PlaceOf ==
    ASSUME NEW tbl \in Tables, NEW n \in NamesIn(tbl)
    PROVE  /\ n[1] \in Brackets /\ n = <<n[1], n[2]>> /\ tbl[n[1]] \in Seq(SimSets)
           /\ PlaceIn(tbl[n[1]], n[2]) \in 1..Len(tbl[n[1]])
           /\ SetIn(tbl, n).key = n[2] /\ SetIn(tbl, n) \in SimSets
<1>0. PICK b \in Brackets : \E i \in DOMAIN tbl[b] : n = <<b, tbl[b][i].key>>
  BY DEF NamesIn
<1>1. PICK i \in DOMAIN tbl[b] : n = <<b, tbl[b][i].key>>
  BY <1>0
<1>2. tbl[b] \in Seq(SimSets) /\ DOMAIN tbl[b] = 1..Len(tbl[b])
  BY DEF Tables
<1> DEFINE places == {j \in DOMAIN tbl[b] : tbl[b][j].key = n[2]}
           p == CHOOSE j \in places : TRUE
<1>3. p \in places
  BY <1>1
<1>4. PlaceIn(tbl[b], n[2]) = p
  BY DEF PlaceIn
<1> HIDE DEF p
<1>5. p \in 1..Len(tbl[b]) /\ tbl[b][p].key = n[2]
  BY <1>2, <1>3
<1>6. n[1] = b /\ n = <<n[1], n[2]>>
  BY <1>1
<1>7. SetIn(tbl, n) = tbl[b][p]
  BY <1>4, <1>6 DEF SetIn
<1> QED
  BY <1>2, <1>4, <1>5, <1>6, <1>7

(* It is the same place as long as the sets keep their keys and those that *)
(* are added have other ones.                                              *)
Longer(S, T) ==
    /\ Len(S) <= Len(T)
    /\ \A i \in 1..Len(S) : T[i].key = S[i].key
    /\ \A j \in 1..Len(T) : j > Len(S) => \A i \in 1..Len(S) : S[i].key # T[j].key
PickOf(places) == CHOOSE i \in places : TRUE
LEMMA SamePlace ==
    ASSUME NEW S \in Seq(SimSets), NEW T \in Seq(SimSets), Longer(S, T), NEW i \in 1..Len(S)
    PROVE  PlaceIn(T, S[i].key) = PlaceIn(S, S[i].key)
<1> DEFINE A == {j \in DOMAIN S : S[j].key = S[i].key}
           B == {j \in DOMAIN T : T[j].key = S[i].key}
<1>1. DOMAIN S = 1..Len(S) /\ DOMAIN T = 1..Len(T) /\ Len(S) \in Nat /\ Len(T) \in Nat
  OBVIOUS
<1>2. \A j \in 1..Len(S) : j \in 1..Len(T) /\ T[j].key = S[j].key
  BY <1>1 DEF Longer
<1>3. \A j \in 1..Len(T) : j \notin 1..Len(S) => T[j].key # S[i].key
  BY <1>1 DEF Longer
<1>4. A = B
  BY <1>1, <1>2, <1>3
<1>5. PlaceIn(S, S[i].key) = PickOf(A) /\ PlaceIn(T, S[i].key) = PickOf(B)
  BY DEF PlaceIn, PickOf
<1> HIDE DEF A, B
<1> QED
  BY <1>4, <1>5

(* Empty slots are filled, the others stay. *)
FilledUp(x, s) ==
    /\ s \in Seq(Slots) /\ Len(s) = Len(x.slots)
    /\ \A k \in 1..Len(s) : x.slots[k].who # Nobody => s[k] = x.slots[k]
LEMMA SeatsFilled ==
    ASSUME NEW x \in SimSets, NEW s, FilledUp(x, s)
    PROVE  LET y == [x EXCEPT !.slots = s] IN
           /\ y \in SimSets /\ Same(x, y)
           /\ Resolved(y) \in SimSets /\ Same(x, Resolved(y))
<1> DEFINE y == [x EXCEPT !.slots = s]
           z == [y EXCEPT !.placeholder = FALSE]
<1>1. /\ y \in SimSets /\ y.slots = s /\ y.key = x.key /\ y.started = x.started
      /\ y.called = x.called /\ y.done = x.done
  BY DEF SimSets, FilledUp
<1>2. /\ z \in SimSets /\ z.slots = s /\ z.key = x.key /\ z.started = x.started
      /\ z.called = x.called /\ z.done = x.done
  BY <1>1 DEF SimSets
<1>3. x.slots \in Seq(Slots)
  BY DEF SimSets
<1>4. AllOccupied(x) => s = x.slots
  <2> SUFFICES ASSUME AllOccupied(x) PROVE s = x.slots
    OBVIOUS
  <2>1. \A k \in 1..Len(s) : s[k] = x.slots[k]
    BY <1>3 DEF AllOccupied, FilledUp
  <2> QED
    BY <1>3, <2>1 DEF FilledUp
<1> HIDE DEF y, z
<1>5. Same(x, y) /\ Same(x, z)
  BY <1>1, <1>2, <1>4 DEF Same, AllOccupied, Occupants
<1>6. Resolved(y) = y \/ Resolved(y) = z
  BY DEF Resolved, z
<1> QED
  BY <1>1, <1>2, <1>5, <1>6 DEF y

LEMMA SameSelf == ASSUME NEW x PROVE Same(x, x)
  BY DEF Same

(* What a result does to the table. *)
LEMMA DecidedGrows ==
    ASSUME NEW b, NEW S \in Seq(SimSets), NEW i \in 1..Len(S)
    PROVE  /\ Decided(b, S, i) \in Seq(SimSets) /\ Len(Decided(b, S, i)) = Len(S)
           /\ \A j \in 1..Len(S) : Same(S[j], Decided(b, S, i)[j])
<1> DEFINE slots   == S[i].slots
           present == {k \in DOMAIN slots : slots[k].who # Nobody /\ ~Absent(b, slots[k].who)}
           least(X, default) == IF X = {} THEN default ELSE CHOOSE k \in X : \A l \in X : k <= l
           won     == least(present, 1)
           others  == {k \in DOMAIN slots : k # won /\ slots[k].who # Nobody}
           lost    == least(others, 0)
           winner  == IF slots = <<>> THEN Nobody ELSE slots[won].who
           loser   == IF lost = 0 THEN Nobody ELSE slots[lost].who
           filled(set) ==
            IF set.done \/ ResetShaped(set) THEN set
            ELSE Resolved([set EXCEPT !.slots =
                    [k \in DOMAIN set.slots |-> Placed(set.slots[k], S[i].id, winner, loser)]])
           T == [j \in DOMAIN S |-> IF j = i THEN [S[i] EXCEPT !.done = TRUE, !.winner = winner]
                                    ELSE filled(S[j])]
<1>1. Decided(b, S, i) = T
  BY DEF Decided
<1>2. DOMAIN S = 1..Len(S) /\ Len(S) \in Nat /\ \A j \in 1..Len(S) : S[j] \in SimSets
  OBVIOUS
<1>3. slots \in Seq(Slots) /\ DOMAIN slots = 1..Len(slots) /\ Len(slots) \in Nat
  <2>1. S[i] \in SimSets
    BY <1>2
  <2>2. S[i].slots \in Seq(Slots)
    BY <2>1 DEF SimSets
  <2> QED
    BY <2>2
<1>4. ASSUME NEW X \in SUBSET (1..Len(slots)), NEW default
      PROVE  least(X, default) = default \/ least(X, default) \in 1..Len(slots)
  <2>1. CASE X = {}
    BY <2>1
  <2>2. CASE X # {}
    <3>1. X \in SUBSET Nat
      BY <1>3
    <3>2. \E k \in X : \A l \in X : k <= l
      BY <2>2, <3>1, FirstOf
    <3> QED
      BY <2>2, <3>2
  <2> QED
    BY <2>1, <2>2
<1>5. present \in SUBSET (1..Len(slots)) /\ others \in SUBSET (1..Len(slots))
  BY <1>3
<1>6. won = 1 \/ won \in 1..Len(slots)
  <2> HIDE DEF least, present
  <2> QED
    BY <1>4, <1>5
<1>7. lost = 0 \/ lost \in 1..Len(slots)
  <2> HIDE DEF least, others
  <2> QED
    BY <1>4, <1>5
<1> HIDE DEF won, lost, present, others, least
<1> DEFINE who == Players \cup {Nobody}
<1>8. \A k \in 1..Len(slots) : slots[k].who \in who
  <2> TAKE k \in 1..Len(slots)
  <2>1. slots[k] \in Slots
    BY <1>3
  <2> QED
    BY <2>1 DEF Slots
<1>9. winner \in who
  <2>1. slots # <<>> => 1 \in 1..Len(slots)
    BY <1>3
  <2> QED
    BY <1>6, <1>8, <2>1
<1>10. loser \in who
  BY <1>7, <1>8
<1> HIDE DEF winner, loser, slots
<1>11. ASSUME NEW x \in SimSets
       PROVE  filled(x) \in SimSets /\ Same(x, filled(x))
  <2> DEFINE s == [k \in DOMAIN x.slots |-> Placed(x.slots[k], S[i].id, winner, loser)]
  <2>1. x.slots \in Seq(Slots)
    BY DEF SimSets
  <2>2. ASSUME NEW k \in 1..Len(x.slots)
        PROVE  /\ Placed(x.slots[k], S[i].id, winner, loser) \in Slots
               /\ x.slots[k].who # Nobody => Placed(x.slots[k], S[i].id, winner, loser) = x.slots[k]
    <3>1. x.slots[k] \in Slots
      BY <2>1
    <3> QED
      BY <1>9, <1>10, <3>1 DEF Placed, Slots
  <2>3. /\ s \in Seq(Slots) /\ Len(s) = Len(x.slots)
        /\ \A k \in 1..Len(s) : s[k] = Placed(x.slots[k], S[i].id, winner, loser)
    BY <2>1, <2>2
  <2> HIDE DEF s
  <2>4. FilledUp(x, s)
    BY <2>1, <2>2, <2>3 DEF FilledUp
  <2> DEFINE y == [x EXCEPT !.slots = s]
  <2>5. Resolved(y) \in SimSets /\ Same(x, Resolved(y))
    BY <2>4, SeatsFilled
  <2>6. filled(x) = x \/ filled(x) = Resolved(y)
    BY DEF s
  <2> HIDE DEF filled, y
  <2> QED
    BY <2>5, <2>6, SameSelf
<1>12. [S[i] EXCEPT !.done = TRUE, !.winner = winner] \in SimSets
       /\ Same(S[i], [S[i] EXCEPT !.done = TRUE, !.winner = winner])
  BY <1>2, <1>9 DEF SimSets, Same, AllOccupied, Occupants
<1> HIDE DEF filled
<1>13. \A j \in 1..Len(S) : T[j] \in SimSets /\ Same(S[j], T[j])
  BY <1>2, <1>11, <1>12
<1>14. T = [j \in 1..Len(S) |-> T[j]]
  BY <1>2
<1> HIDE DEF T
<1>15. T \in Seq(SimSets) /\ Len(T) = Len(S)
  BY <1>2, <1>13, <1>14, ListIn
<1> QED
  BY <1>1, <1>13, <1>15

-----------------------------------------------------------------------------
(* Sets made from sets. *)

(* Of several numbers, one is the greatest. *)
LEMMA GreatestOf ==
    ASSUME NEW n \in Nat, NEW f, NEW M \in SUBSET (1..n), M # {}, \A i \in M : f[i] \in Int, NEW default
    PROVE  /\ Greatest({f[w] : w \in M}, default) \in {f[i] : i \in M}
           /\ \A i \in M : f[i] <= Greatest({f[w] : w \in M}, default)
<1> DEFINE Top(k) == M \cap 1..k # {} => \E m \in M \cap 1..k : \A i \in M \cap 1..k : f[i] <= f[m]
           B == {k \in 0..n : Top(k)}
<1>1. 0 \in B
  OBVIOUS
<1>2. ASSUME NEW k \in 1..n, k - 1 \in B PROVE k \in B
  <2>1. Top(k - 1)
    BY <1>2
  <2>2. Top(k)
    <3>1. CASE k \notin M
      <4>1. M \cap 1..k = M \cap 1..(k - 1)
        BY <3>1
      <4> QED
        BY <2>1, <4>1
    <3>2. CASE k \in M /\ M \cap 1..(k - 1) = {}
      <4>1. M \cap 1..k = {k}
        BY <3>2
      <4> QED
        BY <3>2, <4>1
    <3>3. CASE k \in M /\ M \cap 1..(k - 1) # {}
      <4>1. M \cap 1..k = (M \cap 1..(k - 1)) \cup {k}
        BY <3>3
      <4>2. PICK m \in M \cap 1..(k - 1) : \A i \in M \cap 1..(k - 1) : f[i] <= f[m]
        BY <2>1, <3>3
      <4>3. CASE f[k] <= f[m]
        BY <4>1, <4>2, <4>3
      <4>4. CASE ~(f[k] <= f[m])
        <5>1. \A i \in M \cap 1..k : f[i] <= f[k]
          BY <4>1, <4>2, <4>4
        <5> QED
          BY <3>3, <4>1, <5>1
      <4> QED
        BY <4>3, <4>4
    <3> QED
      BY <3>1, <3>2, <3>3
  <2> QED
    BY <2>2
<1>3. n \in B
  <2> HIDE DEF B
  <2> QED
    BY <1>1, <1>2, Upwards
<1>4. M \cap 1..n = M
  OBVIOUS
<1>5. PICK m \in M : \A i \in M : f[i] <= f[m]
  BY <1>3, <1>4
<1> DEFINE S == {f[i] : i \in M}
<1>6. S # {} /\ f[m] \in S /\ \A y \in S : y <= f[m]
  BY <1>5
<1>7. Greatest(S, default) \in S /\ \A y \in S : y <= Greatest(S, default)
  <2> HIDE DEF S
  <2> QED
    BY <1>6 DEF Greatest
<1> QED
  BY <1>7

LEMMA ImageFinite ==
    ASSUME NEW S, IsFiniteSet(S), NEW f
    PROVE  IsFiniteSet({f[x] : x \in S})
<1> DEFINE g == [x \in S |-> f[x]]
           T == {f[x] : x \in S}
<1>1. g \in Surjection(S, T)
  BY DEF Surjection
<1> QED
  BY <1>1, FS_Surjection

(* The elements of a finite set in an order, one after another. *)
InARow(S, below) ==
    /\ below \in [S -> SUBSET S]
    /\ \A i \in S : i \notin below[i]
    /\ \A i, j \in S : i # j => \/ below[i] \subseteq below[j] /\ i \in below[j] /\ j \notin below[i]
                                \/ below[j] \subseteq below[i] /\ j \in below[i] /\ i \notin below[j]
LEMMA OrderedOne ==
    ASSUME NEW S, IsFiniteSet(S), NEW below, InARow(S, below),
           NEW k \in 1..Cardinality(S)
    PROVE  \E x \in S : Cardinality(below[x]) = k - 1
<1> USE DEF InARow
<1> DEFINE upto == [i \in S |-> below[i] \cup {i}]
<1>1. upto \in [S -> SUBSET S] /\ \A i \in S : i \in upto[i]
  OBVIOUS
<1>2. \A i, j \in S : i # j => \/ upto[i] \subseteq upto[j] /\ j \notin upto[i]
                               \/ upto[j] \subseteq upto[i] /\ i \notin upto[j]
  OBVIOUS
<1> HIDE DEF upto
<1>3. PICK x \in S : Cardinality(upto[x]) = k
  BY <1>1, <1>2, Ranks
<1>4. IsFiniteSet(below[x]) /\ x \notin below[x] /\ Cardinality(below[x]) \in Nat
  BY FS_Subset, FS_CardinalityType
<1>5. Cardinality(upto[x]) = Cardinality(below[x]) + 1
  BY <1>4, FS_AddElement DEF upto
<1> QED
  BY <1>3, <1>4, <1>5

LEMMA InOrderIn ==
    ASSUME NEW S, IsFiniteSet(S), \A p \in S : p \in Nat
    PROVE  InOrder(S) \in Seq(S) /\ Len(InOrder(S)) = Cardinality(S) /\ Cardinality(S) \in Nat
<1> DEFINE below == [i \in S |-> {j \in S : j < i}]
           n == Cardinality(S)
           pick(k) == CHOOSE x \in S : Cardinality({y \in S : y < x}) = k - 1
           s == [k \in 1..n |-> pick(k)]
<1>1. below \in [S -> SUBSET S] /\ \A i \in S : i \notin below[i]
  OBVIOUS
<1>2. \A i \in S : below[i] = {j \in S : j < i}
  OBVIOUS
<1>3. \A i, j \in S : i # j => \/ below[i] \subseteq below[j] /\ i \in below[j] /\ j \notin below[i]
                               \/ below[j] \subseteq below[i] /\ j \in below[i] /\ i \notin below[j]
  <2>1. ASSUME NEW i \in S, NEW j \in S, i < j
        PROVE  below[i] \subseteq below[j] /\ i \in below[j] /\ j \notin below[i]
    BY <2>1
  <2>2. \A i, j \in S : i # j => i < j \/ j < i
    OBVIOUS
  <2> HIDE DEF below
  <2> QED
    BY <2>1, <2>2
<1> HIDE DEF below
<1>4. ASSUME NEW k \in 1..n PROVE s[k] \in S
  <2>1. \E x \in S : Cardinality(below[x]) = k - 1
    <3>1. InARow(S, below)
      BY <1>1, <1>3 DEF InARow
    <3> QED
      BY <3>1, OrderedOne
  <2>2. \E x \in S : Cardinality({y \in S : y < x}) = k - 1
    BY <1>2, <2>1
  <2> QED
    BY <2>2
<1>5. n \in Nat
  BY FS_CardinalityType
<1>6. InOrder(S) = s
  BY DEF InOrder, Ordered
<1> HIDE DEF n
<1>7. s = [k \in 1..n |-> s[k]]
  <2> HIDE DEF pick
  <2> QED
    OBVIOUS
<1> HIDE DEF s
<1>8. s \in Seq(S) /\ Len(s) = n
  BY <1>4, <1>5, <1>7, ListIn
<1> QED
  BY <1>5, <1>6, <1>8 DEF n

LEMMA EntrantsAre ==
    ASSUME NEW S \in Seq(SimSets), NEW M \in SUBSET (DOMAIN S)
    PROVE  Entrants(S, M) \subseteq Players /\ IsFiniteSet(Entrants(S, M)) /\ Players \subseteq Nat
<1>1. ASSUME NEW i \in M, NEW p \in Occupants(S[i]) PROVE p \in Players
  <2>1. S[i] \in SimSets
    OBVIOUS
  <2>2. S[i].slots \in Seq(Slots)
    BY <2>1 DEF SimSets
  <2>3. PICK k \in DOMAIN S[i].slots : p = S[i].slots[k].who /\ p # Nobody
    BY <1>1 DEF Occupants
  <2>4. S[i].slots[k] \in Slots
    BY <2>2, <2>3
  <2> QED
    BY <2>3, <2>4 DEF Slots
<1>2. Entrants(S, M) \subseteq Players
  BY <1>1 DEF Entrants
<1> QED
  BY <1>2, SimulationAssumption, FS_Subset

(* The sets of a new round. *)
NewSets(S) == {x \in SimSets : Added(S, x)}
LEMMA RoundFresh ==
    ASSUME NEW b, NEW S \in Seq(SimSets), NEW group \in Groups
    PROVE  NewRound(b, S, group) \in Seq(NewSets(S))
<1> DEFINE members == Members(S, group)
           round   == Greatest({RoundOf(S[i]) : i \in members}, 0)
           present == {p \in Entrants(S, members) : ~Absent(b, p)}
           players == InOrder(present)
           pairing(k) == [id |-> 100 * group.id + 10 * round + k,
                       key |-> <<group.id, round + 1, 100 + k>>,
                       done |-> FALSE, started |-> FALSE, called |-> FALSE, placeholder |-> FALSE,
                       winner |-> Nobody,
                       slots |-> [x \in 1..2 |-> [from |-> 0, place |-> 1, who |-> players[2 * k - 2 + x]]]]
           n == Len(players) \div 2
           none == \/ group.kind # "swiss" \/ members = {}
                   \/ round >= group.rounds
                   \/ members \cap OpenSets(S) # {}
<1>0. NewRound(b, S, group) = IF none THEN <<>> ELSE [k \in 1..n |-> pairing(k)]
  BY Zenon DEF NewRound
<1>1. \/ NewRound(b, S, group) = <<>>
      \/ NewRound(b, S, group) = [k \in 1..n |-> pairing(k)] /\ members # {}
  <2>1. members = {} => none
    OBVIOUS
  <2> HIDE DEF members, n, pairing, none
  <2> QED
    BY <1>0, <2>1
<1>2. <<>> \in Seq(NewSets(S))
  OBVIOUS
<1>3. SUFFICES ASSUME members # {} PROVE [k \in 1..n |-> pairing(k)] \in Seq(NewSets(S))
  BY <1>1, <1>2
<1>4. members \in SUBSET (1..Len(S)) /\ Len(S) \in Nat /\ \A i \in 1..Len(S) : S[i] \in SimSets
  BY DEF Members
<1>5. \A i \in 1..Len(S) : S[i].key \in Nat \X Int \X Nat
  BY <1>4 DEF SimSets
<1>6. round \in Int /\ \A i \in members : RoundOf(S[i]) <= round
  <2> DEFINE f == [i \in 1..Len(S) |-> RoundOf(S[i])]
             M == members
  <2>1. \A i \in M : f[i] \in Int /\ f[i] = RoundOf(S[i])
    BY <1>4, <1>5 DEF RoundOf
  <2>2. {RoundOf(S[i]) : i \in M} = {f[i] : i \in M}
    BY <2>1
  <2>3. round = Greatest({f[i] : i \in M}, 0)
    BY <2>2
  <2> HIDE DEF f, M
  <2>4. /\ Greatest({f[w] : w \in M}, 0) \in {f[i] : i \in M}
        /\ \A i \in M : f[i] <= Greatest({f[w] : w \in M}, 0)
    BY <1>3, <1>4, <2>1, GreatestOf DEF M
  <2> HIDE DEF round
  <2> QED
    BY <2>1, <2>3, <2>4 DEF M
<1>7. present \subseteq Players /\ IsFiniteSet(present) /\ Players \subseteq Nat
  <2>1. Entrants(S, members) \subseteq Players /\ IsFiniteSet(Entrants(S, members)) /\ Players \subseteq Nat
    BY EntrantsAre DEF Members
  <2> QED
    BY <2>1, FS_Subset
<1> HIDE DEF present
<1>8. players \in Seq(Players) /\ Len(players) \in Nat
  <2>1. players \in Seq(present) /\ Len(players) \in Nat
    BY <1>7, InOrderIn
  <2>2. players = [i \in 1..Len(players) |-> players[i]] /\ \A i \in 1..Len(players) : players[i] \in present
    BY <2>1
  <2> HIDE DEF players
  <2> QED
    BY <1>7, <2>1, <2>2, ListIn
<1> HIDE DEF players
<1>9. n \in Nat
  BY <1>8
<1>10. ASSUME NEW k \in 1..n PROVE pairing(k) \in NewSets(S)
  <2>1. \A x \in 1..2 : 2 * k - 2 + x \in 1..Len(players)
    BY <1>8
  <2>2. \A x \in 1..2 : players[2 * k - 2 + x] \in Players
    BY <1>8, <2>1
  <2> DEFINE slots == [x \in 1..2 |-> [from |-> 0, place |-> 1, who |-> players[2 * k - 2 + x]]]
  <2>3. \A x \in 1..2 : slots[x] \in Slots
    BY <2>2 DEF Slots
  <2>4. slots = [x \in 1..2 |-> slots[x]]
    OBVIOUS
  <2>5. slots \in Seq(Slots)
    <3> HIDE DEF slots
    <3> QED
      BY <2>3, <2>4, ListIn
  <2>6. group.id \in Nat
    BY DEF Groups
  <2>7. 100 * group.id + 10 * round + k \in Int /\ round + 1 \in Int /\ 100 + k \in Nat
    BY <1>6, <1>9, <2>6
  <2>8. pairing(k) \in SimSets
    <3> HIDE DEF slots, round
    <3>1. /\ pairing(k) = [id |-> 100 * group.id + 10 * round + k,
                       key |-> <<group.id, round + 1, 100 + k>>,
                       done |-> FALSE, started |-> FALSE, called |-> FALSE, placeholder |-> FALSE,
                       winner |-> Nobody, slots |-> slots]
      BY DEF slots
    <3> QED
      BY <2>5, <2>6, <2>7, <3>1 DEF SimSets
  <2>9. \A i \in 1..Len(S) : S[i].key # <<group.id, round + 1, 100 + k>>
    <3> SUFFICES ASSUME NEW i \in 1..Len(S), S[i].key = <<group.id, round + 1, 100 + k>> PROVE FALSE
      OBVIOUS
    <3>1. i \in members /\ RoundOf(S[i]) = round + 1
      BY DEF Members, GroupOf, RoundOf
    <3> HIDE DEF members, round
    <3> QED
      BY <1>6, <3>1
  <2>10. Added(S, pairing(k))
    BY <2>9 DEF Added
  <2> QED
    BY <2>8, <2>10 DEF NewSets
<1> DEFINE s == [k \in 1..n |-> pairing(k)]
<1>11. s = [k \in 1..n |-> s[k]] /\ \A k \in 1..n : s[k] = pairing(k)
  <2> HIDE DEF pairing
  <2> QED
    OBVIOUS
<1> HIDE DEF s, pairing, n
<1>12. s \in Seq(NewSets(S))
  BY <1>9, <1>10, <1>11, ListIn
<1> QED
  BY <1>12 DEF s

LEMMA RoundsFresh ==
    ASSUME NEW b \in Brackets, NEW S \in Seq(SimSets), IsWorld(world)
    PROVE  NewRounds(b, S) \in Seq(NewSets(S))
<1> DEFINE groups == world.groups[b]
           seqs == [g \in DOMAIN groups |-> NewRound(b, S, groups[g])]
           n == Len(groups)
<1>1. groups \in Seq(Groups)
  <2>1. IsWorld(world)
    OBVIOUS
  <2>2. world.groups \in [Brackets -> Seq(Groups)]
    BY <2>1 DEF IsWorld
  <2> QED
    BY <2>2
<1>2. n \in Nat /\ DOMAIN groups = 1..n
  <2> HIDE DEF groups
  <2> QED
    BY <1>1
<1>3. \A g \in 1..n : seqs[g] = NewRound(b, S, groups[g])
  BY <1>2
<1>4. \A g \in 1..n : groups[g] \in Groups
  <2> HIDE DEF groups
  <2> QED
    BY <1>1, <1>2
<1>5. \A g \in 1..n : seqs[g] \in Seq(NewSets(S))
  <2> HIDE DEF groups, seqs, n
  <2> QED
    BY <1>3, <1>4, RoundFresh
<1>6. seqs = [g \in 1..n |-> seqs[g]]
  BY <1>2
<1>7. NewRounds(b, S) = FlattenSeq(seqs)
  BY DEF NewRounds
<1> HIDE DEF seqs, n
<1>8. seqs \in Seq(Seq(NewSets(S)))
  BY <1>2, <1>5, <1>6, ListIn
<1> QED
  BY <1>7, <1>8, FlattenIn

(* The sets with those of a new round are sets of a longer table. *)
LEMMA RoundsGrow ==
    ASSUME NEW b \in Brackets, NEW S \in Seq(SimSets), IsWorld(world)
    PROVE  S \o NewRounds(b, S) \in Seq(SimSets) /\ Grown(S, S \o NewRounds(b, S))
<1> DEFINE N == NewRounds(b, S)
<1>1. N \in Seq(NewSets(S))
  BY RoundsFresh
<1> HIDE DEF N
<1>2. \A i \in 1..Len(N) : N[i] \in SimSets /\ Added(S, N[i])
  BY <1>1 DEF NewSets
<1>3. Len(N) \in Nat /\ N = [i \in 1..Len(N) |-> N[i]]
  BY <1>1
<1>4. N \in Seq(SimSets)
  BY <1>2, <1>3, ListIn
<1>5. S \o N \in Seq(SimSets) /\ Len(S \o N) = Len(S) + Len(N)
  BY <1>4
<1>6. \A i \in 1..Len(S) : (S \o N)[i] = S[i]
  BY <1>4
<1>7. \A j \in 1..(Len(S) + Len(N)) : j > Len(S) => (S \o N)[j] = N[j - Len(S)] /\ j - Len(S) \in 1..Len(N)
  BY <1>4
<1>8. \A i \in 1..Len(S) : Same(S[i], (S \o N)[i])
  BY <1>6, SameSelf
<1>9. \A j \in 1..(Len(S) + Len(N)) : j > Len(S) => Added(S, (S \o N)[j])
  BY <1>2, <1>7
<1>10. Len(S) <= Len(S) + Len(N)
  BY <1>4
<1> QED
  BY <1>5, <1>8, <1>9, <1>10 DEF N, Grown

(* The elements of a finite set one after another: each has its place, and *)
(* those before it are those listed before.                                *)
ListedBy(below, S) == [k \in 1..Cardinality(S) |-> CHOOSE x \in S : Cardinality(below[x]) = k - 1]
LEMMA InARowListed ==
    ASSUME NEW S, IsFiniteSet(S), NEW below, InARow(S, below)
    PROVE  LET s == ListedBy(below, S) IN
           /\ Cardinality(S) \in Nat /\ s \in Seq(S) /\ DOMAIN s = 1..Cardinality(S)
           /\ \A x \in S : \E k \in DOMAIN s : s[k] = x
           /\ \A j, k \in DOMAIN s : j < k => s[j] \in below[s[k]]
<1> DEFINE n == Cardinality(S)
           s == ListedBy(below, S)
           c == [x \in S |-> Cardinality(below[x])]
<1>1. n \in Nat
  BY FS_CardinalityType
<1>2. ASSUME NEW x \in S PROVE c[x] \in 0..(n - 1)
  <2>1. below[x] \in SUBSET S /\ x \notin below[x]
    BY DEF InARow
  <2>2. below[x] \in SUBSET (S \ {x})
    BY <2>1
  <2>3. IsFiniteSet(S \ {x}) /\ Cardinality(S \ {x}) = n - 1
    BY FS_RemoveElement
  <2>4. Cardinality(below[x]) <= n - 1 /\ Cardinality(below[x]) \in Nat
    BY <2>2, <2>3, FS_Subset, FS_CardinalityType
  <2> HIDE DEF n
  <2> QED
    BY <1>1, <2>4
<1>3. ASSUME NEW x \in S, NEW y \in S, x \in below[y], below[x] \subseteq below[y] PROVE c[x] < c[y]
  <2>1. x \notin below[x] /\ below[y] \in SUBSET S /\ below[x] \in SUBSET S
    BY DEF InARow
  <2>2. IsFiniteSet(below[y]) /\ IsFiniteSet(below[x])
    BY <2>1, FS_Subset
  <2>3. below[x] \in SUBSET (below[y] \ {x})
    BY <1>3, <2>1
  <2>4. IsFiniteSet(below[y] \ {x}) /\ Cardinality(below[y] \ {x}) = Cardinality(below[y]) - 1
    BY <1>3, <2>2, FS_RemoveElement
  <2>5. Cardinality(below[x]) <= Cardinality(below[y]) - 1
    BY <2>3, <2>4, FS_Subset
  <2>6. c[x] \in Nat /\ c[y] \in Nat /\ c[x] <= c[y] - 1
    BY <1>1, <1>2, <2>5
  <2> QED
    BY <2>6
<1>4. ASSUME NEW x \in S, NEW y \in S, x # y
      PROVE  (x \in below[y] /\ c[x] < c[y]) \/ (y \in below[x] /\ c[y] < c[x])
  <2>1. \/ below[x] \subseteq below[y] /\ x \in below[y]
        \/ below[y] \subseteq below[x] /\ y \in below[x]
    BY <1>4 DEF InARow
  <2> HIDE DEF c
  <2> QED
    BY <1>3, <2>1
<1>5. ASSUME NEW k \in 1..n PROVE s[k] \in S /\ c[s[k]] = k - 1
  <2>1. \E x \in S : Cardinality(below[x]) = k - 1
    BY OrderedOne
  <2>2. s[k] = CHOOSE x \in S : Cardinality(below[x]) = k - 1
    BY DEF ListedBy
  <2>3. s[k] \in S /\ Cardinality(below[s[k]]) = k - 1
    BY <2>1, <2>2
  <2> HIDE DEF s
  <2> QED
    BY <2>3
<1>6. DOMAIN s = 1..n /\ s = [k \in 1..n |-> s[k]]
  BY DEF ListedBy
<1> HIDE DEF s, n
<1>7. s \in Seq(S)
  BY <1>1, <1>5, <1>6, ListIn
<1>8. ASSUME NEW x \in S PROVE \E k \in DOMAIN s : s[k] = x
  <2>1. c[x] + 1 \in 1..n /\ c[x] \in Nat
    BY <1>1, <1>2
  <2> DEFINE y == s[c[x] + 1]
  <2>2. y \in S /\ c[y] = c[x]
    BY <1>5, <2>1
  <2>3. y = x
    <3> HIDE DEF c, y
    <3> QED
      BY <1>4, <2>1, <2>2
  <2> QED
    BY <1>6, <2>1, <2>3
<1>9. ASSUME NEW j \in DOMAIN s, NEW k \in DOMAIN s, j < k PROVE s[j] \in below[s[k]]
  <2> HIDE DEF c
  <2>0. j \in 1..n /\ k \in 1..n
    BY <1>6
  <2>1. j \in Nat /\ k \in Nat /\ s[j] \in S /\ s[k] \in S /\ c[s[j]] = j - 1 /\ c[s[k]] = k - 1
    <3>1. j \in Nat /\ k \in Nat
      BY <1>1, <2>0
    <3> QED
      BY <1>5, <2>0, <3>1
  <2>2. s[j] # s[k] /\ ~(c[s[k]] < c[s[j]])
    BY <1>9, <2>1
  <2> QED
    BY <1>4, <2>1, <2>2
<1> QED
  BY <1>1, <1>6, <1>7, <1>8, <1>9 DEF n, s

(* The stages of a bracket hold all of its groups. *)
Holding(stages, groups) ==
    /\ stages \in Seq(SUBSET Nat)
    /\ \A s \in DOMAIN stages : stages[s] \subseteq DOMAIN groups
    /\ \A g \in DOMAIN groups : \E s \in DOMAIN stages : g \in stages[s]

LEMMA KindStagesHold ==
    ASSUME NEW groups \in Seq(Groups)
    PROVE  Holding(KindStages(groups), groups)
<1> DEFINE n == Len(groups)
           V == Seq(SUBSET Nat)
           Turn(k, v) == IF k > 1 /\ groups[k].kind = groups[k - 1].kind
                         THEN [v EXCEPT ![Len(v)] = @ \cup {k}]
                         ELSE Append(v, {k})
           F == [x \in (1..n) \X V |-> Turn(x[1], x[2])]
           places == [i \in DOMAIN groups |-> i]
           Body(h) == [u \in SUBSET DOMAIN places |-> IF u = {} THEN <<>>
                                                     ELSE Turn(places[Max(u)], h[u \ {Max(u)}])]
           c == CHOOSE h : h = Body(h)
           Holds(v, k) == /\ v \in V
                          /\ \A s \in DOMAIN v : v[s] \subseteq 1..k
                          /\ \A g \in 1..k : \E s \in DOMAIN v : g \in v[s]
<1>1. <<>> \in V /\ n \in Nat /\ DOMAIN groups = 1..n /\ DOMAIN places = 1..n
  OBVIOUS
<1>2. \A k \in 1..n, v \in V : Turn(k, v) \in V
  <2> TAKE k \in 1..n, v \in V
  <2>1. Append(v, {k}) \in V
    OBVIOUS
  <2>2. [v EXCEPT ![Len(v)] = @ \cup {k}] \in V
    <3> DEFINE w == [v EXCEPT ![Len(v)] = @ \cup {k}]
    <3>1. \A i \in 1..Len(v) : w[i] \in SUBSET Nat
      OBVIOUS
    <3>2. DOMAIN v = 1..Len(v) /\ Len(v) \in Nat
      OBVIOUS
    <3>3. w = [i \in DOMAIN v |-> w[i]]
      OBVIOUS
    <3>4. w = [i \in 1..Len(v) |-> w[i]]
      <4> HIDE DEF w
      <4> QED
        BY <3>2, <3>3
    <3>5. w \in Seq(SUBSET Nat)
      <4> HIDE DEF w
      <4> QED
        BY <3>1, <3>2, <3>4, ListIn
    <3> QED
      BY <3>5
  <2> HIDE DEF V
  <2> QED
    BY <2>1, <2>2
<1>3. ASSUME NEW k \in 1..n, NEW v, Holds(v, k - 1) PROVE Holds(Turn(k, v), k)
  <2>1. Turn(k, v) \in V /\ v \in V
    <3> HIDE DEF V, n, Turn
    <3> QED
      BY <1>2, <1>3
  <2>2. k \in Nat /\ 1..k = 1..(k - 1) \cup {k} /\ DOMAIN v = 1..Len(v) /\ Len(v) \in Nat
    BY <1>3
  <2> DEFINE w == Turn(k, v)
  <2>3. CASE k > 1 /\ groups[k].kind = groups[k - 1].kind
    <3>1. w = [v EXCEPT ![Len(v)] = @ \cup {k}]
      BY <2>3
    <3>2. PICK x \in DOMAIN v : k - 1 \in v[x]
      BY <1>3, <2>2, <2>3
    <3>3. Len(v) \in DOMAIN v
      BY <2>2, <3>2
    <3>4. DOMAIN w = DOMAIN v /\ k \in w[Len(v)] /\ w[Len(v)] = v[Len(v)] \cup {k}
          /\ \A s \in DOMAIN v : s # Len(v) => w[s] = v[s]
      BY <3>1, <3>3
    <3> HIDE DEF w, Turn, n
    <3>5. \A s \in DOMAIN w : w[s] \subseteq 1..k
      BY <1>3, <2>2, <3>4
    <3>6. \A s \in DOMAIN v : v[s] \subseteq w[s]
      BY <3>4
    <3>7. \A g \in 1..k : \E s \in DOMAIN w : g \in w[s]
      BY <1>3, <2>2, <3>3, <3>4, <3>6
    <3> HIDE DEF V
    <3> QED
      BY <2>1, <3>5, <3>7 DEF w
  <2>4. CASE ~(k > 1 /\ groups[k].kind = groups[k - 1].kind)
    <3>1. w = Append(v, {k})
      BY <2>4
    <3>0. v \in Seq(SUBSET Nat)
      BY <2>1
    <3> HIDE DEF w, Turn, n
    <3>2. DOMAIN w = 1..(Len(v) + 1) /\ w[Len(v) + 1] = {k} /\ \A s \in DOMAIN v : w[s] = v[s]
      BY <2>2, <3>0, <3>1
    <3>3. \A s \in DOMAIN w : s \in DOMAIN v \/ s = Len(v) + 1
      BY <2>2, <3>2
    <3>4. \A s \in DOMAIN v : s \in DOMAIN w
      BY <2>2, <3>2
    <3>5. Len(v) + 1 \in DOMAIN w
      BY <2>2, <3>2
    <3>6. \A s \in DOMAIN w : w[s] \subseteq 1..k
      BY <1>3, <2>2, <3>2, <3>3
    <3>7. \A g \in 1..k : \E s \in DOMAIN w : g \in w[s]
      BY <1>3, <2>2, <3>2, <3>4, <3>5
    <3> HIDE DEF V
    <3> QED
      BY <2>1, <3>6, <3>7 DEF w
  <2> QED
    BY <2>3, <2>4
<1> HIDE DEF Turn
<1>4. StaysIn(F, 1..n, V)
  BY <1>2 DEF StaysIn
<1>5. PICK h : FoldOver(h, F, <<>>, 1..n, Tops(n), V)
  <2> HIDE DEF F, n, V
  <2> QED
    BY <1>1, <1>4, LeftFold
<1>6. h = Body(h)
  <2>1. ASSUME NEW u \in SUBSET (1..n), u # {}
        PROVE  F[<<Tops(n)[u], h[u \ {Tops(n)[u]}]>>] = Turn(places[Max(u)], h[u \ {Max(u)}])
    <3>1. Tops(n)[u] \in 1..n /\ u \ {Tops(n)[u]} \in SUBSET (1..n) /\ Tops(n)[u] = Max(u)
      BY <1>1, <2>1, TopsPick DEF Tops
    <3>2. h[u \ {Tops(n)[u]}] \in V
      BY <1>5, <3>1 DEF FoldOver
    <3>3. places[Max(u)] = Max(u)
      BY <1>1, <3>1
    <3> HIDE DEF n, V, places
    <3> QED
      BY <3>1, <3>2, <3>3
  <2> HIDE DEF F, n, places
  <2> QED
    BY <1>1, <1>5, <2>1 DEF FoldOver
<1>7. c = Body(c)
  <2> HIDE DEF Body
  <2> QED
    BY <1>6
<1>8. KindStages(groups) = c[1..n]
  <2> HIDE DEF n
  <2> QED
    BY <1>1 DEF KindStages, FoldLeftDomain, FoldLeft, MapThenFoldSet, Turn
<1> HIDE DEF c
<1>9. c[1..0] = <<>>
  <2>1. 1..0 = {}
    OBVIOUS
  <2> QED
    BY <1>7, <2>1
<1>10. ASSUME NEW k \in 1..n PROVE c[1..k] = Turn(k, c[1..(k - 1)])
  <2>1. (1..k) \in SUBSET (1..n) /\ 1..k # {} /\ Max(1..k) = k /\ (1..k) \ {k} = 1..(k - 1)
    <3> HIDE DEF n
    <3> QED
      BY <1>1, Uptos
  <2>2. c[1..k] = Body(c)[1..k]
    BY <1>7
  <2>3. places[k] = k
    BY <1>1
  <2> HIDE DEF n, places
  <2> QED
    BY <1>1, <2>1, <2>2, <2>3
<1> DEFINE B == {k \in 0..n : Holds(c[1..k], k)}
<1>11. 0 \in B
  <2> HIDE DEF V, n
  <2>1. 0 \in 0..n
    BY <1>1
  <2>2. 1..0 = {}
    OBVIOUS
  <2>3. DOMAIN <<>> = {}
    OBVIOUS
  <2> QED
    BY <1>1, <1>9, <2>1, <2>2, <2>3
<1>12. ASSUME NEW k \in 1..n, k - 1 \in B PROVE k \in B
  <2> HIDE DEF Holds
  <2> QED
    BY <1>3, <1>10, <1>12
<1>13. n \in B
  <2> HIDE DEF B, n
  <2>1. n \in 0..n
    BY <1>1
  <2> QED
    BY <1>1, <1>11, <1>12, <2>1, Upwards
<1>14. Holds(KindStages(groups), n)
  BY <1>8, <1>13
<1> HIDE DEF n
<1> QED
  BY <1>1, <1>14 DEF Holding

LEMMA PhaseStagesHold ==
    ASSUME NEW groups \in Seq(Groups)
    PROVE  Holding(PhaseStages(groups), groups)
<1> DEFINE D == DOMAIN groups
           first(p) == CHOOSE g \in DOMAIN groups :
                       groups[g].phase = p /\ \A h \in 1..(g - 1) : groups[h].phase # p
           f == [g \in DOMAIN groups |-> first(groups[g].phase)]
           firsts == {first(groups[g].phase) : g \in DOMAIN groups}
           before(g, h) == \/ groups[g].order < groups[h].order
                           \/ groups[g].order = groups[h].order /\ g < h
           sorted == Ordered(firsts, before)
           below == [g \in firsts |-> {h \in firsts : before(h, g)}]
           stages == [s \in DOMAIN sorted |-> {g \in DOMAIN groups : groups[g].phase = groups[sorted[s]].phase}]
<1>1. IsFiniteSet(D) /\ D \subseteq Nat
  BY FS_Interval
<1>2. ASSUME NEW g \in D PROVE f[g] \in D /\ groups[f[g]].phase = groups[g].phase
  <2> DEFINE p == groups[g].phase
             same == {h \in D : groups[h].phase = p}
  <2>1. same \in SUBSET Nat /\ same # {}
    BY <1>1
  <2>2. PICK x \in same : \A y \in same : x <= y
    <3> HIDE DEF same
    <3> QED
      BY <2>1, FirstOf
  <2>3. \A h \in 1..(x - 1) : groups[h].phase # p
    <3> TAKE h \in 1..(x - 1)
    <3>1. h \in D /\ ~(x <= h)
      BY <1>1, <2>2
    <3> QED
      BY <2>2, <3>1
  <2>4. first(p) \in D /\ groups[first(p)].phase = p
    BY <2>2, <2>3
  <2> QED
    BY <2>4
<1>3. firsts = {f[g] : g \in D}
  <2> HIDE DEF first
  <2> QED
    OBVIOUS
<1>4. IsFiniteSet(firsts) /\ firsts \subseteq D
  <2> HIDE DEF f, firsts, D
  <2>1. IsFiniteSet({f[g] : g \in D})
    BY <1>1, ImageFinite
  <2> QED
    BY <1>2, <1>3, <2>1
<1>5. PhaseStages(groups) = stages
  BY DEF PhaseStages
<1>6. \A g \in D : groups[g].order \in Nat
  <2> TAKE g \in D
  <2>1. groups[g] \in Groups
    OBVIOUS
  <2> QED
    BY <2>1 DEF Groups
<1> HIDE DEF f, first, firsts, D
<1>7. InARow(firsts, below)
  <2>1. below \in [firsts -> SUBSET firsts]
    OBVIOUS
  <2>2. \A g, h \in firsts : h \in below[g] <=> before(h, g)
    OBVIOUS
  <2>3. \A g \in firsts : g \in Nat /\ groups[g].order \in Nat
    BY <1>1, <1>4, <1>6
  <2> HIDE DEF below
  <2>4. \A g \in firsts : g \notin below[g]
    BY <2>2, <2>3
  <2>5. ASSUME NEW g \in firsts, NEW h \in firsts, g \in below[h]
        PROVE  below[g] \subseteq below[h] /\ h \notin below[g]
    <3>1. ASSUME NEW x \in below[g] PROVE x \in below[h]
      <4>1. x \in firsts
        BY <2>1
      <4> QED
        BY <2>2, <2>3, <2>5, <3>1, <4>1
    <3>2. h \notin below[g]
      BY <2>2, <2>3, <2>5
    <3> QED
      BY <3>1, <3>2
  <2>6. ASSUME NEW g \in firsts, NEW h \in firsts, g # h PROVE g \in below[h] \/ h \in below[g]
    BY <2>2, <2>3, <2>6
  <2> HIDE DEF before
  <2> QED
    BY <2>1, <2>4, <2>5, <2>6 DEF InARow
<1>8. sorted = ListedBy(below, firsts)
  <2> DEFINE one(k) == CHOOSE x \in firsts : Cardinality({y \in firsts : before(y, x)}) = k - 1
             other(k) == CHOOSE x \in firsts : Cardinality(below[x]) = k - 1
  <2>1. ASSUME NEW k PROVE one(k) = other(k)
    <3>1. \A x \in firsts : below[x] = {y \in firsts : before(y, x)}
      OBVIOUS
    <3> HIDE DEF below, before
    <3> QED
      BY <3>1
  <2>2. sorted = [k \in 1..Cardinality(firsts) |-> one(k)]
    BY DEF Ordered
  <2>3. ListedBy(below, firsts) = [k \in 1..Cardinality(firsts) |-> other(k)]
    BY DEF ListedBy
  <2> HIDE DEF one, other, sorted
  <2> QED
    BY <2>1, <2>2, <2>3
<1>9. /\ Cardinality(firsts) \in Nat /\ sorted \in Seq(firsts) /\ DOMAIN sorted = 1..Cardinality(firsts)
      /\ \A x \in firsts : \E k \in DOMAIN sorted : sorted[k] = x
  <2> HIDE DEF below, sorted
  <2> QED
    BY <1>4, <1>7, <1>8, InARowListed
<1> HIDE DEF sorted
<1>10. DOMAIN stages = 1..Cardinality(firsts) /\ \A s \in DOMAIN stages : stages[s] \subseteq D
  BY <1>9 DEF D
<1>11. ASSUME NEW g \in D PROVE \E s \in DOMAIN stages : g \in stages[s]
  <2>1. f[g] \in firsts
    BY <1>3
  <2>2. PICK s \in DOMAIN sorted : sorted[s] = f[g]
    BY <1>9, <2>1
  <2>3. g \in stages[s]
    BY <1>2, <2>2 DEF D
  <2> QED
    BY <2>2, <2>3
<1>12. stages \in Seq(SUBSET Nat)
  <2>1. stages = [s \in 1..Cardinality(firsts) |-> stages[s]]
    BY <1>10
  <2>2. \A s \in 1..Cardinality(firsts) : stages[s] \in SUBSET Nat
    BY <1>1, <1>10
  <2> HIDE DEF stages
  <2> QED
    BY <1>9, <2>1, <2>2, ListIn
<1> HIDE DEF stages
<1> QED
  BY <1>5, <1>10, <1>11, <1>12 DEF Holding, D

LEMMA StagesHold ==
    ASSUME NEW groups \in Seq(Groups)
    PROVE  Holding(Stages(groups), groups)
  BY KindStagesHold, PhaseStagesHold DEF Stages

LEMMA StagesAre ==
    ASSUME NEW groups \in Seq(Groups)
    PROVE  Len(Stages(groups)) \in Nat
<1>1. Stages(groups) \in Seq(SUBSET Nat)
  BY StagesHold DEF Holding
<1> HIDE DEF Stages
<1> QED
  BY <1>1

(* Who goes on to a stage, and what it does to the table. *)
LEMMA QualifiersIn ==
    ASSUME NEW b, NEW S \in Seq(SimSets), NEW prev \in SUBSET (DOMAIN S), NEW cur
    PROVE  Qualifiers(b, S, prev, cur) \in Seq(Players) /\ Len(Qualifiers(b, S, prev, cur)) \in Nat
<1> DEFINE wins(p) == Cardinality({i \in prev : S[i].winner = p})
           W == [p \in Players |-> wins(p)]
           P == {p \in Entrants(S, prev) \ Entrants(S, cur) : ~Absent(b, p)}
           before(p, q) == wins(p) > wins(q) \/ (wins(p) = wins(q) /\ p < q)
           below == [p \in P |-> {q \in P : before(q, p)}]
           n == Cardinality(P)
           pick(k) == CHOOSE x \in P : Cardinality({y \in P : before(y, x)}) = k - 1
           s == [k \in 1..n |-> pick(k)]
<1>1. Qualifiers(b, S, prev, cur) = s
  BY DEF Qualifiers, Ordered
<1>2. P \subseteq Players /\ IsFiniteSet(P) /\ Players \subseteq Nat
  <2>1. Entrants(S, prev) \subseteq Players /\ IsFiniteSet(Entrants(S, prev)) /\ Players \subseteq Nat
    BY EntrantsAre
  <2>2. P \in SUBSET Entrants(S, prev)
    OBVIOUS
  <2> HIDE DEF P
  <2> QED
    BY <2>1, <2>2, FS_Subset
<1>3. \A p \in Players : wins(p) \in Nat /\ W[p] = wins(p)
  <2>1. IsFiniteSet(DOMAIN S)
    BY FS_Interval
  <2>2. IsFiniteSet(prev)
    BY <2>1, FS_Subset
  <2>3. ASSUME NEW p \in Players PROVE wins(p) \in Nat
    <3> DEFINE won == {i \in prev : S[i].winner = p}
    <3>1. won \in SUBSET prev
      OBVIOUS
    <3> HIDE DEF won
    <3>2. Cardinality(won) \in Nat
      BY <2>2, <3>1, FS_Subset, FS_CardinalityType
    <3> QED
      BY <3>2 DEF won
  <2> HIDE DEF wins
  <2> QED
    BY <2>3
<1> HIDE DEF P, wins
<1>4. \A p \in P : W[p] \in Nat /\ wins(p) = W[p] /\ p \in Nat
  BY <1>2, <1>3
<1> HIDE DEF W
<1>5. below \in [P -> SUBSET P]
  OBVIOUS
<1>6. \A p, q \in P : q \in below[p] <=> W[q] > W[p] \/ (W[q] = W[p] /\ q < p)
  BY <1>4
<1>7. \A p \in P : below[p] = {q \in P : before(q, p)}
  OBVIOUS
<1>8. \A p \in P : p \notin below[p]
  <2> HIDE DEF below
  <2> QED
    BY <1>4, <1>6
<1>9. \A i, j \in P : i # j => \/ below[i] \subseteq below[j] /\ i \in below[j] /\ j \notin below[i]
                               \/ below[j] \subseteq below[i] /\ j \in below[i] /\ i \notin below[j]
  <2> HIDE DEF below
  <2>1. ASSUME NEW i \in P, NEW j \in P, i \in below[j]
        PROVE  below[i] \subseteq below[j] /\ j \notin below[i]
    <3>1. ASSUME NEW q \in below[i] PROVE q \in below[j]
      <4>1. q \in P
        BY <1>5
      <4> QED
        BY <1>4, <1>6, <2>1, <3>1, <4>1
    <3>2. j \notin below[i]
      BY <1>4, <1>6, <2>1
    <3> QED
      BY <3>1, <3>2
  <2>2. ASSUME NEW i \in P, NEW j \in P, i # j PROVE i \in below[j] \/ j \in below[i]
    BY <1>4, <1>6, <2>2
  <2> QED
    BY <2>1, <2>2
<1> HIDE DEF below
<1>10. ASSUME NEW k \in 1..n PROVE s[k] \in P
  <2>1. \E x \in P : Cardinality(below[x]) = k - 1
    <3>1. InARow(P, below)
      BY <1>5, <1>8, <1>9, Zenon DEF InARow
    <3> QED
      BY <1>2, <3>1, OrderedOne
  <2>2. \E x \in P : Cardinality({y \in P : before(y, x)}) = k - 1
    BY <1>7, <2>1
  <2> QED
    BY <2>2
<1>11. n \in Nat
  BY <1>2, FS_CardinalityType
<1> HIDE DEF n
<1>12. s = [k \in 1..n |-> s[k]]
  <2> HIDE DEF pick
  <2> QED
    OBVIOUS
<1> HIDE DEF s
<1>13. \A k \in 1..n : s[k] \in Players
  BY <1>2, <1>10
<1>14. s \in Seq(Players) /\ Len(s) = n
  BY <1>11, <1>12, <1>13, ListIn
<1> QED
  BY <1>1, <1>11, <1>14

(* A table whose sets stay the same. *)
Kept(S, T) == T \in Seq(SimSets) /\ Len(T) = Len(S) /\ \A i \in 1..Len(S) : Same(S[i], T[i])

LEMMA StageKeeps ==
    ASSUME NEW b, NEW S \in Seq(SimSets), NEW s
    PROVE  Kept(S, StageFilled(b, S, s))
<1> DEFINE cur  == InStage(b, S, s) \cap OpenSets(S)
           list == Qualifiers(b, S, InStage(b, S, s - 1), InStage(b, S, s))
           turn(i, k) == Cardinality(PendingBefore(S, cur, i, k)) + 1
           slot(i, k) == IF Pending(S[i].slots[k]) /\ turn(i, k) <= Len(list)
                         THEN [S[i].slots[k] EXCEPT !.who = list[turn(i, k)]] ELSE S[i].slots[k]
           seated(i)  == [S[i] EXCEPT !.slots = [k \in DOMAIN S[i].slots |-> slot(i, k)]]
           short == {i \in cur : \E k \in DOMAIN S[i].slots :
                       Pending(S[i].slots[k]) /\ turn(i, k) > Len(list)}
           new(i) == IF i \notin cur THEN S[i]
                     ELSE IF \E j \in short : j <= i THEN seated(i) ELSE Resolved(seated(i))
           T == [i \in DOMAIN S |-> new(i)]
<1>1. StageFilled(b, S, s) = T \/ StageFilled(b, S, s) = S
  BY DEF StageFilled
<1>2. DOMAIN S = 1..Len(S) /\ Len(S) \in Nat /\ \A i \in 1..Len(S) : S[i] \in SimSets
  OBVIOUS
<1>3. Kept(S, S)
  BY <1>2, SameSelf DEF Kept
<1>4. \A x : InStage(b, S, x) \in SUBSET (DOMAIN S)
  BY DEF InStage, Members
<1>5. list \in Seq(Players) /\ Len(list) \in Nat
  BY <1>4, QualifiersIn
<1>6. cur \in SUBSET (1..Len(S))
  BY <1>2, <1>4
<1> HIDE DEF cur, list
<1>7. ASSUME NEW i, NEW k PROVE turn(i, k) \in Nat \ {0}
  <2> DEFINE P == PendingBefore(S, cur, i, k)
  <2>1. IsFiniteSet(1..Len(S)) /\ IsFiniteSet({1, 2})
    <3>1. IsFiniteSet({1}) /\ {1} \cup {2} = {1, 2}
      BY FS_Singleton
    <3>2. IsFiniteSet(1..Len(S))
      BY <1>2, FS_Interval
    <3> QED
      BY <3>1, <3>2, FS_AddElement
  <2>2. IsFiniteSet((1..Len(S)) \X {1, 2})
    BY <2>1, FS_Product
  <2>3. P \in SUBSET ((1..Len(S)) \X {1, 2})
    <3>1. \A x \in P : x \in cur \X {1, 2}
      BY DEF PendingBefore
    <3> HIDE DEF P
    <3> QED
      BY <1>6, <3>1
  <2> HIDE DEF P
  <2>4. Cardinality(P) \in Nat
    BY <2>2, <2>3, FS_Subset, FS_CardinalityType
  <2> QED
    BY <2>4 DEF P
<1> HIDE DEF turn
<1>8. ASSUME NEW i \in 1..Len(S) PROVE FilledUp(S[i], [k \in DOMAIN S[i].slots |-> slot(i, k)])
  <2> DEFINE slots == S[i].slots
             f == [k \in DOMAIN slots |-> slot(i, k)]
  <2>1. slots \in Seq(Slots)
    <3>1. S[i] \in SimSets
      BY <1>2
    <3> QED
      BY <3>1 DEF SimSets
  <2>2. Len(slots) \in Nat /\ DOMAIN slots = 1..Len(slots)
    <3> HIDE DEF slots
    <3> QED
      BY <2>1
  <2>3. ASSUME NEW k \in 1..Len(slots)
        PROVE  slot(i, k) \in Slots /\ (slots[k].who # Nobody => slot(i, k) = slots[k])
    <3>1. slots[k] \in Slots
      <4> HIDE DEF slots
      <4> QED
        BY <2>1
    <3>2. CASE ~(Pending(slots[k]) /\ turn(i, k) <= Len(list))
      BY <3>1, <3>2
    <3>3. CASE Pending(slots[k]) /\ turn(i, k) <= Len(list)
      <4>1. turn(i, k) \in 1..Len(list)
        BY <1>5, <1>7, <3>3
      <4>2. list[turn(i, k)] \in Players
        BY <1>5, <4>1
      <4>3. slot(i, k) = [slots[k] EXCEPT !.who = list[turn(i, k)]]
        BY <3>3
      <4>4. [slots[k] EXCEPT !.who = list[turn(i, k)]] \in Slots
        <5> HIDE DEF slots
        <5> QED
          BY <3>1, <4>2 DEF Slots
      <4>5. slots[k].who = Nobody
        BY <3>3 DEF Pending
      <4> QED
        BY <4>3, <4>4, <4>5
    <3> QED
      BY <3>2, <3>3
  <2>4. /\ f = [k \in 1..Len(slots) |-> f[k]]
        /\ \A k \in 1..Len(slots) : f[k] = slot(i, k)
    <3> HIDE DEF slot
    <3> QED
      BY <2>2
  <2> HIDE DEF slot, f
  <2>5. \A k \in 1..Len(slots) : f[k] \in Slots
    BY <2>3, <2>4
  <2>6. f \in Seq(Slots) /\ Len(f) = Len(slots)
    <3> HIDE DEF slots
    <3> QED
      BY <2>2, <2>4, <2>5, ListIn
  <2>7. \A k \in 1..Len(f) : slots[k].who # Nobody => f[k] = slots[k]
    BY <2>3, <2>4, <2>6
  <2>8. FilledUp(S[i], f)
    BY <2>6, <2>7 DEF FilledUp
  <2> QED
    BY <2>8 DEF f
<1>9. ASSUME NEW i \in 1..Len(S) PROVE new(i) \in SimSets /\ Same(S[i], new(i))
  <2> HIDE DEF short
  <2>1. S[i] \in SimSets
    BY <1>2
  <2> DEFINE f == [k \in DOMAIN S[i].slots |-> slot(i, k)]
  <2>2. FilledUp(S[i], f)
    BY <1>8
  <2> DEFINE y == [S[i] EXCEPT !.slots = f]
  <2> HIDE DEF f
  <2>3. y \in SimSets /\ Same(S[i], y) /\ Resolved(y) \in SimSets /\ Same(S[i], Resolved(y))
    BY <2>1, <2>2, SeatsFilled
  <2>4. seated(i) = y
    BY DEF f
  <2> HIDE DEF y, seated
  <2>5. new(i) = S[i] \/ new(i) = y \/ new(i) = Resolved(y)
    BY <2>4
  <2> HIDE DEF new
  <2> QED
    BY <2>1, <2>3, <2>5, SameSelf
<1> HIDE DEF new
<1>10. T = [i \in 1..Len(S) |-> T[i]] /\ \A i \in 1..Len(S) : T[i] = new(i)
  BY <1>2
<1> HIDE DEF T
<1>11. T \in Seq(SimSets) /\ Len(T) = Len(S)
  BY <1>2, <1>9, <1>10, ListIn
<1>12. Kept(S, T)
  BY <1>9, <1>10, <1>11 DEF Kept
<1> QED
  BY <1>1, <1>3, <1>12

LEMMA KeptTwice ==
    ASSUME NEW S \in Seq(SimSets), NEW T, NEW U, Kept(S, T), Kept(T, U)
    PROVE  Kept(S, U)
<1>1. \A i \in 1..Len(S) : Same(S[i], T[i]) /\ Same(T[i], U[i])
  BY DEF Kept
<1>2. \A i \in 1..Len(S) : Same(S[i], U[i])
  BY <1>1, SameTwice
<1> QED
  BY <1>2 DEF Kept

LEMMA ProgressKeeps ==
    ASSUME NEW b \in Brackets, NEW S \in Seq(SimSets), IsWorld(world)
    PROVE  Kept(S, Progressed(b, S))
<1> DEFINE n == IF Len(Stages(world.groups[b])) - 1 > 0 THEN Len(Stages(world.groups[b])) - 1 ELSE 0
           V == {T \in Seq(SimSets) : Kept(S, T)}
           Turn(k, v) == StageFilled(b, v, k + 1)
           F == [x \in (1..n) \X V |-> Turn(x[1], x[2])]
           places == [s \in 1..(Len(Stages(world.groups[b])) - 1) |-> s + 1]
           Body(h) == [u \in SUBSET DOMAIN places |-> IF u = {} THEN S
                                    ELSE StageFilled(b, h[u \ {Max(u)}], places[Max(u)])]
           c == CHOOSE h : h = Body(h)
<1>1. /\ S \in V /\ n \in Nat /\ DOMAIN places = 1..n
      /\ \A k \in 1..n : places[k] = k + 1
  <2>1. Len(Stages(world.groups[b])) \in Nat
    <3>1. IsWorld(world)
      OBVIOUS
    <3>2. world.groups \in [Brackets -> Seq(Groups)]
      BY <3>1 DEF IsWorld
    <3>3. world.groups[b] \in Seq(Groups)
      BY <3>2
    <3> QED
      BY <3>3, StagesAre
  <2>2. Kept(S, S)
    BY SameSelf DEF Kept
  <2> QED
    BY <2>1, <2>2
<1>2. \A k \in 1..n, v \in V : Turn(k, v) \in V
  <2> TAKE k \in 1..n, v \in V
  <2>1. Kept(v, StageFilled(b, v, k + 1))
    BY StageKeeps
  <2>2. Kept(S, StageFilled(b, v, k + 1))
    BY <2>1, KeptTwice
  <2> QED
    BY <2>2 DEF Kept
<1> HIDE DEF places, n
<1>3. StaysIn(F, 1..n, V)
  <2> HIDE DEF Turn, V
  <2> QED
    BY <1>2 DEF StaysIn
<1>4. PICK h : FoldOver(h, F, S, 1..n, Tops(n), V)
  <2> HIDE DEF F, V
  <2> QED
    BY <1>1, <1>3, LeftFold
<1>5. h = Body(h)
  <2>1. ASSUME NEW u \in SUBSET (1..n), u # {}
        PROVE  F[<<Tops(n)[u], h[u \ {Tops(n)[u]}]>>] = StageFilled(b, h[u \ {Max(u)}], places[Max(u)])
    <3>1. Tops(n)[u] \in 1..n /\ u \ {Tops(n)[u]} \in SUBSET (1..n) /\ Tops(n)[u] = Max(u)
      BY <1>1, <2>1, TopsPick DEF Tops
    <3>2. h[u \ {Tops(n)[u]}] \in V
      <4> HIDE DEF V, F
      <4> QED
        BY <1>4, <3>1 DEF FoldOver
    <3>3. places[Max(u)] = Max(u) + 1
      BY <1>1, <3>1
    <3> HIDE DEF V
    <3> QED
      BY <3>1, <3>2, <3>3
  <2> HIDE DEF F, V
  <2> QED
    BY <1>1, <1>4, <2>1 DEF FoldOver
<1>6. c = Body(c)
  <2> HIDE DEF Body
  <2> QED
    BY <1>5
<1>7. Progressed(b, S) = c[1..n]
  <2>1. Progressed(b, S) = c[DOMAIN places]
    BY DEF Progressed, FoldLeft, MapThenFoldSet, places
  <2> HIDE DEF c
  <2> QED
    BY <1>1, <2>1
<1> HIDE DEF c
<1>8. c[1..0] = S
  <2>1. 1..0 = {}
    OBVIOUS
  <2> QED
    BY <1>6, <2>1
<1>9. ASSUME NEW k \in 1..n PROVE c[1..k] = Turn(k, c[1..(k - 1)])
  <2>1. (1..k) \in SUBSET (1..n) /\ 1..k # {} /\ Max(1..k) = k /\ (1..k) \ {k} = 1..(k - 1)
    BY <1>1, Uptos
  <2>2. c[1..k] = Body(c)[1..k]
    BY <1>6
  <2>3. places[k] = k + 1
    BY <1>1
  <2> QED
    BY <1>1, <2>1, <2>2, <2>3
<1> DEFINE B == {k \in 0..n : c[1..k] \in V}
<1>10. 0 \in B
  <2> HIDE DEF V
  <2>1. 0 \in 0..n
    BY <1>1
  <2> QED
    BY <1>1, <1>8, <2>1
<1>11. ASSUME NEW k \in 1..n, k - 1 \in B PROVE k \in B
  <2> HIDE DEF V, Turn
  <2> QED
    BY <1>2, <1>9, <1>11
<1>12. n \in B
  <2> HIDE DEF B
  <2>1. n \in 0..n
    BY <1>1
  <2> QED
    BY <1>1, <1>10, <1>11, <2>1, Upwards
<1> QED
  BY <1>7, <1>12

-----------------------------------------------------------------------------
(* What is under way, step by step. *)

Boards(tbl) == [Setups -> [kind : {"Free", "Called", "InProgress"}, set : NamesIn(tbl) \cup {NoSet}, type : Types]]

(* A bracket whose table grows. *)
LEMMA NamesGrow ==
    ASSUME NEW tbl \in Tables, NEW b \in Brackets, NEW T \in Seq(SimSets), Grown(tbl[b], T)
    PROVE  LET new == [tbl EXCEPT ![b] = T] IN
           /\ new \in Tables /\ NamesIn(tbl) \subseteq NamesIn(new)
           /\ \A n \in NamesIn(tbl) : Same(SetIn(tbl, n), SetIn(new, n))
           /\ \A n \in NamesIn(new) \ NamesIn(tbl) : ~SetIn(new, n).started /\ ~SetIn(new, n).called
<1> DEFINE new == [tbl EXCEPT ![b] = T]
           S == tbl[b]
<1>1. new \in Tables /\ S \in Seq(SimSets)
  BY DEF Tables
<1>2. new[b] = T /\ \A c \in Brackets : c # b => new[c] = tbl[c]
  BY DEF Tables
<1>3. Longer(S, T)
  BY DEF Longer, Grown, Same, Added
<1>4. DOMAIN S = 1..Len(S) /\ DOMAIN T = 1..Len(T) /\ Len(S) \in Nat /\ Len(T) \in Nat /\ Len(S) <= Len(T)
  BY <1>1 DEF Grown
<1> HIDE DEF new
<1>5. ASSUME NEW n \in NamesIn(tbl) PROVE n \in NamesIn(new) /\ Same(SetIn(tbl, n), SetIn(new, n))
  <2>1. /\ n[1] \in Brackets /\ n = <<n[1], n[2]>>
        /\ PlaceIn(tbl[n[1]], n[2]) \in 1..Len(tbl[n[1]])
        /\ SetIn(tbl, n).key = n[2]
    BY PlaceOf
  <2>2. CASE n[1] # b
    <3>1. new[n[1]] = tbl[n[1]]
      BY <1>2, <2>1, <2>2
    <3>2. SetIn(new, n) = SetIn(tbl, n)
      BY <3>1 DEF SetIn
    <3>3. n \in NamesIn(new)
      BY <2>1, <3>1 DEF NamesIn
    <3> QED
      BY <3>2, <3>3, SameSelf
  <2>3. CASE n[1] = b
    <3> DEFINE i == PlaceIn(S, n[2])
    <3>1. i \in 1..Len(S) /\ S[i] = SetIn(tbl, n) /\ S[i].key = n[2]
      BY <2>1, <2>3 DEF SetIn
    <3>2. PlaceIn(T, n[2]) = i
      BY <1>1, <1>3, <3>1, SamePlace
    <3>3. SetIn(new, n) = T[i]
      BY <1>2, <2>3, <3>2 DEF SetIn
    <3> HIDE DEF i
    <3>4. Same(S[i], T[i]) /\ i \in 1..Len(T)
      BY <1>4, <3>1 DEF Grown
    <3>5. T[i].key = n[2]
      BY <3>1, <3>4 DEF Same
    <3>6. n = <<b, new[b][i].key>> /\ i \in DOMAIN new[b]
      BY <1>2, <1>4, <2>1, <2>3, <3>4, <3>5
    <3>7. n \in NamesIn(new)
      BY <3>6 DEF NamesIn
    <3> QED
      BY <3>1, <3>3, <3>4, <3>7
  <2> QED
    BY <2>2, <2>3
<1>6. ASSUME NEW n \in NamesIn(new), n \notin NamesIn(tbl) PROVE ~SetIn(new, n).started /\ ~SetIn(new, n).called
  <2>1. /\ n[1] \in Brackets /\ n = <<n[1], n[2]>>
        /\ PlaceIn(new[n[1]], n[2]) \in 1..Len(new[n[1]])
        /\ SetIn(new, n).key = n[2]
    BY <1>1, PlaceOf
  <2> DEFINE j == PlaceIn(new[n[1]], n[2])
  <2>2. SetIn(new, n) = new[n[1]][j] /\ j \in 1..Len(new[n[1]]) /\ new[n[1]][j].key = n[2]
    BY <2>1 DEF SetIn
  <2> HIDE DEF j
  <2>3. n[1] = b
    <3> SUFFICES ASSUME n[1] # b PROVE FALSE
      OBVIOUS
    <3>1. tbl[n[1]] = new[n[1]] /\ tbl[n[1]] \in Seq(SimSets)
      BY <1>2, <2>1 DEF Tables
    <3>2. j \in DOMAIN tbl[n[1]] /\ n = <<n[1], tbl[n[1]][j].key>>
      BY <2>1, <2>2, <3>1
    <3> QED
      BY <1>6, <2>1, <3>2 DEF NamesIn
  <2>4. j \in 1..Len(T) /\ SetIn(new, n) = T[j] /\ n = <<b, T[j].key>>
    BY <1>2, <2>1, <2>2, <2>3
  <2>5. j > Len(S)
    <3> SUFFICES ASSUME j <= Len(S) PROVE FALSE
      BY <1>4, <2>4
    <3>1. j \in 1..Len(S)
      BY <1>4, <2>4
    <3>2. S[j].key = T[j].key
      BY <3>1 DEF Grown, Same
    <3>3. n = <<b, tbl[b][j].key>> /\ j \in DOMAIN tbl[b]
      BY <1>4, <2>4, <3>1, <3>2
    <3> QED
      BY <1>6, <3>3 DEF NamesIn
  <2>6. Added(S, T[j])
    BY <2>4, <2>5 DEF Grown
  <2> QED
    BY <2>4, <2>6 DEF Added
<1> QED
  BY <1>1, <1>5, <1>6 DEF new

(* A station left free: nothing comes under way. *)
LEMMA UnderwayShrinks ==
    ASSUME NEW w, NEW tbl \in Tables, NEW b \in Brackets, NEW T \in Seq(SimSets), Grown(tbl[b], T),
           NEW brd \in Boards(tbl), NEW freed, C!Assigned(freed) \subseteq C!Assigned(brd),
           \A n \in UnderwayIn(w, tbl, brd) : AllOccupied(SetIn(tbl, n)), Apart(w, tbl, brd)
    PROVE  LET new == [tbl EXCEPT ![b] = T] IN
           /\ \A n \in UnderwayIn(w, new, freed) : AllOccupied(SetIn(new, n))
           /\ Apart(w, new, freed)
<1> DEFINE new == [tbl EXCEPT ![b] = T]
<1>1. /\ new \in Tables /\ NamesIn(tbl) \subseteq NamesIn(new)
      /\ \A n \in NamesIn(tbl) : Same(SetIn(tbl, n), SetIn(new, n))
      /\ \A n \in NamesIn(new) \ NamesIn(tbl) : ~SetIn(new, n).started /\ ~SetIn(new, n).called
  BY NamesGrow
<1> HIDE DEF new
<1>2. ASSUME NEW n \in NamesIn(new) PROVE n # NoSet
  <2>1. n[1] \in Brackets /\ n = <<n[1], n[2]>> /\ SetIn(new, n).key = n[2] /\ SetIn(new, n) \in SimSets
    BY <1>1, PlaceOf
  <2>2. n[2] \in Nat \X Int \X Nat
    BY <2>1 DEF SimSets
  <2> QED
    BY <2>1, <2>2, SimulationAssumption
<1>3. C!Assigned(brd) \subseteq NamesIn(tbl) \cup {NoSet}
  BY DEF C!Assigned, Boards
<1>4. ASSUME NEW n \in UnderwayIn(w, new, freed)
      PROVE  /\ n \in UnderwayIn(w, tbl, brd) /\ AllOccupied(SetIn(new, n))
             /\ Occupants(SetIn(new, n)) = Occupants(SetIn(tbl, n))
  <2>1. n \in NamesIn(new)
    BY DEF UnderwayIn
  <2>2. n \in C!Assigned(freed) => n \in NamesIn(tbl)
    BY <1>2, <1>3, <2>1
  <2>3. n \in NamesIn(tbl)
    BY <1>1, <2>1, <2>2 DEF UnderwayIn
  <2>4. Same(SetIn(tbl, n), SetIn(new, n))
    BY <1>1, <2>3
  <2>5. n \in UnderwayIn(w, tbl, brd)
    BY <2>3, <2>4 DEF UnderwayIn, Same
  <2>6. AllOccupied(SetIn(tbl, n))
    BY <2>5
  <2> QED
    BY <2>4, <2>5, <2>6 DEF Same
<1>5. ASSUME NEW m \in UnderwayIn(w, new, freed), NEW n \in UnderwayIn(w, new, freed), m # n
      PROVE  Clash(w, new, m, n) = {}
  <2>1. Clash(w, tbl, m, n) = {}
    BY <1>4, <1>5 DEF Apart
  <2> QED
    BY <1>4, <2>1 DEF Clash
<1> QED
  BY <1>4, <1>5 DEF new, Apart

(* A set is seated. *)
Seating(tbl, n) == [tbl EXCEPT ![n[1]][PlaceIn(tbl[n[1]], n[2])].started = TRUE]
SeatedAt(brd, st, n) == [brd EXCEPT ![st].kind = "InProgress", ![st].set = n]
LEMMA SeatingAdds ==
    ASSUME NEW w, NEW tbl \in Tables, NEW n \in NamesIn(tbl), NEW brd \in Boards(tbl), NEW st
    PROVE  /\ Seating(tbl, n) \in Tables
           /\ NamesIn(Seating(tbl, n)) = NamesIn(tbl)
           /\ SeatedAt(brd, st, n) \in Boards(Seating(tbl, n))
           /\ \A m \in NamesIn(tbl) : /\ SetIn(Seating(tbl, n), m).slots = SetIn(tbl, m).slots
                                     /\ SetIn(Seating(tbl, n), m).done = SetIn(tbl, m).done
           /\ UnderwayIn(w, Seating(tbl, n), SeatedAt(brd, st, n)) \subseteq UnderwayIn(w, tbl, brd) \cup {n}
<1> DEFINE b == n[1]
           S == tbl[b]
           p == PlaceIn(S, n[2])
           T == [S EXCEPT ![p].started = TRUE]
           new == Seating(tbl, n)
           seated == SeatedAt(brd, st, n)
<1>1. /\ b \in Brackets /\ n = <<b, n[2]>> /\ S \in Seq(SimSets)
      /\ p \in 1..Len(S) /\ S[p].key = n[2]
  BY PlaceOf DEF SetIn
<1>2. new = [tbl EXCEPT ![b] = T]
  BY <1>1 DEF Seating, Tables
<1> HIDE DEF b, p, new
<1>3. DOMAIN S = 1..Len(S) /\ Len(S) \in Nat /\ \A i \in 1..Len(S) : S[i] \in SimSets
  <2> HIDE DEF S
  <2> QED
    BY <1>1
<1>4. \A i \in 1..Len(S) : T[i] = IF i = p THEN [S[i] EXCEPT !.started = TRUE] ELSE S[i]
  BY <1>1, <1>3
<1>5. T = [i \in 1..Len(S) |-> T[i]]
  BY <1>3
<1> HIDE DEF T, S
<1>6. \A i \in 1..Len(S) :
        /\ T[i] \in SimSets /\ T[i].key = S[i].key /\ T[i].slots = S[i].slots
        /\ T[i].called = S[i].called /\ T[i].done = S[i].done
        /\ i # p => T[i] = S[i]
  <2> TAKE i \in 1..Len(S)
  <2>1. S[i] \in SimSets
    BY <1>3
  <2>2. CASE i = p
    <3>1. T[i] = [S[i] EXCEPT !.started = TRUE]
      BY <1>4, <2>2
    <3> QED
      BY <2>1, <2>2, <3>1 DEF SimSets
  <2>3. CASE i # p
    BY <1>4, <2>1, <2>3
  <2> QED
    BY <2>2, <2>3
<1>7. T \in Seq(SimSets) /\ Len(T) = Len(S)
  BY <1>3, <1>5, <1>6, ListIn
<1>8. Longer(S, T)
  BY <1>3, <1>6, <1>7 DEF Longer
<1>9. new \in Tables /\ new[b] = T /\ \A c \in Brackets : c # b => new[c] = tbl[c]
  BY <1>1, <1>2, <1>7 DEF Tables
<1>10. DOMAIN T = DOMAIN S
  BY <1>3, <1>7
<1>11. NamesIn(new) = NamesIn(tbl)
  <2>1. ASSUME NEW c \in Brackets
        PROVE  {<<c, new[c][i].key>> : i \in DOMAIN new[c]} = {<<c, tbl[c][i].key>> : i \in DOMAIN tbl[c]}
    <3>1. CASE c # b
      BY <1>9, <3>1
    <3>2. CASE c = b
      <4>1. \A i \in DOMAIN S : T[i].key = S[i].key
        BY <1>3, <1>6
      <4>2. new[c] = T /\ tbl[c] = S
        BY <1>9, <3>2 DEF S
      <4>3. {<<c, T[i].key>> : i \in DOMAIN T} = {<<c, S[i].key>> : i \in DOMAIN S}
        BY <1>10, <4>1
      <4> QED
        BY <4>2, <4>3
    <3> QED
      BY <3>1, <3>2
  <2> QED
    BY <2>1 DEF NamesIn
<1>12. ASSUME NEW m \in NamesIn(tbl)
       PROVE  /\ SetIn(new, m).slots = SetIn(tbl, m).slots
              /\ SetIn(new, m).called = SetIn(tbl, m).called
              /\ SetIn(new, m).done = SetIn(tbl, m).done
              /\ m # n => SetIn(new, m) = SetIn(tbl, m)
  <2>1. /\ m[1] \in Brackets /\ m = <<m[1], m[2]>>
        /\ PlaceIn(tbl[m[1]], m[2]) \in 1..Len(tbl[m[1]])
        /\ SetIn(tbl, m).key = m[2]
    BY PlaceOf
  <2>2. CASE m[1] # b
    <3>1. new[m[1]] = tbl[m[1]]
      BY <1>9, <2>1, <2>2
    <3> QED
      BY <3>1 DEF SetIn
  <2>3. CASE m[1] = b
    <3> DEFINE i == PlaceIn(S, m[2])
    <3>1. i \in 1..Len(S) /\ SetIn(tbl, m) = S[i] /\ S[i].key = m[2]
      BY <2>1, <2>3 DEF SetIn, S
    <3>2. SetIn(new, m) = T[i]
      <4>1. PlaceIn(T, S[i].key) = PlaceIn(S, S[i].key)
        <5> HIDE DEF i
        <5> QED
          BY <1>1, <1>7, <1>8, <3>1, SamePlace
      <4>2. PlaceIn(T, m[2]) = i
        BY <3>1, <4>1
      <4> QED
        BY <1>9, <2>3, <4>2 DEF SetIn
    <3>3. m # n => i # p
      <4> SUFFICES ASSUME i = p PROVE m = n
        OBVIOUS
      <4> QED
        BY <1>1, <2>1, <2>3, <3>1
    <3> HIDE DEF i
    <3> QED
      BY <1>6, <3>1, <3>2, <3>3
  <2> QED
    BY <2>2, <2>3
<1>13. seated \in Boards(new)
  BY <1>11 DEF Boards, SeatedAt
<1>14. C!Assigned(seated) \subseteq C!Assigned(brd) \cup {n}
  <2> SUFFICES ASSUME NEW x \in Setups, seated[x].kind \in C!Seated, seated[x].set # n
               PROVE  brd[x].kind \in C!Seated /\ brd[x].set = seated[x].set
    BY DEF C!Assigned
  <2> QED
    BY DEF SeatedAt, Boards
<1>15. ASSUME NEW m \in UnderwayIn(w, new, seated), m # n
       PROVE  m \in UnderwayIn(w, tbl, brd)
  BY <1>11, <1>12, <1>14, <1>15 DEF UnderwayIn
<1> QED
  BY <1>9, <1>11, <1>12, <1>13, <1>15 DEF new

(* A set that takes nobody from a set under way may be seated. *)
LEMMA SeatingApart ==
    ASSUME NEW w, NEW tbl \in Tables, NEW n \in NamesIn(tbl), NEW brd \in Boards(tbl), NEW st,
           AllOccupied(SetIn(tbl, n)),
           \A m \in UnderwayIn(w, tbl, brd) : AllOccupied(SetIn(tbl, m)),
           Apart(w, tbl, brd),
           \A m \in UnderwayIn(w, tbl, brd) \ {n} : Clash(w, tbl, m, n) = {}
    PROVE  /\ \A m \in UnderwayIn(w, Seating(tbl, n), SeatedAt(brd, st, n)) : AllOccupied(SetIn(Seating(tbl, n), m))
           /\ Apart(w, Seating(tbl, n), SeatedAt(brd, st, n))
<1> DEFINE new == Seating(tbl, n)
           seated == SeatedAt(brd, st, n)
<1>1. /\ \A m \in NamesIn(tbl) : SetIn(new, m).slots = SetIn(tbl, m).slots
      /\ UnderwayIn(w, new, seated) \subseteq UnderwayIn(w, tbl, brd) \cup {n}
  BY SeatingAdds
<1>2. UnderwayIn(w, tbl, brd) \cup {n} \subseteq NamesIn(tbl)
  BY DEF UnderwayIn
<1> HIDE DEF new, seated
<1>3. ASSUME NEW m \in UnderwayIn(w, new, seated)
      PROVE  /\ AllOccupied(SetIn(new, m))
             /\ Occupants(SetIn(new, m)) = Occupants(SetIn(tbl, m))
  <2>1. SetIn(new, m).slots = SetIn(tbl, m).slots /\ AllOccupied(SetIn(tbl, m))
    BY <1>1, <1>2
  <2> QED
    BY <2>1 DEF AllOccupied, Occupants
<1>4. ASSUME NEW m \in UnderwayIn(w, new, seated), NEW k \in UnderwayIn(w, new, seated), m # k
      PROVE  Clash(w, new, m, k) = {}
  <2>1. Clash(w, tbl, m, k) = {}
    <3>1. CASE k = n
      BY <1>1, <1>4, <3>1
    <3>2. CASE m = n
      <4>1. Clash(w, tbl, k, m) = {}
        BY <1>1, <1>4, <3>2
      <4> QED
        BY <4>1 DEF Clash
    <3>3. CASE m # n /\ k # n
      BY <1>1, <1>4, <3>3 DEF Apart
    <3> QED
      BY <3>1, <3>2, <3>3
  <2> QED
    BY <1>3, <2>1 DEF Clash
<1> QED
  BY <1>3, <1>4 DEF new, seated, Apart

-----------------------------------------------------------------------------
(* Nobody plays two sets at once. *)

Underway == UnderwayIn(world, tables, board)
ApartInv ==
    /\ IsWorld(world) /\ tables \in Tables /\ board \in Boards(tables)
    /\ phase = "action" => tables = world.tables /\ board = world.board
    /\ \A n \in Underway : AllOccupied(SetIn(tables, n))
    /\ Apart(world, tables, board)

(* The evidence behind a claim, and the claims of a set under way. *)
LEMMA ClaimsAre ==
    ASSUME NEW p, NEW table, NEW flags, NEW tomb, NEW soft,
           NEW c \in C!Claims(p, board, table, flags, tomb, soft)
    PROVE  \/ c.level = 3 /\ c.set \in C!Assigned(board)
           \/ c.level = 2 /\ table[c.set] \in {"Active", "ActiveCalled"} /\ c.set \notin tomb.suppressActive
           \/ c.level = 1 /\ table[c.set] \in {"Called", "ActiveCalled"} /\ c.set \notin tomb.suppressCalled
           \/ c.level = 0
<1> DEFINE evidence == {s \in Names : /\ table[s] \notin C!NotLive
                                     /\ s \notin tomb.awaiting
                                     /\ p \in [m \in Names |-> PlayersIn(m)][s]}
           active == {s \in evidence : table[s] \in C!RemotelyActive /\ s \notin tomb.suppressActive}
           called == {s \in evidence : table[s] \in C!CalledViews /\ s \notin tomb.suppressCalled}
           two   == {[level |-> 2, set |-> s] : s \in active}
           one   == {[level |-> 1, set |-> s] : s \in called}
           zero  == {[level |-> 0, set |-> s] : s \in evidence \cap soft}
           local == {x \in C!Assigned(board) : table[x] \notin C!NotLive /\ p \in [m \in Names |-> PlayersIn(m)][x]}
           three == {[level |-> 3, set |-> s] : s \in local}
<1>1. C!LocalClaims(p, board, table) = three
  BY DEF C!LocalClaims
<1>2. C!RemoteClaims(p, table, flags, tomb, soft) = IF flags[p] = "force" THEN {} ELSE two \cup one \cup zero
  BY DEF C!RemoteClaims
<1>3. active \subseteq {s \in Names : table[s] \in {"Active", "ActiveCalled"} /\ s \notin tomb.suppressActive}
  BY DEF C!RemotelyActive
<1>4. called \subseteq {s \in Names : table[s] \in {"Called", "ActiveCalled"} /\ s \notin tomb.suppressCalled}
  BY DEF C!CalledViews
<1>5. local \subseteq C!Assigned(board)
  OBVIOUS
<1> HIDE DEF active, called, local, evidence
<1>6. c \in three \/ c \in two \/ c \in one \/ c \in zero
  <2> HIDE DEF three, two, one, zero
  <2> QED
    BY <1>1, <1>2 DEF C!Claims
<1>7. CASE c \in three
  BY <1>5, <1>7
<1>8. CASE c \in two
  BY <1>3, <1>8
<1>9. CASE c \in one
  BY <1>4, <1>9
<1>10. CASE c \in zero
  BY <1>10
<1> QED
  BY <1>6, <1>7, <1>8, <1>9, <1>10

LEMMA ClaimMade ==
    ASSUME NEW p, NEW table, NEW flags, NEW tomb, NEW soft,
           NEW m \in Names, p \in PlayersIn(m), table[m] \notin {"Absent", "Done"}
    PROVE  /\ m \in C!Assigned(board) =>
                  [level |-> 3, set |-> m] \in C!Claims(p, board, table, flags, tomb, soft)
           /\ flags[p] # "force" /\ m \notin tomb.awaiting =>
                 /\ table[m] \in {"Active", "ActiveCalled"} /\ m \notin tomb.suppressActive =>
                        [level |-> 2, set |-> m] \in C!Claims(p, board, table, flags, tomb, soft)
                 /\ table[m] \in {"Called", "ActiveCalled"} /\ m \notin tomb.suppressCalled =>
                        [level |-> 1, set |-> m] \in C!Claims(p, board, table, flags, tomb, soft)
<1>1. m \in C!Assigned(board) => [level |-> 3, set |-> m] \in C!LocalClaims(p, board, table)
  BY DEF C!LocalClaims, C!NotLive
<1>2. flags[p] # "force" /\ m \notin tomb.awaiting =>
        /\ table[m] \in {"Active", "ActiveCalled"} /\ m \notin tomb.suppressActive =>
               [level |-> 2, set |-> m] \in C!RemoteClaims(p, table, flags, tomb, soft)
        /\ table[m] \in {"Called", "ActiveCalled"} /\ m \notin tomb.suppressCalled =>
               [level |-> 1, set |-> m] \in C!RemoteClaims(p, table, flags, tomb, soft)
  BY DEF C!RemoteClaims, C!NotLive, C!RemotelyActive, C!CalledViews
<1> QED
  BY <1>1, <1>2 DEF C!Claims

(* Of the claims on a player, some are the strongest. *)
LEMMA ClaimKept ==
    ASSUME NEW p, NEW table, NEW flags, NEW tomb, NEW soft,
           NEW d \in C!Claims(p, board, table, flags, tomb, soft)
    PROVE  /\ \E c : c \in C!Kept(p, board, table, flags, tomb, soft)
           /\ \A c \in C!Kept(p, board, table, flags, tomb, soft) :
                 c \in C!Claims(p, board, table, flags, tomb, soft) /\ d.level <= c.level
<1> DEFINE claims == C!Claims(p, board, table, flags, tomb, soft)
           levels == {3 - c.level : c \in claims}
<1>1. \A c \in claims : c.level \in 0..3
  BY ClaimsAre
<1>2. C!Kept(p, board, table, flags, tomb, soft) = {c \in claims : \A e \in claims : e.level <= c.level}
  BY DEF C!Kept
<1> HIDE DEF claims
<1>3. levels \in SUBSET Nat /\ levels # {}
  BY <1>1 DEF claims
<1>4. PICK i \in levels : \A j \in levels : i <= j
  <2> HIDE DEF levels
  <2> QED
    BY <1>3, FirstOf
<1>5. PICK c \in claims : i = 3 - c.level
  BY <1>4
<1>6. \A e \in claims : e.level <= c.level
  <2> TAKE e \in claims
  <2>1. 3 - e.level \in levels
    OBVIOUS
  <2>2. 3 - c.level <= 3 - e.level
    BY <1>4, <1>5, <2>1
  <2> QED
    BY <1>1, <2>2
<1> QED
  BY <1>2, <1>5, <1>6 DEF claims

(* What the index lets through takes nobody from a set under way. *)
LEMMA CandidatesApart ==
    ASSUME ApartInv, NEW t, NEW n \in Candidates(t)
    PROVE  /\ n \in Names /\ AllOccupied(Named(n))
           /\ \A m \in Underway \ {n} : Clash(world, tables, m, n) = {}
<1> DEFINE table == [x \in Names |-> View(x)]
           flags == [p \in Players |-> IF p \in world.force THEN "force" ELSE "none"]
           tomb == world.tomb
<1>1. /\ n \in Names /\ AllOccupied(Named(n))
      /\ C!Callable(n, board, table, flags, tomb, world.softBusy, world.pools, Resting(t), {})
  BY DEF Candidates, Playable
<1>2. ASSUME NEW m \in Underway, m # n, NEW p \in Clash(world, tables, m, n) PROVE FALSE
  <2>1. /\ m \in Names /\ m \notin tomb.awaiting /\ ~Named(m).done
        /\ \/ Named(m).started /\ m \notin tomb.suppressActive
           \/ Named(m).called /\ m \notin tomb.suppressCalled
           \/ m \in C!Assigned(board)
    BY DEF Underway, UnderwayIn, Names, Named
  <2>2. p \in PlayersIn(m) /\ p \in PlayersIn(n) /\ p \notin world.force
    BY DEF Clash, PlayersIn, Named
  <2>3. p \in Players
    <3>1. SetIn(tables, n) \in SimSets
      BY <1>1, PlaceOf DEF ApartInv, Names
    <3>2. SetIn(tables, n).slots \in Seq(Slots)
      BY <3>1 DEF SimSets
    <3>3. PICK k \in DOMAIN SetIn(tables, n).slots : p = SetIn(tables, n).slots[k].who /\ p # Nobody
      BY DEF Clash, Occupants
    <3>4. SetIn(tables, n).slots[k] \in Slots
      BY <3>2, <3>3
    <3> QED
      BY <3>3, <3>4 DEF Slots
  <2>4. flags[p] = "none"
    BY <2>2, <2>3
  <2>5. table[m] = View(m) /\ table[n] = View(n)
    BY <1>1, <2>1
  <2>6. /\ table[n] \notin {"Absent", "Pending", "Done"} /\ n \notin tomb.awaiting
        /\ ~(table[n] \in {"Active", "ActiveCalled"} /\ n \notin tomb.suppressActive)
        /\ ~(table[n] \in {"Called", "ActiveCalled"} /\ n \notin tomb.suppressCalled)
        /\ C!Idle(p, n, board, table, flags, tomb, world.softBusy)
    BY <1>1, <2>2 DEF C!Callable, C!SetBlocked, C!NotPlayable, C!RemotelyActive, C!CalledViews
  <2>7. /\ table[m] \notin {"Absent", "Done"}
        /\ Named(m).started => table[m] \in {"Active", "ActiveCalled"}
        /\ Named(m).called => table[m] \in {"Called", "ActiveCalled"}
    <3>1. CASE Named(m).started /\ Named(m).called
      <4>1. View(m) = "ActiveCalled"
        BY <2>1, <3>1 DEF View
      <4> QED
        BY <2>5, <4>1
    <3>2. CASE Named(m).started /\ ~Named(m).called
      <4>1. View(m) = "Active"
        BY <2>1, <3>2 DEF View
      <4> QED
        BY <2>5, <3>2, <4>1
    <3>3. CASE ~Named(m).started /\ Named(m).called
      <4>1. View(m) = "Called"
        BY <2>1, <3>3 DEF View
      <4> QED
        BY <2>5, <3>3, <4>1
    <3>4. CASE ~Named(m).started /\ ~Named(m).called
      <4>1. View(m) = "Ready"
        BY <2>1, <3>4 DEF View
      <4> QED
        BY <2>5, <3>4, <4>1
    <3> QED
      BY <3>1, <3>2, <3>3, <3>4
  <2> HIDE DEF table, flags, tomb
  <2> DEFINE claims == C!Claims(p, board, table, flags, tomb, world.softBusy)
             kept == C!Kept(p, board, table, flags, tomb, world.softBusy)
  <2>8. PICK d \in claims : d.level >= 1
    <3>1. CASE m \in C!Assigned(board)
      <4>1. [level |-> 3, set |-> m] \in claims
        BY <2>1, <2>2, <2>7, <3>1, ClaimMade
      <4> QED
        BY <4>1
    <3>2. CASE Named(m).started /\ m \notin tomb.suppressActive
      <4>1. [level |-> 2, set |-> m] \in claims
        BY <2>1, <2>2, <2>4, <2>7, <3>2, ClaimMade
      <4> QED
        BY <4>1
    <3>3. CASE Named(m).called /\ m \notin tomb.suppressCalled
      <4>1. [level |-> 1, set |-> m] \in claims
        BY <2>1, <2>2, <2>4, <2>7, <3>3, ClaimMade
      <4> QED
        BY <4>1
    <3> QED
      BY <2>1, <3>1, <3>2, <3>3
  <2>9. PICK c \in kept : c.set = n
    <3>1. \E c : c \in kept
      BY ClaimKept
    <3>2. kept # {} => \E c \in kept : c.set = n
      BY <2>6 DEF C!Idle
    <3> QED
      BY <3>1, <3>2
  <2>10. c \in claims /\ d.level <= c.level
    BY ClaimKept
  <2>11. \/ c.level = 3 /\ c.set \in C!Assigned(board)
         \/ c.level = 2 /\ table[c.set] \in {"Active", "ActiveCalled"} /\ c.set \notin tomb.suppressActive
         \/ c.level = 1 /\ table[c.set] \in {"Called", "ActiveCalled"} /\ c.set \notin tomb.suppressCalled
         \/ c.level = 0
    BY <2>10, ClaimsAre
  <2>12. d.level \in 0..3
    BY ClaimsAre
  <2> HIDE DEF claims, kept
  <2>13. c.level # 0
    BY <2>8, <2>10, <2>12
  <2>14. n \in C!Assigned(board)
    BY <2>6, <2>9, <2>11, <2>13
  <2>15. ~Named(n).done
    <3>1. Named(n).done => View(n) = "Done"
      BY DEF View
    <3> QED
      BY <2>5, <2>6, <3>1
  <2>16. n \in Underway
    BY <1>1, <2>6, <2>14, <2>15 DEF Underway, UnderwayIn, Names, Named, tomb
  <2> QED
    BY <1>2, <2>16 DEF ApartInv, Apart, Underway
<1> QED
  BY <1>1, <1>2

LEMMA SeatKeepsApart ==
    ASSUME ApartInv, NEW st, NEW n \in Names, AllOccupied(Named(n)),
           \A m \in Underway \ {n} : Clash(world, tables, m, n) = {},
           Seat(st, n), world' = world, phase' # "action"
    PROVE  ApartInv'
<1>1. tables' = Seating(tables, n) /\ board' = SeatedAt(board, st, n)
  BY DEF Seat, Seating, SeatedAt, Position
<1>2. tables \in Tables /\ n \in NamesIn(tables) /\ board \in Boards(tables) /\ AllOccupied(SetIn(tables, n))
  BY DEF ApartInv, Names, Named
<1>3. tables' \in Tables /\ board' \in Boards(tables')
  BY <1>1, <1>2, SeatingAdds
<1>4. /\ \A m \in UnderwayIn(world, tables', board') : AllOccupied(SetIn(tables', m))
      /\ Apart(world, tables', board')
  BY <1>1, <1>2, SeatingApart DEF ApartInv, Underway
<1> QED
  BY <1>3, <1>4 DEF ApartInv, Underway

LEMMA CompletedKeepsApart ==
    ASSUME ApartInv, NEW n, NEW t, NEW queue, Completed(n, t, queue), world' = world, phase' # "action"
    PROVE  ApartInv'
<1>1. board' = Vacated(n) /\ board \in Boards(tables) /\ tables \in Tables /\ IsWorld(world)
  BY DEF Completed, ApartInv
<1>2. C!Assigned(board') \subseteq C!Assigned(board)
  <2> SUFFICES ASSUME NEW x \in Setups, board'[x].kind \in C!Seated
               PROVE  board[x].kind \in C!Seated /\ board[x].set = board'[x].set
    BY DEF C!Assigned
  <2> QED
    BY <1>1 DEF Vacated, Boards, C!Seated
<1>3. \A tbl : NamesIn(tables) \subseteq NamesIn(tbl) => board' \in Boards(tbl)
  <2> TAKE tbl
  <2> HAVE NamesIn(tables) \subseteq NamesIn(tbl)
  <2> QED
    BY <1>1 DEF Vacated, Boards
<1>4. ASSUME tables' # tables
      PROVE  \E b \in Brackets, T \in Seq(SimSets) : Grown(tables[b], T) /\ tables' = [tables EXCEPT ![b] = T]
  <2>1. n \in Names /\ ~Named(n).done
    <3>1. n \notin Names \/ Named(n).done => tables' = tables
      BY DEF Completed
    <3> QED
      BY <1>4, <3>1
  <2> DEFINE b == n[1]
             i == Position(n)
             sets == Decided(b, tables[b], i)
             grown == sets \o NewRounds(b, sets)
             done == Progressed(b, grown)
  <2>2. tables' = [tables EXCEPT ![b] = done]
    BY <2>1 DEF Completed
  <2>3. b \in Brackets /\ tables[b] \in Seq(SimSets) /\ i \in 1..Len(tables[b])
    BY <1>1, <2>1, PlaceOf DEF Names, Position
  <2>4. sets \in Seq(SimSets) /\ Len(sets) = Len(tables[b]) /\ \A j \in 1..Len(tables[b]) : Same(tables[b][j], sets[j])
    BY <2>3, DecidedGrows
  <2> HIDE DEF b, i, sets
  <2>5. grown \in Seq(SimSets) /\ Grown(sets, grown)
    BY <1>1, <2>3, <2>4, RoundsGrow
  <2> HIDE DEF grown
  <2>6. Kept(grown, done)
    BY <1>1, <2>3, <2>5, ProgressKeeps
  <2> HIDE DEF done
  <2>7. Grown(tables[b], done)
    <3>1. Len(tables[b]) <= Len(done)
      BY <2>4, <2>5, <2>6 DEF Grown, Kept
    <3>2. \A j \in 1..Len(tables[b]) : Same(tables[b][j], done[j])
      <4> TAKE j \in 1..Len(tables[b])
      <4>1. j \in 1..Len(sets) /\ j \in 1..Len(grown)
        BY <2>3, <2>4, <2>5 DEF Grown
      <4>2. Same(tables[b][j], sets[j]) /\ Same(sets[j], grown[j]) /\ Same(grown[j], done[j])
        BY <2>4, <2>5, <2>6, <4>1 DEF Grown, Kept
      <4> QED
        BY <4>2, SameTwice
    <3>3. \A j \in 1..Len(done) : j > Len(tables[b]) => Added(tables[b], done[j])
      <4> SUFFICES ASSUME NEW j \in 1..Len(done), j > Len(tables[b]) PROVE Added(tables[b], done[j])
        OBVIOUS
      <4>1. Same(grown[j], done[j]) /\ Added(sets, grown[j])
        BY <2>4, <2>5, <2>6 DEF Grown, Kept
      <4>2. \A k \in 1..Len(tables[b]) : sets[k].key = tables[b][k].key
        BY <2>4 DEF Same
      <4> QED
        BY <2>4, <4>1, <4>2 DEF Same, Added
    <3> QED
      BY <3>1, <3>2, <3>3 DEF Grown
  <2>8. done \in Seq(SimSets)
    BY <2>6 DEF Kept
  <2> QED
    BY <2>2, <2>3, <2>7, <2>8
<1>5. CASE tables' = tables
  <2>1. \A m \in UnderwayIn(world, tables, board') : m \in Underway
    BY <1>2 DEF UnderwayIn, Underway
  <2> QED
    BY <1>1, <1>3, <1>5, <2>1 DEF ApartInv, Apart, Underway
<1>6. CASE tables' # tables
  <2>1. PICK b \in Brackets, T \in Seq(SimSets) : Grown(tables[b], T) /\ tables' = [tables EXCEPT ![b] = T]
    BY <1>4, <1>6
  <2>2. tables' \in Tables /\ NamesIn(tables) \subseteq NamesIn(tables')
    BY <1>1, <2>1, NamesGrow
  <2>3. /\ \A m \in UnderwayIn(world, tables', board') : AllOccupied(SetIn(tables', m))
        /\ Apart(world, tables', board')
    BY <1>1, <1>2, <2>1, UnderwayShrinks DEF ApartInv, Underway
  <2> QED
    BY <1>1, <1>3, <2>2, <2>3 DEF ApartInv, Underway
<1> QED
  BY <1>5, <1>6

(* The beginning of a run. *)
Begun ==
    /\ IsWorld(world)
    /\ tables = world.tables /\ board = world.board /\ since = world.since /\ clock = world.now
    /\ events = PushAll({}, 0, FirstWakes(world) \o InFlight(world))
    /\ pushed = Len(FirstWakes(world) \o InFlight(world))
    /\ phase = "action"

LEMMA InitBegins == Init => Begun
  BY WorldsAssumption DEF Init, Begun

LEMMA BegunApart == Begun => ApartInv
  BY DEF Begun, ApartInv, IsWorld, Tables, Boards, Underway

LEMMA NextApart == ApartInv /\ [Next]_vars => ApartInv'
<1> SUFFICES ASSUME ApartInv, [Next]_vars PROVE ApartInv'
  OBVIOUS
<1>1. CASE ForceCall
  <2> DEFINE n == world.action.set
  <2>1. tables = world.tables /\ board = world.board /\ world.action.do = "call" /\ IsWorld(world)
    BY <1>1 DEF ForceCall, ApartInv
  <2>2. /\ n \in Names /\ AllOccupied(Named(n))
        /\ \A m \in Underway \ {n} : Clash(world, tables, m, n) = {}
    BY <2>1 DEF IsWorld, MayForce, Names, Named, Underway
  <2>3. Seat(world.action.st, n) /\ world' = world /\ phase' # "action"
    BY <1>1 DEF ForceCall
  <2> HIDE DEF n
  <2> QED
    BY <2>2, <2>3, SeatKeepsApart
<1>2. CASE Walkover
  <2>1. PICK n : Completed(n, clock, events) /\ world' = world /\ phase' = phase /\ phase # "action"
    BY <1>2 DEF Walkover
  <2> QED
    BY <2>1, CompletedKeepsApart
<1>3. CASE Assign
  <2>0. PICK st : \E first \in Scored(On(st, Candidates(clock))) :
           Seat(st, first.n) /\ world' = world /\ phase' = phase /\ phase # "action"
    BY <1>3 DEF Assign
  <2>1. PICK first \in Scored(On(st, Candidates(clock))) :
           Seat(st, first.n) /\ world' = world /\ phase' = phase /\ phase # "action"
    BY <2>0
  <2>2. first.n \in Candidates(clock)
    BY <2>1 DEF Scored, On
  <2>3. /\ first.n \in Names /\ AllOccupied(Named(first.n))
        /\ \A m \in Underway \ {first.n} : Clash(world, tables, m, first.n) = {}
    BY <2>2, CandidatesApart
  <2> QED
    BY <2>1, <2>3, SeatKeepsApart
<1>4. CASE Pop
  <2>1. CASE Earliest.set = NoSet
    <3>1. UNCHANGED <<world, tables, board>> /\ phase' # "action"
      BY <1>4, <2>1 DEF Pop
    <3> QED
      BY <3>1 DEF ApartInv, Underway, Apart, UnderwayIn
  <2>2. CASE Earliest.set # NoSet
    <3>1. /\ Completed(Earliest.set, Larger(clock, Earliest.at), Rest(Earliest))
          /\ world' = world /\ phase' # "action"
      BY <1>4, <2>2 DEF Pop
    <3> QED
      BY <3>1, CompletedKeepsApart
  <2> QED
    BY <2>1, <2>2
<1>5. CASE UNCHANGED <<world, tables, board>> /\ (phase' = "action" => phase = "action")
  BY <1>5 DEF ApartInv, Underway, Apart, UnderwayIn
<1>6. CASE ForceHold \/ NoWalkover \/ NoAssignment \/ End \/ UNCHANGED vars
  <2>1. UNCHANGED <<world, tables, board>> /\ (phase' = "action" => phase = "action")
    BY <1>6 DEF ForceHold, NoWalkover, NoAssignment, End, vars
  <2> QED
    BY <1>5, <2>1
<1> QED
  BY <1>1, <1>2, <1>3, <1>4, <1>6 DEF Next

(* Safety of the projection's own desk (next_assignment, callable,          *)
(* apply_completion): whatever is on a station, under way or called, and    *)
(* whoever was forced first, no player is in two such sets at once.         *)
THEOREM PlayersStayApart == Spec => []OneSetAtATime
<1>1. ApartInv => OneSetAtATime
  BY DEF ApartInv, OneSetAtATime
<1> QED
  BY <1>1, InitBegins, BegunApart, NextApart, PTL DEF Spec

-----------------------------------------------------------------------------
(* No call and no walkover is missed for want of a wake. *)

(* Every moment at which something could change is in the queue. *)
Arrives(at, queue) == \E e \in queue : e.at = at
Woken(t, queue, done) ==
    /\ \A b \in Brackets : world.opens[b] > t => Arrives(world.opens[b], queue)
    /\ world.horizon > t => Arrives(world.horizon, queue)
    /\ \A p \in Players : world.window > 0 /\ done[p] >= 0 /\ done[p] + world.window > t =>
                           Arrives(done[p] + world.window, queue)
Timed(queue) == \A e \in queue : e.at \in Nat /\ e.n \in Nat
WakeInv ==
    /\ clock \in Nat /\ pushed \in Nat /\ since \in [Players -> Nat \cup {-1}]
    /\ Timed(events) /\ Woken(clock, events, since)
    /\ phase \in {"calls", "next"} => Walkovers(clock) = {}
    /\ phase = "next" => Takers(Candidates(clock)) = {}

(* The earliest event. *)
LEMMA EarliestIs ==
    ASSUME Timed(events), events # {}
    PROVE  Earliest \in events /\ \A f \in events : Earliest.at <= f.at
<1> DEFINE ats == {e.at : e \in events}
<1>1. ats \in SUBSET Nat /\ ats # {}
  BY DEF Timed
<1>2. PICK a \in ats : \A x \in ats : a <= x
  <2> HIDE DEF ats
  <2> QED
    BY <1>1, FirstOf
<1> DEFINE first == {e \in events : e.at = a}
           ns == {e.n : e \in first}
<1>3. ns \in SUBSET Nat /\ ns # {}
  BY DEF Timed
<1>4. PICK n \in ns : \A x \in ns : n <= x
  <2> HIDE DEF ns
  <2> QED
    BY <1>3, FirstOf
<1>5. PICK e \in events : e.at = a /\ e.n = n
  BY <1>4
<1>6. \A f \in events : e.at < f.at \/ (e.at = f.at /\ e.n <= f.n)
  <2> TAKE f \in events
  <2>1. f.at \in ats /\ e.at \in Nat /\ f.at \in Nat
    BY DEF Timed
  <2>2. f.at = a => f.n \in ns
    OBVIOUS
  <2> HIDE DEF ats, ns
  <2>3. a <= f.at /\ (f.at = a => n <= f.n)
    BY <1>2, <1>4, <2>1, <2>2
  <2> QED
    BY <1>5, <2>1, <2>3
<1>7. Earliest \in events /\ \A f \in events : Earliest.at < f.at \/ (Earliest.at = f.at /\ Earliest.n <= f.n)
  BY <1>6 DEF Earliest
<1> QED
  BY <1>7 DEF Timed

LEMMA EstimateIs ==
    ASSUME ApartInv, NEW n \in Names
    PROVE  Estimate(n) \in Nat
<1>1. n[1] \in Brackets /\ SetIn(tables, n).key = n[2] /\ SetIn(tables, n) \in SimSets
  BY PlaceOf DEF ApartInv, Names
<1>2. n[2] \in Nat \X Int \X Nat
  BY <1>1 DEF SimSets
<1>3. n[2][3] % 2 \in Nat
  BY <1>2
<1>4. world.estimates[n[1]] \in Nat
  <2>1. IsWorld(world)
    BY DEF ApartInv
  <2> QED
    BY <1>1, <2>1 DEF IsWorld
<1> QED
  BY <1>3, <1>4 DEF Estimate

LEMMA WorldTimes ==
    ASSUME IsWorld(world)
    PROVE  /\ world.window \in Nat /\ world.horizon \in Nat /\ world.now \in Nat
           /\ \A b \in Brackets : world.opens[b] \in Nat
<1>1. IsWorld(world)
  OBVIOUS
<1> QED
  BY <1>1 DEF IsWorld

(* Until the next event the desk of the projection stays as it is. *)
LEMMA UntilWoken ==
    ASSUME ApartInv, WakeInv, phase = "next", NEW t \in Moments, clock <= t, t <= NextTime - 1
    PROVE  Walkovers(t) = {} /\ Takers(Candidates(t)) = {}
<1>1. /\ world.window \in Nat /\ world.horizon \in Nat
      /\ \A b \in Brackets : world.opens[b] \in Nat
      /\ \A p \in Players : since[p] \in Int /\ since[p] + world.window \in Int
  BY WorldTimes DEF ApartInv, WakeInv
<1>2. t \in Int /\ clock \in Int
  BY <1>1 DEF Moments, WakeInv
<1>3. ASSUME NEW x \in Int, Arrives(x, events) PROVE x > t
  <2>1. PICK e \in events : e.at = x
    BY <1>3 DEF Arrives
  <2>2. Timed(events) /\ events # {}
    BY <2>1 DEF WakeInv
  <2>3. Earliest \in events /\ Earliest.at <= x
    BY <2>1, <2>2, EarliestIs
  <2>4. Earliest.at \in Nat
    BY <2>2, <2>3 DEF Timed
  <2>5. NextTime = Earliest.at
    BY <2>2 DEF NextTime
  <2> QED
    BY <1>2, <2>3, <2>4, <2>5
<1>4. ASSUME NEW b \in Brackets PROVE IsOpen(b, t) <=> IsOpen(b, clock)
  <2>1. world.opens[b] > clock => world.opens[b] > t
    BY <1>1, <1>3 DEF WakeInv, Woken
  <2> QED
    BY <1>1, <1>2, <2>1 DEF IsOpen
<1>5. Resting(t) = Resting(clock)
  <2>1. world.horizon > clock <=> world.horizon > t
    BY <1>1, <1>2, <1>3 DEF WakeInv, Woken
  <2>2. ASSUME NEW p \in Players, world.window > 0, since[p] >= 0
        PROVE  since[p] + world.window > clock <=> since[p] + world.window > t
    BY <1>1, <1>2, <1>3, <2>2 DEF WakeInv, Woken
  <2> QED
    BY <2>1, <2>2 DEF Resting
<1>6. \A n \in Names : n[1] \in Brackets
  BY PlaceOf DEF Names, ApartInv
<1>7. Walkovers(t) = Walkovers(clock)
  BY <1>4, <1>6 DEF Walkovers
<1>8. \A n \in Names : Playable(n, t) <=> Playable(n, clock)
  BY <1>4, <1>6 DEF Playable
<1>9. Candidates(t) = Candidates(clock)
  BY <1>5, <1>8 DEF Candidates
<1> QED
  BY <1>7, <1>9 DEF WakeInv

LEMMA NothingIsMissed == ApartInv /\ WakeInv => NothingMissed
<1> SUFFICES ASSUME ApartInv, WakeInv, phase = "next", NEW t \in Moments \cap clock..(NextTime - 1)
             PROVE  Walkovers(t) = {} /\ Takers(Candidates(t)) = {}
  BY DEF NothingMissed
<1>1. t \in Moments /\ clock <= t /\ t <= NextTime - 1
  OBVIOUS
<1> QED
  BY <1>1, UntilWoken

(* Events are added, and rests begin with one for their end. *)
LEMMA StaysWoken ==
    ASSUME NEW t \in Nat, NEW u \in Nat, t <= u, NEW queue, NEW more, NEW done, NEW later,
           IsWorld(world), done \in [Players -> Nat \cup {-1}], later \in [Players -> Nat \cup {-1}],
           Woken(t, queue, done),
           \A x \in Nat : x > u /\ Arrives(x, queue) => Arrives(x, more),
           \A p \in Players : world.window > 0 => \/ later[p] = done[p]
                                                  \/ later[p] = u /\ Arrives(u + world.window, more)
    PROVE  Woken(u, more, later)
<1>1. /\ world.window \in Nat /\ world.horizon \in Nat
      /\ \A b \in Brackets : world.opens[b] \in Nat
  BY WorldTimes
<1>2. ASSUME NEW b \in Brackets, world.opens[b] > u PROVE Arrives(world.opens[b], more)
  BY <1>1, <1>2 DEF Woken
<1>3. world.horizon > u => Arrives(world.horizon, more)
  BY <1>1 DEF Woken
<1>4. ASSUME NEW p \in Players, world.window > 0, later[p] >= 0, later[p] + world.window > u
      PROVE  Arrives(later[p] + world.window, more)
  <2>1. CASE later[p] = done[p]
    <3>1. done[p] \in Nat
      BY <1>4, <2>1
    <3>2. done[p] + world.window \in Nat /\ done[p] + world.window > t
      BY <1>1, <1>4, <2>1, <3>1
    <3> QED
      BY <1>4, <2>1, <3>1, <3>2 DEF Woken
  <2>2. CASE later[p] = u /\ Arrives(u + world.window, more)
    BY <2>2
  <2> QED
    BY <1>4, <2>1, <2>2
<1> QED
  BY <1>2, <1>3, <1>4 DEF Woken

(* What the callable sets are found from. *)
LEMMA SameView ==
    ASSUME world' = world, tables' = tables
    PROVE  /\ Names' = Names
           /\ \A n : /\ Named(n)' = Named(n) /\ View(n)' = View(n) /\ PlayersIn(n)' = PlayersIn(n)
                    /\ Position(n)' = Position(n)
           /\ \A b, t : IsOpen(b, t)' <=> IsOpen(b, t)
           /\ \A b, p : Absent(b, p)' <=> Absent(b, p)
<1>1. Names' = Names
  BY DEF Names
<1>2. \A n : Named(n)' = Named(n)
  BY DEF Named
<1>3. \A n : View(n)' = View(n) /\ PlayersIn(n)' = PlayersIn(n)
  BY <1>2 DEF View, PlayersIn
<1>4. \A b, t, p : (IsOpen(b, t)' <=> IsOpen(b, t)) /\ (Absent(b, p)' <=> Absent(b, p))
  BY DEF IsOpen, Absent
<1>5. \A n : Position(n)' = Position(n)
  BY DEF Position
<1> QED
  BY <1>1, <1>2, <1>3, <1>4, <1>5

LEMMA SameTakers ==
    ASSUME UNCHANGED <<world, tables, board, since, hold, clock>>
    PROVE  Takers(Candidates(clock))' = Takers(Candidates(clock))
<1>1. Names' = Names /\ \A n : /\ Named(n)' = Named(n) /\ View(n)' = View(n) /\ PlayersIn(n)' = PlayersIn(n)
  BY SameView
<1>2. (\A b, t : IsOpen(b, t)' <=> IsOpen(b, t)) /\ (\A b, p : Absent(b, p)' <=> Absent(b, p))
  BY SameView
<1>3. Resting(clock)' = Resting(clock)
  BY DEF Resting
<1>4. \A n : Playable(n, clock)' <=> Playable(n, clock)
  BY <1>1, <1>2 DEF Playable
<1> DEFINE table == [m \in Names |-> View(m)]
           players == [m \in Names |-> PlayersIn(m)]
<1>5. table' = table /\ players' = players
  BY <1>1
<1> DEFINE flags == [p \in Players |-> IF p \in world.force THEN "force" ELSE "none"]
<1>6. flags' = flags
  OBVIOUS
<1>7. \A p : C!LocalClaims(p, board, table)' = C!LocalClaims(p, board, table)
  <2> HIDE DEF table
  <2> QED
    BY <1>1, <1>5 DEF C!LocalClaims, C!Assigned, C!Seated, C!NotLive
<1>8. \A p : C!RemoteClaims(p, table, flags, world.tomb, world.softBusy)'
             = C!RemoteClaims(p, table, flags, world.tomb, world.softBusy)
  <2> HIDE DEF table, flags
  <2> QED
    BY <1>1, <1>5, <1>6 DEF C!RemoteClaims, C!NotLive, C!RemotelyActive, C!CalledViews
<1>9. \A p : C!Kept(p, board, table, flags, world.tomb, world.softBusy)'
             = C!Kept(p, board, table, flags, world.tomb, world.softBusy)
  <2> HIDE DEF table, flags
  <2> QED
    BY <1>7, <1>8 DEF C!Kept, C!Claims
<1>10. \A p, n : C!Idle(p, n, board, table, flags, world.tomb, world.softBusy)'
                <=> C!Idle(p, n, board, table, flags, world.tomb, world.softBusy)
  <2> HIDE DEF table, flags
  <2> QED
    BY <1>9 DEF C!Idle
<1>11. /\ \A b : C!Pool(b, board, world.pools)' = C!Pool(b, board, world.pools)
       /\ C!FreeStations(board)' = C!FreeStations(board)
  BY DEF C!Pool, C!OnBoard, C!FreeStations
<1>12. \A n \in Names : C!Callable(n, board, table, flags, world.tomb, world.softBusy, world.pools, Resting(clock), {})'
             <=> C!Callable(n, board, table, flags, world.tomb, world.softBusy, world.pools, Resting(clock), {})
  <2> HIDE DEF table, flags
  <2> QED
    BY <1>1, <1>3, <1>5, <1>6, <1>10, <1>11
       DEF C!Callable, C!SetBlocked, C!NotPlayable, C!RemotelyActive, C!CalledViews
<1>13. Candidates(clock)' = Candidates(clock)
  <2>1. Candidates(clock) = {n \in Names : /\ Playable(n, clock)
                       /\ C!Callable(n, board, table, flags, world.tomb, world.softBusy, world.pools, Resting(clock), {})}
    BY DEF Candidates
  <2>2. Candidates(clock)' = {n \in Names' : /\ Playable(n, clock)'
                       /\ C!Callable(n, board, table, flags, world.tomb, world.softBusy, world.pools, Resting(clock), {})'}
    BY DEF Candidates
  <2> HIDE DEF table, flags
  <2> QED
    BY <1>1, <1>4, <1>12, <2>1, <2>2
<1>14. \A st : On(st, Candidates(clock))' = On(st, Candidates(clock))
  BY <1>11, <1>13 DEF On
<1> QED
  BY <1>11, <1>14 DEF Takers

LEMMA SameWalkovers ==
    ASSUME UNCHANGED <<world, tables, clock>>
    PROVE  Walkovers(clock)' = Walkovers(clock)
BY SameView DEF Walkovers

LEMMA SameShape ==
    ASSUME NEW x, NEW y, x.slots = y.slots
    PROVE  ResetShaped(x) <=> ResetShaped(y)
<1>1. [k \in DOMAIN x.slots |-> x.slots[k].from] = [k \in DOMAIN y.slots |-> y.slots[k].from]
  BY Zenon
<1>2. FeederIds(x) = FeederIds(y)
  BY <1>1, Zenon DEF FeederIds
<1> QED
  BY <1>2, Zenon DEF ResetShaped

(* A set that is seated is no walkover, and makes none. *)
LEMMA SeatedWalkovers ==
    ASSUME ApartInv, NEW st, NEW n \in Names, Seat(st, n), world' = world, clock' = clock
    PROVE  Walkovers(clock)' \subseteq Walkovers(clock)
<1>1. /\ Names' = Names
      /\ \A m \in Names : Named(m)'.slots = Named(m).slots /\ Named(m)'.done = Named(m).done
  <2>1. tables' = Seating(tables, n) /\ tables \in Tables /\ n \in NamesIn(tables) /\ board \in Boards(tables)
    BY DEF Seat, Seating, Position, ApartInv, Names
  <2>2. /\ NamesIn(Seating(tables, n)) = NamesIn(tables)
        /\ \A m \in NamesIn(tables) : /\ SetIn(Seating(tables, n), m).slots = SetIn(tables, m).slots
                                      /\ SetIn(Seating(tables, n), m).done = SetIn(tables, m).done
    BY <2>1, SeatingAdds
  <2> QED
    BY <2>1, <2>2 DEF Names, Named
<1>2. \A b, t, p : (IsOpen(b, t)' <=> IsOpen(b, t)) /\ (Absent(b, p)' <=> Absent(b, p))
  BY DEF IsOpen, Absent
<1>3. \A m \in Names : /\ PlayersIn(m)' = PlayersIn(m)
                       /\ AllOccupied(Named(m))' <=> AllOccupied(Named(m))
                       /\ ResetShaped(Named(m))' <=> ResetShaped(Named(m))
  <2> TAKE m \in Names
  <2>1. Named(m)'.slots = Named(m).slots
    BY <1>1
  <2>2. PlayersIn(m)' = PlayersIn(m)
    BY <2>1 DEF PlayersIn, Occupants
  <2>3. AllOccupied(Named(m))' <=> AllOccupied(Named(m))
    BY <2>1 DEF AllOccupied
  <2>4. ResetShaped(Named(m)') <=> ResetShaped(Named(m))
    BY <2>1, SameShape
  <2>5. ResetShaped(Named(m)') <=> ResetShaped(Named(m))'
    BY Zenon
  <2> QED
    BY <2>2, <2>3, <2>4, <2>5
<1> QED
  BY <1>1, <1>2, <1>3 DEF Walkovers

(* The queue with what is pushed. *)
LEMMA Pushed ==
    ASSUME NEW queue, Timed(queue), NEW n \in Nat, NEW X, NEW entries \in Seq([at : Nat, set : X])
    PROVE  /\ Timed(PushAll(queue, n, entries)) /\ n + Len(entries) \in Nat
           /\ \A x : Arrives(x, queue) => Arrives(x, PushAll(queue, n, entries))
           /\ \A i \in DOMAIN entries : Arrives(entries[i].at, PushAll(queue, n, entries))
<1> DEFINE new == {[at |-> entries[i].at, n |-> n + i - 1, set |-> entries[i].set] : i \in DOMAIN entries}
<1>1. \A i \in DOMAIN entries : entries[i].at \in Nat /\ n + i - 1 \in Nat
  <2> DEFINE V == [at : Nat, set : X]
  <2>1. entries \in Seq(V)
    OBVIOUS
  <2> HIDE DEF V
  <2>2. \A i \in DOMAIN entries : i \in 1..Len(entries) /\ entries[i] \in V
    BY <2>1
  <2> QED
    BY <2>2 DEF V
<1>2. Timed(new)
  BY <1>1 DEF Timed
<1>3. \A i \in DOMAIN entries : Arrives(entries[i].at, new)
  <2> TAKE i \in DOMAIN entries
  <2> DEFINE e == [at |-> entries[i].at, n |-> n + i - 1, set |-> entries[i].set]
  <2>1. e \in new /\ e.at = entries[i].at
    OBVIOUS
  <2> HIDE DEF e, new
  <2> QED
    BY <2>1 DEF Arrives
<1>4. PushAll(queue, n, entries) = queue \cup new
  BY DEF PushAll
<1> HIDE DEF new
<1> QED
  BY <1>2, <1>3, <1>4 DEF Timed, Arrives

(* Lists one after the other. *)
HoldsAll(list, part) == \A i \in DOMAIN part : \E j \in DOMAIN list : list[j] = part[i]
LEMMA Joined ==
    ASSUME NEW X, NEW s \in Seq(X), NEW u \in Seq(X)
    PROVE  /\ s \o u \in Seq(X) /\ HoldsAll(s \o u, s) /\ HoldsAll(s \o u, u)
<1>1. /\ s \o u \in Seq(X) /\ Len(s \o u) = Len(s) + Len(u) /\ Len(s) \in Nat /\ Len(u) \in Nat
      /\ DOMAIN s = 1..Len(s) /\ DOMAIN u = 1..Len(u) /\ DOMAIN (s \o u) = 1..(Len(s) + Len(u))
  OBVIOUS
<1>2. ASSUME NEW i \in DOMAIN s PROVE i \in DOMAIN (s \o u) /\ (s \o u)[i] = s[i]
  BY <1>1
<1>3. ASSUME NEW i \in DOMAIN u PROVE Len(s) + i \in DOMAIN (s \o u) /\ (s \o u)[Len(s) + i] = u[i]
  BY <1>1
<1> QED
  BY <1>1, <1>2, <1>3 DEF HoldsAll

LEMMA WakesAre ==
    ASSUME IsWorld(world), NEW t \in Nat, NEW changed \in BOOLEAN
    PROVE  /\ Wakes(t, changed) \in Seq([at : Nat, set : {NoSet}])
           /\ world.window > 0 => \E i \in DOMAIN Wakes(t, changed) : Wakes(t, changed)[i].at = t + world.window
<1> DEFINE rest == <<[at |-> t + world.window, set |-> NoSet]>>
           now  == <<[at |-> t, set |-> NoSet]>>
           E    == [at : Nat, set : {NoSet}]
<1>1. world.window \in Nat
  BY WorldTimes
<1>2. rest \in Seq(E) /\ now \in Seq(E) /\ <<>> \in Seq(E)
  BY <1>1
<1>3. Wakes(t, changed) = (IF world.window > 0 THEN rest ELSE <<>>) \o (IF changed THEN now ELSE <<>>)
  BY DEF Wakes
<1>4. rest[1].at = t + world.window /\ Len(rest) = 1
  OBVIOUS
<1> HIDE DEF rest, now, E
<1>5. Wakes(t, changed) \in Seq(E)
  BY <1>2, <1>3
<1>6. ASSUME world.window > 0
      PROVE  \E i \in DOMAIN Wakes(t, changed) : Wakes(t, changed)[i] = rest[1]
  <2> DEFINE then == IF changed THEN now ELSE <<>>
  <2>1. then \in Seq(E) /\ Wakes(t, changed) = rest \o then
    BY <1>2, <1>3, <1>6
  <2> HIDE DEF then
  <2>2. 1 \in DOMAIN rest
    BY <1>2, <1>4
  <2> QED
    BY <1>2, <2>1, <2>2, Joined DEF HoldsAll
<1> QED
  BY <1>4, <1>5, <1>6 DEF E

(* A result leaves every later moment in the queue. *)
LEMMA CompletedWakes ==
    ASSUME ApartInv, clock \in Nat, pushed \in Nat, since \in [Players -> Nat \cup {-1}],
           NEW n, NEW t \in Nat, clock <= t, NEW queue, Timed(queue), Woken(clock, events, since),
           \A x \in Nat : x > t /\ Arrives(x, events) => Arrives(x, queue),
           Completed(n, t, queue)
    PROVE  /\ pushed' \in Nat /\ since' \in [Players -> Nat \cup {-1}]
           /\ Timed(events') /\ Woken(t, events', since')
<1>1. IsWorld(world)
  BY DEF ApartInv
<1>2. CASE n \notin Names \/ Named(n).done
  <2>1. events' = queue /\ since' = since /\ pushed' = pushed
    BY <1>2 DEF Completed
  <2> QED
    BY <1>1, <2>1, StaysWoken
<1>3. CASE ~(n \notin Names \/ Named(n).done)
  <2>1. PICK changed \in BOOLEAN :
           /\ since' = [p \in Players |->
                 IF world.window > 0 /\ p \in PlayersIn(n) THEN Larger(since[p], t) ELSE since[p]]
           /\ events' = PushAll(queue, pushed, Wakes(t, changed))
           /\ pushed' = pushed + Len(Wakes(t, changed))
    BY <1>3 DEF Completed
  <2>2. /\ Wakes(t, changed) \in Seq([at : Nat, set : {NoSet}])
        /\ world.window > 0 => \E i \in DOMAIN Wakes(t, changed) : Wakes(t, changed)[i].at = t + world.window
    BY <1>1, WakesAre
  <2>3. /\ Timed(events') /\ pushed' \in Nat
        /\ \A x : Arrives(x, queue) => Arrives(x, events')
        /\ \A i \in DOMAIN Wakes(t, changed) : Arrives(Wakes(t, changed)[i].at, events')
    BY <2>1, <2>2, Pushed
  <2>4. world.window > 0 => Arrives(t + world.window, events')
    BY <2>2, <2>3
  <2>5. \A p \in Players : since'[p] = since[p] \/ (world.window > 0 /\ since'[p] = t)
    BY <2>1 DEF Larger
  <2>6. since' \in [Players -> Nat \cup {-1}]
    BY <2>1 DEF Larger
  <2>7. Woken(t, events', since')
    BY <1>1, <2>3, <2>4, <2>5, <2>6, StaysWoken
  <2> QED
    BY <2>3, <2>6, <2>7
<1> QED
  BY <1>2, <1>3

LEMMA SeatWakes ==
    ASSUME ApartInv, WakeInv, NEW st, NEW n \in Names, Seat(st, n)
    PROVE  pushed' \in Nat /\ Timed(events') /\ Woken(clock, events', since)
<1>1. Estimate(n) \in Nat
  BY EstimateIs
<1>2. events' = events \cup {[at |-> clock + Estimate(n), n |-> pushed, set |-> n]} /\ pushed' = pushed + 1
  BY DEF Seat, Push
<1>3. Timed(events') /\ pushed' \in Nat
  BY <1>1, <1>2 DEF Timed, WakeInv
<1>4. \A x : Arrives(x, events) => Arrives(x, events')
  BY <1>2 DEF Arrives
<1>5. Woken(clock, events', since)
  BY <1>4, StaysWoken DEF WakeInv, ApartInv
<1> QED
  BY <1>3, <1>5

-----------------------------------------------------------------------------
(* The queue at the start. *)

Entries(w) == [at : Nat, set : NamesIn(w.tables) \cup {NoSet}]

LEMMA InFlightIs ==
    ASSUME NEW w, IsWorld(w)
    PROVE  InFlight(w) \in Seq(Entries(w))
<1> DEFINE started(n) == w.startedAt + w.estimates[n[1]] + (IF w.noise THEN n[2][3] % 2 ELSE 0)
           fresh(n)   == w.now + w.estimates[n[1]] + (IF w.noise THEN n[2][3] % 2 ELSE 0)
           entry(n, set) ==
            CASE n \in w.tomb.awaiting -> <<[at |-> fresh(n), set |-> n]>>
              [] n \notin w.tomb.awaiting /\ set.started ->
                    <<[at |-> Larger(started(n), w.now + 1), set |-> n]>>
              [] n \notin w.tomb.awaiting /\ ~set.started
                 /\ (set.called \/ \E st \in Setups : w.board[st].set = n) ->
                    <<[at |-> fresh(n), set |-> n]>>
              [] OTHER -> <<>>
           one(b, i) == IF w.tables[b][i].done THEN <<>>
                        ELSE entry(<<b, w.tables[b][i].key>>, w.tables[b][i])
           ofBracket(b) == FlattenSeq([i \in DOMAIN w.tables[b] |-> one(b, i)])
           E == Entries(w)
           count == Cardinality(Brackets)
           all == [x \in 1..count |-> ofBracket(InOrder(Brackets)[x])]
<1>1. InFlight(w) = FlattenSeq(all)
  BY DEF InFlight
<1>2. /\ w.now \in Nat /\ w.startedAt \in Nat /\ w.tables \in Tables
      /\ \A b \in Brackets : w.estimates[b] \in Nat
  <2>1. IsWorld(w)
    OBVIOUS
  <2> QED
    BY <2>1 DEF IsWorld, Tables
<1>3. ASSUME NEW n \in NamesIn(w.tables) PROVE fresh(n) \in Nat /\ started(n) \in Nat
  <2>1. n[1] \in Brackets /\ SetIn(w.tables, n).key = n[2] /\ SetIn(w.tables, n) \in SimSets
    BY <1>2, PlaceOf
  <2>2. n[2] \in Nat \X Int \X Nat
    BY <2>1 DEF SimSets
  <2>3. n[2][3] % 2 \in Nat
    BY <2>2
  <2> QED
    BY <1>2, <2>1, <2>3
<1> HIDE DEF fresh, started
<1>4. ASSUME NEW n \in NamesIn(w.tables), NEW set PROVE entry(n, set) \in Seq(E)
  <2>1. fresh(n) \in Nat /\ Larger(started(n), w.now + 1) \in Nat
    BY <1>2, <1>3 DEF Larger
  <2> DEFINE x == <<[at |-> fresh(n), set |-> n]>>
             y == <<[at |-> Larger(started(n), w.now + 1), set |-> n]>>
  <2>2. x \in Seq(E) /\ y \in Seq(E) /\ <<>> \in Seq(E)
    BY <2>1 DEF Entries
  <2> DEFINE r == \E st \in Setups : w.board[st].set = n
  <2>3. entry(n, set) = x \/ entry(n, set) = y \/ entry(n, set) = <<>>
    <3> HIDE DEF x, y, r
    <3>1. entry(n, set) =
            CASE n \in w.tomb.awaiting -> x
              [] n \notin w.tomb.awaiting /\ set.started -> y
              [] n \notin w.tomb.awaiting /\ ~set.started /\ (set.called \/ r) -> x
              [] OTHER -> <<>>
      BY DEF x, y, r
    <3> HIDE DEF entry
    <3> QED
      BY <3>1
  <2> HIDE DEF x, y, entry, E
  <2> QED
    BY <2>2, <2>3
<1> HIDE DEF entry
<1>5. ASSUME NEW b \in Brackets PROVE ofBracket(b) \in Seq(E)
  <2> DEFINE S == w.tables[b]
             s == [i \in DOMAIN S |-> one(b, i)]
  <2>1. DOMAIN S = 1..Len(S) /\ Len(S) \in Nat
    <3>1. S \in Seq(SimSets)
      BY <1>2 DEF Tables
    <3> HIDE DEF S
    <3> QED
      BY <3>1
  <2>2. ASSUME NEW i \in DOMAIN S PROVE one(b, i) \in Seq(E)
    <3>1. <<b, S[i].key>> \in NamesIn(w.tables)
      BY DEF NamesIn
    <3>2. entry(<<b, S[i].key>>, S[i]) \in Seq(E)
      BY <1>4, <3>1
    <3>3. <<>> \in Seq(E)
      OBVIOUS
    <3> HIDE DEF E
    <3> QED
      BY <3>2, <3>3
  <2> HIDE DEF one, E, S
  <2>3. s = [i \in 1..Len(S) |-> s[i]] /\ \A i \in 1..Len(S) : s[i] \in Seq(E)
    BY <2>1, <2>2
  <2>4. s \in Seq(Seq(E))
    <3> HIDE DEF s
    <3> QED
      BY <2>1, <2>3, ListIn
  <2>5. ofBracket(b) = FlattenSeq(s)
    BY DEF S
  <2> QED
    BY <2>4, <2>5, FlattenIn
<1> HIDE DEF ofBracket, E
<1>6. InOrder(Brackets) \in Seq(Brackets) /\ Len(InOrder(Brackets)) = count /\ count \in Nat
  BY SimulationAssumption, InOrderIn
<1>7. \A x \in 1..count : InOrder(Brackets)[x] \in Brackets
  BY <1>6
<1> HIDE DEF count
<1>8. \A x \in 1..count : all[x] \in Seq(E)
  BY <1>5, <1>7
<1>9. all = [x \in 1..count |-> all[x]]
  OBVIOUS
<1> HIDE DEF all
<1>10. all \in Seq(Seq(E))
  BY <1>6, <1>8, <1>9, ListIn
<1>11. FlattenSeq(all) \in Seq(E)
  BY <1>10, FlattenIn
<1> QED
  BY <1>1, <1>11 DEF E

(* The wakes of a snapshot: its horizon, the ends of rests, the openings. *)
LEMMA FirstWakesAre ==
    ASSUME NEW w, IsWorld(w)
    PROVE  /\ FirstWakes(w) \in Seq(Entries(w))
           /\ \E i \in DOMAIN FirstWakes(w) : FirstWakes(w)[i].at = w.horizon
           /\ \A b \in Brackets : w.opens[b] > w.now =>
                 \E i \in DOMAIN FirstWakes(w) : FirstWakes(w)[i].at = w.opens[b]
           /\ \A p \in Players : w.window > 0 /\ w.since[p] >= 0 /\ w.since[p] + w.window > w.now =>
                 \E i \in DOMAIN FirstWakes(w) : FirstWakes(w)[i].at = w.since[p] + w.window
<1> DEFINE E == Entries(w)
           resters == {q \in Players : w.window > 0 /\ w.since[q] >= 0 /\ w.since[q] + w.window > w.now}
           later == {c \in Brackets : w.opens[c] > w.now}
           restEnd(p) == [at |-> w.since[p] + w.window, set |-> NoSet]
           opening(b) == [at |-> w.opens[b], set |-> NoSet]
           R == {restEnd(p) : p \in resters}
           O == {opening(b) : b \in later}
           one == <<[at |-> w.horizon, set |-> NoSet]>>
           rs == SetToSeq(R)
           os == SetToSeq(O)
<1>1. FirstWakes(w) = (one \o rs) \o os
  BY DEF FirstWakes
<1>2. IsWorld(w)
  OBVIOUS
<1>3. one \in Seq(E) /\ one[1].at = w.horizon /\ 1 \in DOMAIN one
  <2>1. w.horizon \in Nat
    BY <1>2 DEF IsWorld
  <2>2. [at |-> w.horizon, set |-> NoSet] \in E
    BY <2>1 DEF Entries
  <2> HIDE DEF E
  <2> QED
    BY <2>2
<1>4. \A p \in resters : restEnd(p) \in E
  <2>1. w.since \in [Players -> Nat \cup {-1}] /\ w.window \in Nat
    BY <1>2 DEF IsWorld
  <2> QED
    BY <2>1 DEF Entries
<1>5. \A b \in later : opening(b) \in E
  <2>1. w.opens \in [Brackets -> Nat]
    BY <1>2 DEF IsWorld
  <2> QED
    BY <2>1 DEF Entries
<1>6. IsFiniteSet(R)
  <2> DEFINE f == [p \in Players |-> restEnd(p)]
  <2>1. R = {f[p] : p \in resters}
    OBVIOUS
  <2>2. IsFiniteSet(resters)
    BY SimulationAssumption, FS_Subset
  <2> HIDE DEF f, R, resters
  <2> QED
    BY <2>1, <2>2, ImageFinite
<1>7. IsFiniteSet(O)
  <2> DEFINE f == [b \in Brackets |-> opening(b)]
  <2>1. O = {f[b] : b \in later}
    OBVIOUS
  <2>2. IsFiniteSet(later)
    BY SimulationAssumption, FS_Subset
  <2> HIDE DEF f, O, later
  <2> QED
    BY <2>1, <2>2, ImageFinite
<1>8. R \subseteq E /\ O \subseteq E
  <2> HIDE DEF E, restEnd, opening
  <2> QED
    BY <1>4, <1>5
<1>9. \A p \in resters : restEnd(p) \in R /\ restEnd(p).at = w.since[p] + w.window
  OBVIOUS
<1>10. \A b \in later : opening(b) \in O /\ opening(b).at = w.opens[b]
  OBVIOUS
<1> HIDE DEF one, restEnd, opening, R, O, E
<1>11. /\ rs \in Seq(R) /\ \A x \in R : \E i \in DOMAIN rs : rs[i] = x
       /\ os \in Seq(O) /\ \A x \in O : \E i \in DOMAIN os : os[i] = x
  BY <1>6, <1>7, Enumerated
<1> HIDE DEF rs, os
<1>12. rs \in Seq(E) /\ os \in Seq(E)
  <2>1. /\ Len(rs) \in Nat /\ rs = [i \in 1..Len(rs) |-> rs[i]] /\ \A i \in 1..Len(rs) : rs[i] \in R
        /\ Len(os) \in Nat /\ os = [i \in 1..Len(os) |-> os[i]] /\ \A i \in 1..Len(os) : os[i] \in O
    BY <1>11
  <2>2. /\ \A i \in 1..Len(rs) : rs[i] \in E
        /\ \A i \in 1..Len(os) : os[i] \in E
    BY <1>8, <2>1
  <2> QED
    BY <2>1, <2>2, ListIn
<1> DEFINE two == one \o rs
           all == two \o os
<1>13. two \in Seq(E) /\ HoldsAll(two, one) /\ HoldsAll(two, rs)
  BY <1>3, <1>12, Joined
<1> HIDE DEF two
<1>14. all \in Seq(E) /\ HoldsAll(all, two) /\ HoldsAll(all, os)
  BY <1>12, <1>13, Joined
<1>15. FirstWakes(w) = all
  BY <1>1 DEF two
<1> HIDE DEF all
<1>16. \E i \in DOMAIN all : all[i].at = w.horizon
  BY <1>3, <1>13, <1>14 DEF HoldsAll
<1>17. ASSUME NEW b \in later PROVE \E i \in DOMAIN all : all[i].at = w.opens[b]
  <2>1. PICK i \in DOMAIN os : os[i] = opening(b)
    BY <1>10, <1>11
  <2> QED
    BY <1>10, <1>14, <2>1 DEF HoldsAll
<1>18. ASSUME NEW p \in resters PROVE \E i \in DOMAIN all : all[i].at = w.since[p] + w.window
  <2>1. PICK i \in DOMAIN rs : rs[i] = restEnd(p)
    BY <1>9, <1>11
  <2>2. PICK j \in DOMAIN two : two[j] = restEnd(p)
    BY <1>13, <2>1 DEF HoldsAll
  <2> QED
    BY <1>9, <1>14, <2>2 DEF HoldsAll
<1> QED
  BY <1>14, <1>15, <1>16, <1>17, <1>18 DEF E

LEMMA BegunWakes == Begun => WakeInv
<1> SUFFICES ASSUME Begun PROVE WakeInv
  OBVIOUS
<1> DEFINE wakes == FirstWakes(world)
           first == wakes \o InFlight(world)
           E == Entries(world)
<1>1. IsWorld(world) /\ since = world.since /\ clock = world.now /\ phase = "action"
  BY DEF Begun
<1>2. first \in Seq(E) /\ HoldsAll(first, wakes)
  <2>1. wakes \in Seq(E) /\ InFlight(world) \in Seq(E)
    BY <1>1, FirstWakesAre, InFlightIs
  <2> HIDE DEF E, wakes
  <2> QED
    BY <2>1, Joined
<1>3. clock \in Nat /\ since \in [Players -> Nat \cup {-1}]
  BY <1>1 DEF IsWorld
<1>4. events = PushAll({}, 0, first) /\ pushed = Len(first)
  BY DEF Begun
<1>5. Timed({})
  BY DEF Timed
<1> HIDE DEF first, wakes
<1>6. /\ Timed(events) /\ pushed \in Nat
      /\ \A j \in DOMAIN first : Arrives(first[j].at, events)
  <2>1. first \in Seq([at : Nat, set : NamesIn(world.tables) \cup {NoSet}])
    BY <1>2 DEF Entries
  <2>2. /\ Timed(PushAll({}, 0, first)) /\ 0 + Len(first) \in Nat
        /\ \A j \in DOMAIN first : Arrives(first[j].at, PushAll({}, 0, first))
    BY <1>5, <2>1, Pushed
  <2> QED
    BY <1>4, <2>1, <2>2
<1>7. \A i \in DOMAIN wakes : Arrives(wakes[i].at, events)
  BY <1>2, <1>6 DEF HoldsAll
<1>8. Woken(clock, events, since)
  BY <1>1, <1>7, FirstWakesAre DEF Woken, wakes
<1> QED
  BY <1>1, <1>3, <1>6, <1>8 DEF WakeInv

LEMMA NextWakes ==
    ASSUME ApartInv, WakeInv, [Next]_vars
    PROVE  WakeInv'
<1>1. IsWorld(world)
  BY DEF ApartInv
<1>2. CASE ForceCall
  <2> DEFINE n == world.action.set
  <2>1. tables = world.tables /\ world.action.do = "call" /\ IsWorld(world)
    BY <1>2 DEF ForceCall, ApartInv
  <2>2. n \in Names
    BY <2>1 DEF IsWorld, MayForce, Names
  <2>3. Seat(world.action.st, n)
    BY <1>2 DEF ForceCall
  <2> HIDE DEF n
  <2>4. pushed' \in Nat /\ Timed(events') /\ Woken(clock, events', since)
    BY <2>2, <2>3, SeatWakes
  <2>5. world' = world /\ clock' = clock /\ since' = since /\ phase' = "walkovers"
    BY <1>2 DEF ForceCall
  <2> QED
    BY <2>4, <2>5 DEF WakeInv, Woken
<1>3. CASE ForceHold
  BY <1>3 DEF ForceHold, WakeInv, Woken
<1>4. CASE Walkover
  <2>1. PICK n : Completed(n, clock, events)
    BY <1>4 DEF Walkover
  <2>2. /\ pushed' \in Nat /\ since' \in [Players -> Nat \cup {-1}]
        /\ Timed(events') /\ Woken(clock, events', since')
    BY <2>1, CompletedWakes DEF WakeInv
  <2>3. world' = world /\ clock' = clock /\ phase' = "walkovers"
    BY <1>4 DEF Walkover
  <2> QED
    BY <2>2, <2>3 DEF WakeInv, Woken
<1>5. CASE NoWalkover
  <2>1. UNCHANGED <<world, tables, since, events, pushed, clock>> /\ Walkovers(clock) = {} /\ phase' = "calls"
    BY <1>5 DEF NoWalkover
  <2>2. Walkovers(clock)' = {}
    BY <2>1, SameWalkovers
  <2> QED
    BY <2>1, <2>2 DEF WakeInv, Woken
<1>6. CASE Assign
  <2>1. PICK st : \E first \in Scored(On(st, Candidates(clock))) : Seat(st, first.n)
    BY <1>6 DEF Assign
  <2>2. PICK first \in Scored(On(st, Candidates(clock))) : Seat(st, first.n)
    BY <2>1
  <2>3. first.n \in Names
    <3>1. first.n \in Candidates(clock)
      BY <2>2 DEF Scored, On
    <3> QED
      BY <3>1, CandidatesApart
  <2>4. pushed' \in Nat /\ Timed(events') /\ Woken(clock, events', since)
    BY <2>2, <2>3, SeatWakes
  <2>5. UNCHANGED <<world, clock, since>> /\ phase = "calls" /\ phase' = "calls"
    BY <1>6 DEF Assign
  <2>6. Walkovers(clock)' = {}
    BY <2>2, <2>3, <2>5, SeatedWalkovers DEF WakeInv
  <2> QED
    BY <2>4, <2>5, <2>6 DEF WakeInv, Woken
<1>7. CASE NoAssignment
  <2>1. /\ UNCHANGED <<world, tables, board, since, events, pushed, clock, hold>>
        /\ Takers(Candidates(clock)) = {} /\ phase = "calls"
    BY <1>7 DEF NoAssignment
  <2>2. Takers(Candidates(clock))' = {} /\ Walkovers(clock)' = {}
    BY <2>1, SameTakers, SameWalkovers DEF WakeInv
  <2> QED
    BY <2>1, <2>2 DEF WakeInv, Woken
<1>8. CASE Pop
  <2> DEFINE e == Earliest
             t == Larger(clock, e.at)
  <2>1. /\ events # {} /\ clock' = t /\ world' = world /\ phase' = "walkovers"
        /\ \/ events' = Rest(e) /\ UNCHANGED <<since, pushed>>
           \/ Completed(e.set, t, Rest(e))
    BY <1>8 DEF Pop
  <2>2. e \in events /\ e.at \in Nat
    BY <2>1, EarliestIs DEF WakeInv, Timed
  <2>3. t \in Nat /\ clock <= t /\ e.at <= t
    BY <2>2 DEF WakeInv, Larger
  <2> HIDE DEF e, t
  <2>4. Timed(Rest(e))
    BY DEF Rest, Timed, WakeInv
  <2>5. \A x \in Nat : x > t /\ Arrives(x, events) => Arrives(x, Rest(e))
    <3> SUFFICES ASSUME NEW x \in Nat, x > t, NEW f \in events, f.at = x PROVE Arrives(x, Rest(e))
      BY DEF Arrives
    <3>1. f # e
      BY <2>2, <2>3
    <3> QED
      BY <3>1 DEF Arrives, Rest
  <2>6. /\ pushed' \in Nat /\ since' \in [Players -> Nat \cup {-1}]
        /\ Timed(events') /\ Woken(t, events', since')
    <3>1. CASE events' = Rest(e) /\ UNCHANGED <<since, pushed>>
      <4>1. Woken(t, Rest(e), since)
        BY <1>1, <2>3, <2>5, StaysWoken DEF WakeInv
      <4> QED
        BY <2>4, <3>1, <4>1 DEF WakeInv
    <3>2. CASE Completed(e.set, t, Rest(e))
      BY <2>3, <2>4, <2>5, <3>2, CompletedWakes DEF WakeInv
    <3> QED
      BY <2>1, <3>1, <3>2
  <2> QED
    BY <2>1, <2>3, <2>6 DEF WakeInv, Woken
<1>9. CASE End
  BY <1>9 DEF End, WakeInv, Woken
<1>10. CASE UNCHANGED vars
  <2>1. UNCHANGED <<world, tables, board, since, events, pushed, clock, hold, phase>>
    BY <1>10 DEF vars
  <2>2. Takers(Candidates(clock))' = Takers(Candidates(clock)) /\ Walkovers(clock)' = Walkovers(clock)
    BY <2>1, SameTakers, SameWalkovers
  <2> QED
    BY <2>1, <2>2 DEF WakeInv, Woken
<1> QED
  BY <1>2, <1>3, <1>4, <1>5, <1>6, <1>7, <1>8, <1>9, <1>10 DEF Next

(* Completeness of the event queue (EventQueue, apply_completion,           *)
(* SimState::init): when the clock is about to move, no set becomes         *)
(* callable and no walkover falls due before the next event is popped.      *)
THEOREM NothingWaitsUnseen == Spec => []NothingMissed
<1>1. Init => ApartInv /\ WakeInv
  BY InitBegins, BegunApart, BegunWakes
<1>2. (ApartInv /\ WakeInv) /\ [Next]_vars => (ApartInv /\ WakeInv)'
  BY NextApart, NextWakes
<1> QED
  BY <1>1, <1>2, NothingIsMissed, PTL DEF Spec

-----------------------------------------------------------------------------
(* The projections of a rollout, one after another. *)

(* What a forced action leaves of the snapshot. *)
LEMMA WorldForced ==
    ASSUME NEW w, IsWorld(w), NEW a, a.do = "call" => MayForce(w, a.set), NEW v, v = [w EXCEPT !.action = a]
    PROVE  /\ IsWorld(v) /\ v.use = w.use
           /\ v.now = w.now /\ v.tables = w.tables /\ v.board = w.board /\ v.since = w.since
           /\ FirstWakes(v) = FirstWakes(w) /\ InFlight(v) = InFlight(w)
           /\ \A n : MayForce(v, n) <=> MayForce(w, n)
<1>1. /\ DOMAIN v = DOMAIN w /\ v.action = a /\ v.use = w.use
      /\ v.now = w.now /\ v.startedAt = w.startedAt /\ v.tables = w.tables /\ v.groups = w.groups
      /\ v.board = w.board /\ v.opens = w.opens /\ v.since = w.since /\ v.window = w.window
      /\ v.horizon = w.horizon /\ v.estimates = w.estimates /\ v.noise = w.noise /\ v.force = w.force
      /\ v.tomb = w.tomb /\ v.speed = w.speed
  BY DEF IsWorld
<1>2. FirstWakes(v) = FirstWakes(w)
  BY <1>1 DEF FirstWakes
<1>3. InFlight(v) = InFlight(w)
  BY <1>1 DEF InFlight
<1>4. /\ \A tbl, brd : UnderwayIn(v, tbl, brd) = UnderwayIn(w, tbl, brd)
      /\ \A tbl, m, n : Clash(v, tbl, m, n) = Clash(w, tbl, m, n)
  BY <1>1 DEF UnderwayIn, Clash
<1>5. UnderwayIn(v, v.tables, v.board) = UnderwayIn(w, w.tables, w.board)
  BY <1>1, <1>4
<1>6. \A m, n : Clash(v, v.tables, m, n) = Clash(w, w.tables, m, n)
  BY <1>1, <1>4
<1>7. \A n : MayForce(v, n) <=> MayForce(w, n)
  <2> TAKE n
  <2>1. v.tables = w.tables
    BY <1>1
  <2> QED
    BY <1>5, <1>6, <2>1 DEF MayForce
<1>8. Apart(v, v.tables, v.board) /\ \A n \in UnderwayIn(v, v.tables, v.board) : AllOccupied(SetIn(v.tables, n))
  <2>1. Apart(w, w.tables, w.board) /\ \A n \in UnderwayIn(w, w.tables, w.board) : AllOccupied(SetIn(w.tables, n))
    BY DEF IsWorld
  <2>2. \A m, n \in UnderwayIn(w, w.tables, w.board) : m # n => Clash(v, v.tables, m, n) = {}
    <3> TAKE m, n \in UnderwayIn(w, w.tables, w.board)
    <3> QED
      BY <1>6, <2>1 DEF Apart
  <2> QED
    BY <1>1, <1>5, <2>1, <2>2 DEF Apart
<1>9. v.action.do = "call" => MayForce(v, v.action.set)
  BY <1>1, <1>7
<1>10. IsWorld(v)
  BY <1>1, <1>8, <1>9 DEF IsWorld
<1> QED
  BY <1>1, <1>2, <1>3, <1>7, <1>10

LEMMA AgainBegins ==
    ASSUME IsWorld(world), NEW a, a.do = "call" => MayForce(world, a.set), Again(a)
    PROVE  Begun' /\ world'.use = world.use /\ \A n : MayForce(world', n) <=> MayForce(world, n)
<1>1. world' = [world EXCEPT !.action = a]
  BY DEF Again
<1>2. /\ IsWorld(world') /\ world'.use = world.use
      /\ world'.now = world.now /\ world'.tables = world.tables
      /\ world'.board = world.board /\ world'.since = world.since
      /\ FirstWakes(world') = FirstWakes(world) /\ InFlight(world') = InFlight(world)
      /\ \A n : MayForce(world', n) <=> MayForce(world, n)
  BY <1>1, WorldForced
<1>3. /\ tables' = world.tables /\ board' = world.board /\ since' = world.since /\ clock' = world.now
      /\ events' = PushAll({}, 0, FirstWakes(world) \o InFlight(world))
      /\ pushed' = Len(FirstWakes(world) \o InFlight(world))
      /\ phase' = "action"
  BY DEF Again
<1> QED
  BY <1>2, <1>3 DEF Begun

(* The options still to be tried may be forced. *)
Tries == [do : {"call", "hold"}, st : {world.station}, set : NamesIn(world.tables) \cup {NoSet}]
TodoInv ==
    /\ stage = "options" => phase = "action"
    /\ todo \in Seq(Tries)
    /\ \A k \in 1..Len(todo) : todo[k].do = "call" => MayForce(world, todo[k].set)
RunInv == ApartInv /\ WakeInv /\ TodoInv

LEMMA NamesFinite ==
    ASSUME NEW tbl \in Tables
    PROVE  IsFiniteSet(NamesIn(tbl))
<1> DEFINE of(b) == {<<b, tbl[b][i].key>> : i \in DOMAIN tbl[b]}
           f == [b \in Brackets |-> of(b)]
           all == {f[b] : b \in Brackets}
<1>1. NamesIn(tbl) = UNION all
  BY DEF NamesIn
<1>2. ASSUME NEW b \in Brackets PROVE IsFiniteSet(of(b))
  <2> DEFINE n == Len(tbl[b])
             g == [i \in 1..n |-> <<b, tbl[b][i].key>>]
             N == 1..n
  <2>1. n \in Nat /\ DOMAIN tbl[b] = 1..n
    BY DEF Tables
  <2>2. of(b) = {g[i] : i \in N}
    BY <2>1
  <2>3. IsFiniteSet(N)
    BY <2>1, FS_Interval
  <2> HIDE DEF of, g, N
  <2> QED
    BY <2>2, <2>3, ImageFinite
<1>3. IsFiniteSet(all)
  <2> HIDE DEF f
  <2> QED
    BY SimulationAssumption, ImageFinite
<1>4. \A T \in all : IsFiniteSet(T)
  <2> HIDE DEF of
  <2> QED
    BY <1>2
<1> HIDE DEF all
<1> QED
  BY <1>1, <1>3, <1>4, FS_UNION

LEMMA RankedAre ==
    ASSUME NEW S, IsFiniteSet(S), NEW s \in Rankings(Scored(S))
    PROVE  /\ DOMAIN s = 1..Cardinality(Scored(S)) /\ Len(s) = Cardinality(Scored(S))
           /\ \A k \in DOMAIN s : s[k].n \in S
<1>1. s \in [1..Cardinality(Scored(S)) -> Scored(S)]
  BY DEF Rankings, SetToSeqs
<1>2. ASSUME NEW k \in DOMAIN s PROVE s[k].n \in S
  <2>1. s[k] \in Scored(S)
    BY <1>1
  <2> QED
    BY <2>1 DEF Scored
<1>3. Cardinality(Scored(S)) \in Nat
  <2> DEFINE f == [n \in S |-> [score |-> Score(n), n |-> n]]
  <2>1. Scored(S) = {f[n] : n \in S}
    BY DEF Scored
  <2> HIDE DEF f
  <2>2. IsFiniteSet(Scored(S))
    BY <2>1, ImageFinite
  <2> QED
    BY <2>2, FS_CardinalityType
<1> QED
  BY <1>1, <1>2, <1>3

(* What the ranking puts first may be forced. *)
LEMMA OptionsTried ==
    ASSUME RunInv, ListOptions
    PROVE  TodoInv'
<1> DEFINE S == On(world.station, CallableNow)
           T == Tries
<1>1. ApartInv /\ phase = "action" /\ tables = world.tables /\ board = world.board
  BY DEF RunInv, TodoInv, ListOptions, ApartInv
<1>2. \A n \in S : MayForce(world, n)
  <2> TAKE n \in S
  <2>1. n \in Candidates(clock)
    BY DEF On, CallableNow
  <2>2. /\ n \in Names /\ AllOccupied(Named(n))
        /\ \A m \in Underway \ {n} : Clash(world, tables, m, n) = {}
    BY <1>1, <2>1, CandidatesApart
  <2> QED
    BY <1>1, <2>2 DEF MayForce, Names, Named, Underway
<1>3. IsFiniteSet(S)
  <2>1. IsFiniteSet(Names)
    BY <1>1, NamesFinite DEF ApartInv, Names
  <2>2. S \in SUBSET Names
    BY DEF On, CallableNow, Candidates
  <2> QED
    BY <2>1, <2>2, FS_Subset
<1> DEFINE R == Rankings(Scored(S))
           holding(o) == IF world.samples /\ o # <<>>
                         THEN <<[do |-> "hold", st |-> world.station, set |-> NoSet]>> ELSE <<>>
           count(o) == IF Len(o) < TopK THEN Len(o) ELSE TopK
           calls(o) == [k \in 1..count(o) |-> [do |-> "call", st |-> world.station, set |-> o[k]]]
           listed(s) == [k \in DOMAIN s |-> s[k].n]
<1>4. UNCHANGED vars /\ stage' = "run" /\ \E o \in {listed(s) : s \in R} : todo' = calls(o) \o holding(o)
  BY DEF ListOptions
<1>5. PICK s \in R : todo' = calls(listed(s)) \o holding(listed(s))
  <2> HIDE DEF R, calls, holding, listed
  <2> QED
    BY <1>4
<1> DEFINE o == listed(s)
           n == count(o)
<1>6. Len(o) \in Nat /\ \A k \in 1..Len(o) : MayForce(world, o[k])
  <2>1. /\ DOMAIN s = 1..Cardinality(Scored(S)) /\ Cardinality(Scored(S)) \in Nat
        /\ \A k \in DOMAIN s : s[k].n \in S
    <3> HIDE DEF S
    <3> QED
      BY <1>3, RankedAre
  <2> HIDE DEF S, R
  <2> QED
    BY <1>2, <2>1
<1> HIDE DEF o
<1>7. n \in Nat /\ \A k \in 1..n : MayForce(world, o[k])
  BY <1>6, ProjectionsAssumption
<1> DEFINE called == calls(o)
           held == holding(o)
<1>8. called \in Seq(T) /\ Len(called) = n /\ \A k \in 1..n : called[k].set = o[k]
  <2>1. /\ called = [k \in 1..n |-> called[k]]
        /\ \A k \in 1..n : called[k] = [do |-> "call", st |-> world.station, set |-> o[k]]
    <3> HIDE DEF n
    <3>1. called = [k \in 1..n |-> [do |-> "call", st |-> world.station, set |-> o[k]]]
      BY DEF n
    <3> HIDE DEF called
    <3> QED
      BY <3>1
  <2> HIDE DEF n, called
  <2>2. \A k \in 1..n : called[k] \in T /\ called[k].set = o[k]
    BY <1>7, <2>1 DEF MayForce, Tries
  <2> HIDE DEF T
  <2> QED
    BY <1>7, <2>1, <2>2, ListIn
<1>9. held \in Seq(T) /\ \A k \in DOMAIN held : held[k].do = "hold"
  <2> DEFINE hold1 == [do |-> "hold", st |-> world.station, set |-> NoSet]
  <2>1. hold1 \in T /\ hold1.do = "hold"
    BY DEF Tries
  <2>2. held = <<hold1>> \/ held = <<>>
    OBVIOUS
  <2> HIDE DEF held, hold1, T
  <2>3. <<hold1>> \in Seq(T) /\ \A k \in DOMAIN <<hold1>> : <<hold1>>[k].do = "hold"
    BY <2>1
  <2>4. <<>> \in Seq(T) /\ DOMAIN <<>> = {}
    OBVIOUS
  <2>5. CASE held = <<hold1>>
    BY <2>3, <2>5
  <2>6. CASE held = <<>>
    BY <2>4, <2>6
  <2> QED
    BY <2>2, <2>5, <2>6
<1> HIDE DEF n, T, called, held
<1>10. /\ todo' \in Seq(T)
       /\ \A k \in 1..Len(todo') : todo'[k].do = "call" => MayForce(world, todo'[k].set)
  <2>1. todo' = called \o held
    BY <1>5 DEF o, called, held
  <2>2. /\ todo' \in Seq(T)
        /\ \A k \in 1..Len(todo') :
              \/ k \in 1..n /\ todo'[k] = called[k]
              \/ \E i \in DOMAIN held : todo'[k] = held[i]
    BY <1>8, <1>9, <2>1
  <2> QED
    BY <1>7, <1>8, <1>9, <2>2
<1>11. world' = world
  BY <1>4 DEF vars
<1> QED
  BY <1>4, <1>10, <1>11 DEF TodoInv, Tries, T, MayForce

LEMMA WorldStays == Next => world' = world
  BY DEF Next, ForceCall, ForceHold, Walkover, NoWalkover, Assign, NoAssignment, Pop, End

LEMMA RunsBegin == PInit => RunInv
<1> SUFFICES ASSUME PInit PROVE RunInv
  OBVIOUS
<1>1. Init /\ todo = <<>>
  BY DEF PInit
<1>2. Begun
  BY <1>1, InitBegins
<1>3. ApartInv /\ WakeInv /\ phase = "action"
  BY <1>2, BegunApart, BegunWakes DEF Begun
<1> QED
  BY <1>1, <1>3 DEF RunInv, TodoInv

LEMMA RunsGoOn == RunInv /\ [PNext]_allVars => RunInv'
<1> SUFFICES ASSUME RunInv, [PNext]_allVars PROVE RunInv'
  OBVIOUS
<1>1. ApartInv /\ WakeInv /\ TodoInv
  BY DEF RunInv
<1>2. [Next]_vars => (ApartInv /\ WakeInv)'
  BY <1>1, NextApart, NextWakes
<1>3. UNCHANGED <<vars, todo>> /\ (stage' = "options" => stage = "options") => RunInv'
  <2> SUFFICES ASSUME UNCHANGED <<vars, todo>>, stage' = "options" => stage = "options" PROVE RunInv'
    OBVIOUS
  <2>1. UNCHANGED vars /\ UNCHANGED <<world, phase, todo>>
    BY DEF vars
  <2> QED
    BY <1>1, <1>2, <2>1 DEF RunInv, TodoInv, Tries, MayForce
<1>4. CASE ListOptions
  <2>1. UNCHANGED vars
    BY <1>4 DEF ListOptions
  <2> QED
    BY <1>2, <1>4, <2>1, OptionsTried DEF RunInv
<1>5. CASE Step
  <2>1. Next /\ UNCHANGED todo /\ stage' = "run"
    BY <1>5 DEF Step, rolloutVars
  <2>2. world' = world
    BY <2>1, WorldStays
  <2> QED
    BY <1>1, <1>2, <2>1, <2>2 DEF RunInv, TodoInv, Tries, MayForce
<1>6. CASE Evaluated
  <2>1. CASE todo = <<>>
    <3>1. UNCHANGED <<vars, todo>> /\ stage' = "ranked"
      BY <1>6, <2>1 DEF Evaluated
    <3> QED
      BY <1>3, <3>1
  <2>2. CASE todo # <<>>
    <3> DEFINE a == Head(todo)
               T == Tries
    <3>1. Again(a) /\ todo' = Tail(todo) /\ stage' = "run"
      BY <1>6, <2>2 DEF Evaluated
    <3>2. todo \in Seq(T) /\ todo # <<>>
      BY <1>1, <2>2 DEF TodoInv
    <3>3. /\ a = todo[1] /\ Len(todo) \in Nat /\ 1 \in 1..Len(todo)
          /\ Tail(todo) \in Seq(T) /\ Len(Tail(todo)) = Len(todo) - 1
          /\ \A k \in 1..(Len(todo) - 1) : Tail(todo)[k] = todo[k + 1]
      <4> HIDE DEF T
      <4> QED
        BY <3>2
    <3>4. a.do = "call" => MayForce(world, a.set)
      BY <1>1, <3>3 DEF TodoInv
    <3>5. /\ Begun' /\ \A n : MayForce(world', n) <=> MayForce(world, n)
          /\ world'.station = world.station /\ world'.tables = world.tables
      <4> HIDE DEF a
      <4>1. world' = [world EXCEPT !.action = a] /\ IsWorld(world)
        BY <1>1, <3>1 DEF Again, ApartInv
      <4>2. world'.station = world.station /\ world'.tables = world.tables
        BY <4>1 DEF IsWorld
      <4> QED
        BY <3>1, <3>4, <4>1, <4>2, AgainBegins
    <3>6. (ApartInv /\ WakeInv)'
      BY <3>5, BegunApart, BegunWakes, PTL
    <3>7. \A k \in 1..Len(todo') : todo'[k].do = "call" => MayForce(world', todo'[k].set)
      <4> SUFFICES ASSUME NEW k \in 1..(Len(todo) - 1), todo[k + 1].do = "call"
                   PROVE  MayForce(world', todo[k + 1].set)
        BY <3>1, <3>3
      <4>1. k + 1 \in 1..Len(todo)
        BY <3>3
      <4> QED
        BY <1>1, <3>5, <4>1 DEF TodoInv
    <3>8. todo' \in Seq(Tries)'
      BY <3>1, <3>3, <3>5 DEF Tries
    <3> QED
      BY <3>1, <3>6, <3>7, <3>8 DEF RunInv, TodoInv, MayForce
  <2> QED
    BY <2>1, <2>2
<1>7. CASE Install
  BY <1>3, <1>7 DEF Install, rolloutVars
<1>8. CASE \E b \in Brackets : Fetch(b)
  BY <1>3, <1>8 DEF Fetch, rolloutVars
<1>9. CASE TimePasses
  BY <1>3, <1>9 DEF TimePasses, rolloutVars
<1>10. CASE UNCHANGED allVars
  BY <1>3, <1>10 DEF allVars, rolloutVars
<1> QED
  BY <1>4, <1>5, <1>6, <1>7, <1>8, <1>9, <1>10 DEF PNext

(* The same of a rollout (rollout_rankings, RolloutRanker::rank): whichever *)
(* options of a station are evaluated one after another, each forced on the *)
(* snapshot anew, no projection has a player in two places.                *)
THEOREM RolloutsStayApart == PSpec => []OneSetAtATime
<1>1. RunInv => OneSetAtATime
  BY DEF RunInv, ApartInv, OneSetAtATime
<1> QED
  BY <1>1, RunsBegin, RunsGoOn, PTL DEF PSpec

(* Nor does any of them miss a call or a walkover.                         *)
THEOREM NothingWaitsInRollouts == PSpec => []NothingMissed
<1>1. RunInv => NothingMissed
  BY NothingIsMissed DEF RunInv
<1> QED
  BY <1>1, RunsBegin, RunsGoOn, PTL DEF PSpec

-----------------------------------------------------------------------------
(* A rehearsal shows what the recorded projection had. *)

Frames == [at : Nat, sets : Seq(SimSets)]
InTurn(list) == \A i, j \in 1..Len(list) : i <= j => list[i].at <= list[j].at

(* The first m frames, of each instant the last. *)
Merged(out, list, m) ==
    /\ out \in Seq(Frames)
    /\ \A i, j \in 1..Len(out) : i < j => out[i].at < out[j].at
    /\ \A k \in 1..Len(out) : \E i \in 1..m : out[k] = list[i] /\ \A j \in 1..m : i < j => list[i].at < list[j].at
    /\ \A i \in 1..m : \E k \in 1..Len(out) : out[k].at = list[i].at
    /\ m > 0 => Len(out) > 0 /\ out[Len(out)] = list[m]

Merge(out, f) ==
    IF out # <<>> /\ out[Len(out)].at = f.at THEN [out EXCEPT ![Len(out)] = f] ELSE Append(out, f)

LEMMA MergeIn == ASSUME NEW out \in Seq(Frames), NEW f \in Frames PROVE Merge(out, f) \in Seq(Frames)
<1>1. Append(out, f) \in Seq(Frames)
  BY DEF Frames
<1>2. out # <<>> => [out EXCEPT ![Len(out)] = f] \in Seq(Frames)
  <2> SUFFICES ASSUME out # <<>> PROVE [out EXCEPT ![Len(out)] = f] \in Seq(Frames)
    OBVIOUS
  <2> DEFINE w == [out EXCEPT ![Len(out)] = f]
             n == Len(out)
  <2>1. n \in Nat /\ w = [k \in 1..n |-> w[k]] /\ \A k \in 1..n : w[k] \in Frames
    OBVIOUS
  <2> HIDE DEF w, n
  <2>2. w \in Seq(Frames)
    BY <2>1, ListIn
  <2> QED
    BY <2>2 DEF w
<1> QED
  BY <1>1, <1>2 DEF Merge

LEMMA MergedOn ==
    ASSUME NEW list \in Seq(Frames), InTurn(list), NEW m \in 1..Len(list), NEW out, Merged(out, list, m - 1)
    PROVE  Merged(Merge(out, list[m]), list, m)
<1> DEFINE f == list[m]
           L == Len(out)
           new == Merge(out, f)
<1>0. /\ out \in Seq(Frames) /\ L \in Nat
      /\ \A i, j \in 1..L : i < j => out[i].at < out[j].at
      /\ m - 1 > 0 => L > 0 /\ out[L] = list[m - 1]
  BY DEF Merged
<1>1. /\ f \in Frames /\ f.at \in Nat /\ \A i \in 1..m : list[i] \in Frames /\ list[i].at \in Nat /\ list[i].at <= f.at
      /\ out \in Seq(Frames) /\ L \in Nat /\ \A k \in 1..L : out[k] \in Frames /\ out[k].at \in Nat
  <2>1. \A x \in Frames : x.at \in Nat
    BY DEF Frames
  <2>2. \A i \in 1..m : i \in 1..Len(list) /\ list[i] \in Frames /\ list[i].at <= list[m].at
    <3> TAKE i \in 1..m
    <3>1. i \in 1..Len(list) /\ i <= m
      OBVIOUS
    <3> QED
      BY <3>1 DEF InTurn
  <2>3. \A k \in 1..L : out[k] \in Frames
    BY <1>0
  <2> QED
    BY <1>0, <2>1, <2>2, <2>3
<1>2. new \in Seq(Frames)
  BY <1>1, MergeIn
<1>3. CASE out # <<>> /\ out[L].at = f.at
  <2>1. /\ L >= 1 /\ Len(new) = L /\ new[L] = f /\ \A k \in 1..L : new[k].at = out[k].at
        /\ \A k \in 1..L : k # L => new[k] = out[k]
    BY <1>1, <1>3 DEF Merge
  <2> HIDE DEF new
  <2>2. ASSUME NEW k \in 1..L
        PROVE  \E i \in 1..m : new[k] = list[i] /\ \A j \in 1..m : i < j => list[i].at < list[j].at
    <3>1. CASE k = L
      BY <2>1, <3>1
    <3>2. CASE k # L
      <4>1. PICK i \in 1..(m - 1) : out[k] = list[i] /\ \A j \in 1..(m - 1) : i < j => list[i].at < list[j].at
        BY DEF Merged
      <4>2. list[i].at < list[m].at
        <5>1. k < L /\ L \in 1..L
          BY <1>0, <2>1, <3>2
        <5>2. out[k].at < out[L].at
          BY <1>0, <5>1
        <5> QED
          BY <1>3, <4>1, <5>2
      <4>3. \A j \in 1..m : i < j => list[i].at < list[j].at
        <5> TAKE j \in 1..m
        <5>1. j = m \/ j \in 1..(m - 1)
          OBVIOUS
        <5> QED
          BY <4>1, <4>2, <5>1
      <4> QED
        BY <2>1, <3>2, <4>1, <4>3
    <3> QED
      BY <3>1, <3>2
  <2>3. ASSUME NEW i \in 1..m PROVE \E k \in 1..L : new[k].at = list[i].at
    <3>1. CASE i = m
      BY <2>1, <3>1
    <3>2. CASE i # m
      <4>1. i \in 1..(m - 1)
        BY <3>2
      <4> QED
        BY <2>1, <4>1 DEF Merged
    <3> QED
      BY <3>1, <3>2
  <2>4. \A i, j \in 1..L : i < j => new[i].at < new[j].at
    BY <2>1 DEF Merged
  <2> QED
    BY <1>2, <2>1, <2>2, <2>3, <2>4 DEF Merged, new
<1>4. CASE ~(out # <<>> /\ out[L].at = f.at)
  <2>1. new = Append(out, f)
    BY <1>4 DEF Merge
  <2>2. Len(new) = L + 1 /\ new[L + 1] = f /\ \A k \in 1..L : new[k] = out[k]
    BY <1>1, <2>1
  <2> HIDE DEF new
  <2>3. ASSUME NEW k \in 1..L PROVE out[k].at < f.at
    <3>1. m - 1 > 0
      <4>1. PICK i \in 1..(m - 1) : out[k] = list[i]
        BY DEF Merged
      <4> QED
        BY <4>1
    <3>2. out[L] = list[m - 1] /\ out # <<>> /\ L \in 1..L
      BY <1>1, <3>1 DEF Merged
    <3>3. out[L].at < f.at
      <4>1. out[L].at # f.at
        BY <1>4, <3>2
      <4>2. list[m - 1].at <= f.at /\ list[m - 1].at \in Nat
        BY <1>1, <3>1
      <4> QED
        BY <1>1, <3>2, <4>1, <4>2
    <3>4. k # L => out[k].at < out[L].at
      <4>1. k # L => k < L
        BY <1>0
      <4> QED
        BY <1>0, <3>2, <4>1
    <3> QED
      BY <1>1, <3>2, <3>3, <3>4
  <2>4. \A i, j \in 1..Len(new) : i < j => new[i].at < new[j].at
    <3> TAKE i, j \in 1..Len(new)
    <3>1. i < j => i \in 1..L /\ (j = L + 1 \/ j \in 1..L)
      <4>1. i \in 1..(L + 1) /\ j \in 1..(L + 1)
        BY <2>2
      <4> QED
        BY <1>0, <4>1
    <3>2. j \in 1..L /\ i \in 1..L /\ i < j => out[i].at < out[j].at
      BY <1>0
    <3> QED
      BY <2>2, <2>3, <3>1, <3>2
  <2>5. ASSUME NEW k \in 1..Len(new)
        PROVE  \E i \in 1..m : new[k] = list[i] /\ \A j \in 1..m : i < j => list[i].at < list[j].at
    <3>1. CASE k = L + 1
      BY <2>2, <3>1
    <3>2. CASE k # L + 1
      <4>0. k \in 1..L
        BY <1>1, <2>2, <3>2
      <4>1. PICK i \in 1..(m - 1) : out[k] = list[i] /\ \A j \in 1..(m - 1) : i < j => list[i].at < list[j].at
        BY <4>0 DEF Merged
      <4>2. list[i].at < list[m].at
        BY <2>3, <4>0, <4>1
      <4>3. \A j \in 1..m : i < j => list[i].at < list[j].at
        <5> TAKE j \in 1..m
        <5>1. j = m \/ j \in 1..(m - 1)
          OBVIOUS
        <5> QED
          BY <4>1, <4>2, <5>1
      <4> QED
        BY <2>2, <4>0, <4>1, <4>3
    <3> QED
      BY <3>1, <3>2
  <2>6. ASSUME NEW i \in 1..m PROVE \E k \in 1..Len(new) : new[k].at = list[i].at
    <3>1. CASE i = m
      <4>1. L + 1 \in 1..Len(new)
        BY <1>1, <2>2
      <4> QED
        BY <2>2, <3>1, <4>1
    <3>2. CASE i # m
      <4>1. i \in 1..(m - 1)
        BY <3>2
      <4>2. PICK k \in 1..L : out[k].at = list[i].at
        BY <4>1 DEF Merged
      <4>3. k \in 1..Len(new)
        BY <1>1, <2>2
      <4> QED
        BY <2>2, <4>2, <4>3
    <3> QED
      BY <3>1, <3>2
  <2>7. Len(new) > 0 /\ new[Len(new)] = list[m]
    BY <1>1, <2>2
  <2> QED
    BY <1>2, <2>4, <2>5, <2>6, <2>7 DEF Merged, new
<1> QED
  BY <1>3, <1>4

LEMMA CoalescedIs ==
    ASSUME NEW list \in Seq(Frames), InTurn(list)
    PROVE  Merged(Coalesced(list), list, Len(list))
<1> DEFINE n == Len(list)
           V == Seq(Frames)
           F == [x \in (1..n) \X V |-> Merge(x[2], list[x[1]])]
           Body(h) == [u \in SUBSET DOMAIN list |-> IF u = {} THEN <<>> ELSE Merge(h[u \ {Max(u)}], list[Max(u)])]
           c == CHOOSE h : h = Body(h)
<1>1. <<>> \in V /\ n \in Nat /\ DOMAIN list = 1..n /\ \A k \in 1..n : list[k] \in Frames
  OBVIOUS
<1>2. \A k \in 1..n, v \in V : Merge(v, list[k]) \in V
  BY <1>1, MergeIn
<1>3. StaysIn(F, 1..n, V)
  <2> HIDE DEF V, n
  <2> QED
    BY <1>2 DEF StaysIn
<1>4. PICK h : FoldOver(h, F, <<>>, 1..n, Tops(n), V)
  <2> HIDE DEF F, n, V
  <2> QED
    BY <1>1, <1>3, LeftFold
<1>5. h = Body(h)
  <2>1. ASSUME NEW u \in SUBSET (1..n), u # {}
        PROVE  F[<<Tops(n)[u], h[u \ {Tops(n)[u]}]>>] = Merge(h[u \ {Max(u)}], list[Max(u)])
    <3>1. Tops(n)[u] \in 1..n /\ u \ {Tops(n)[u]} \in SUBSET (1..n) /\ Tops(n)[u] = Max(u)
      BY <1>1, <2>1, TopsPick DEF Tops
    <3>2. h[u \ {Tops(n)[u]}] \in V
      <4> HIDE DEF V, F, n
      <4> QED
        BY <1>4, <3>1 DEF FoldOver
    <3> HIDE DEF n, V
    <3> QED
      BY <3>1, <3>2
  <2> HIDE DEF F, n, V
  <2> QED
    BY <1>1, <1>4, <2>1 DEF FoldOver
<1>6. c = Body(c)
  <2> HIDE DEF Body
  <2> QED
    BY <1>5
<1>7. Coalesced(list) = c[1..n]
  <2>1. Coalesced(list) = c[DOMAIN list]
    BY DEF Coalesced, FoldLeft, MapThenFoldSet, Merge
  <2> HIDE DEF c, n
  <2> QED
    BY <1>1, <2>1
<1> HIDE DEF c
<1>8. c[1..0] = <<>>
  <2>1. 1..0 = {}
    OBVIOUS
  <2> QED
    BY <1>6, <2>1
<1>9. ASSUME NEW k \in 1..n PROVE c[1..k] = Merge(c[1..(k - 1)], list[k])
  <2>1. (1..k) \in SUBSET (1..n) /\ 1..k # {} /\ Max(1..k) = k /\ (1..k) \ {k} = 1..(k - 1)
    <3> HIDE DEF n
    <3> QED
      BY <1>1, Uptos
  <2>2. c[1..k] = Body(c)[1..k]
    BY <1>6
  <2> HIDE DEF n
  <2> QED
    BY <1>1, <2>1, <2>2
<1> DEFINE B == {k \in 0..n : Merged(c[1..k], list, k)}
<1>10. 0 \in B
  <2>1. Merged(<<>>, list, 0)
    BY DEF Merged
  <2>2. 0 \in 0..n
    BY <1>1
  <2> QED
    BY <1>8, <2>1, <2>2
<1>11. ASSUME NEW k \in 1..n, k - 1 \in B PROVE k \in B
  <2>1. Merged(c[1..(k - 1)], list, k - 1)
    BY <1>11
  <2>2. Merged(Merge(c[1..(k - 1)], list[k]), list, k)
    BY <2>1, MergedOn
  <2> QED
    BY <1>9, <2>2
<1>12. n \in B
  <2> HIDE DEF B, n
  <2>1. n \in 0..n
    BY <1>1
  <2> QED
    BY <1>1, <1>10, <1>11, <2>1, Upwards
<1> QED
  BY <1>7, <1>12

LEMMA GreatestIs ==
    ASSUME NEW S \in SUBSET Int, NEW g \in S, \A y \in S : y <= g, NEW default
    PROVE  Greatest(S, default) = g
<1>1. \A x \in S : (\A y \in S : y <= x) => x = g
  <2> TAKE x \in S
  <2>1. x \in Int /\ g \in Int
    OBVIOUS
  <2> QED
    BY <2>1
<1> QED
  BY <1>1 DEF Greatest

LEMMA FramesAre ==
    ASSUME NEW list \in Seq(Frames)
    PROVE  /\ Len(list) \in Nat /\ DOMAIN list = 1..Len(list)
           /\ \A k \in 1..Len(list) : list[k] \in Frames /\ list[k].at \in Nat
<1>1. \A x \in Frames : x.at \in Nat
  BY DEF Frames
<1> QED
  BY <1>1

(* A later moment is never shown sooner. *)
LEMMA OffsetGrows ==
    ASSUME IsWorld(world), NEW x \in Nat, NEW y \in Nat, x <= y
    PROVE  Offset(x) \in Int /\ Offset(y) \in Int /\ Offset(x) <= Offset(y)
<1> DEFINE s == world.speed
           a == x - world.now
           c == y - world.now
<1>1. s \in Nat /\ s > 0 /\ world.now \in Nat
  BY DEF IsWorld
<1>2. a \in Int /\ c \in Int /\ a <= c /\ Offset(x) = a \div s /\ Offset(y) = c \div s
  BY <1>1 DEF Offset
<1> HIDE DEF a, c, s
<1>3. /\ a \div s \in Int /\ c \div s \in Int
      /\ a = s * (a \div s) + (a % s) /\ a % s \in 0..(s - 1)
      /\ c = s * (c \div s) + (c % s) /\ c % s \in 0..(s - 1)
  BY <1>1, <1>2
<1>4. a \div s <= c \div s
  <2> DEFINE q == a \div s
             r == c \div s
             u == a % s
             v == c % s
  <2>1. /\ q \in Int /\ r \in Int /\ u \in Int /\ v \in Int /\ 0 <= u /\ v < s
        /\ s * q + u <= s * r + v
    BY <1>1, <1>2, <1>3
  <2> HIDE DEF q, r, u, v
  <2>2. q > r => s * q >= s * r + s
    <3> SUFFICES ASSUME q > r PROVE s * q >= s * r + s
      OBVIOUS
    <3>1. PICK d \in Nat : q = r + 1 + d
      <4>1. q - r - 1 \in Nat
        BY <2>1
      <4> QED
        BY <2>1, <4>1
    <3>2. s * q = s * r + s + s * d /\ s * d >= 0
      BY <1>1, <2>1, <3>1
    <3> QED
      BY <1>1, <2>1, <3>1, <3>2
  <2>3. s * q \in Int /\ s * r \in Int
    BY <1>1, <2>1
  <2>4. q <= r
    BY <1>1, <2>1, <2>2, <2>3
  <2> QED
    BY <2>4 DEF q, r
<1> QED
  BY <1>2, <1>3, <1>4

LEMMA DueIsPlayed ==
    ASSUME IsWorld(world), NEW b \in Brackets, frames[b] \in Seq(Frames), InTurn(frames[b]),
           NEW t \in Nat, timeline[b] = Script(b)
    PROVE  Due(b, t) = Scripted(Played(b, t))
<1> DEFINE list == frames[b]
           out == Coalesced(list)
           n == Len(list)
           L == Len(out)
           line == timeline[b]
           at(k) == Offset(list[k].at)
           reached == {k \in 1..n : at(k) <= t}
           due == {k \in DOMAIN line : line[k].offset <= t}
<1>1. /\ list \in Seq(Frames) /\ n \in Nat /\ DOMAIN list = 1..n /\ InTurn(list)
      /\ \A k \in 1..n : list[k] \in Frames /\ list[k].at \in Nat
  BY FramesAre
<1>2. /\ out \in Seq(Frames) /\ L \in Nat /\ DOMAIN out = 1..L
      /\ \A k \in 1..L : out[k] \in Frames /\ out[k].at \in Nat
  <2>1. out \in Seq(Frames)
    BY CoalescedIs DEF Merged
  <2> HIDE DEF out
  <2> QED
    BY <2>1, FramesAre
<1>3. /\ \A i, j \in 1..L : i < j => out[i].at < out[j].at
      /\ \A k \in 1..L : \E i \in 1..n : out[k] = list[i] /\ \A j \in 1..n : i < j => list[i].at < list[j].at
      /\ \A i \in 1..n : \E k \in 1..L : out[k].at = list[i].at
  <2>1. Merged(out, list, n)
    BY CoalescedIs
  <2> HIDE DEF out, list
  <2> QED
    BY <2>1 DEF Merged
<1> HIDE DEF out
<1>4. /\ line = <<[offset |-> 0, sets |-> Scripted(world.tables[b])]>>
               \o [k \in 1..L |-> [offset |-> Offset(out[k].at), sets |-> Scripted(out[k].sets)]]
  BY <1>2 DEF Script, out
<1> HIDE DEF line, list
<1>5. /\ DOMAIN line = 1..(L + 1) /\ line[1].offset = 0 /\ line[1].sets = Scripted(world.tables[b])
      /\ \A k \in 1..L : line[k + 1].offset = Offset(out[k].at) /\ line[k + 1].sets = Scripted(out[k].sets)
  <2> DEFINE later == [k \in 1..L |-> [offset |-> Offset(out[k].at), sets |-> Scripted(out[k].sets)]]
             first == [offset |-> 0, sets |-> Scripted(world.tables[b])]
  <2>1. Len(later) = L /\ \A k \in 1..L : /\ later[k].offset = Offset(out[k].at)
                                           /\ later[k].sets = Scripted(out[k].sets)
    BY <1>2
  <2>2. first.offset = 0 /\ first.sets = Scripted(world.tables[b]) /\ line = <<first>> \o later
    BY <1>4
  <2>3. later \in Seq({later[k] : k \in 1..L})
    <3>1. later = [k \in 1..L |-> later[k]] /\ \A k \in 1..L : later[k] \in {later[j] : j \in 1..L}
      OBVIOUS
    <3> HIDE DEF later
    <3> QED
      BY <1>2, <3>1, ListIn
  <2> HIDE DEF later, first, L
  <2>4. Len(later) = L /\ L \in Nat /\ line = <<first>> \o later
    BY <1>2, <2>1, <2>2
  <2>5. DOMAIN line = 1..(L + 1) /\ line[1] = first
    BY <2>3, <2>4
  <2>6. \A k \in 1..L : line[k + 1] = later[k]
    BY <2>3, <2>4
  <2> QED
    BY <2>1, <2>2, <2>5, <2>6
<1>6. Due(b, t) = line[Greatest(due, 1)].sets
  BY DEF Due, line
<1>7. Played(b, t) = IF reached = {} THEN world.tables[b] ELSE list[Greatest(reached, 0)].sets
  BY <1>1 DEF Played, list
<1>8. \A x, y \in Nat : x <= y => Offset(x) <= Offset(y) /\ Offset(x) \in Int
  BY OffsetGrows
<1>9. \A k \in 1..n : at(k) \in Int
  BY <1>1, <1>8
<1>10. due \in SUBSET Int
  BY <1>2, <1>5
<1>11. CASE reached = {}
  <2>1. ASSUME NEW k \in due PROVE k = 1
    <3> SUFFICES ASSUME k # 1 PROVE FALSE
      OBVIOUS
    <3>1. k - 1 \in 1..L /\ (k - 1) + 1 = k
      BY <1>2, <1>5, <2>1
    <3>2. PICK i \in 1..n : out[k - 1] = list[i]
      BY <1>3, <3>1
    <3>3. line[k].offset = at(i)
      BY <1>5, <3>1, <3>2
    <3>4. i \in reached
      BY <2>1, <3>3
    <3> QED
      BY <1>11, <3>4
  <2>2. 1 \in due
    BY <1>2, <1>5
  <2> HIDE DEF due
  <2>3. Greatest(due, 1) = 1
    BY <1>10, <2>1, <2>2, GreatestIs
  <2> QED
    BY <1>5, <1>6, <1>7, <1>11, <2>3
<1>12. CASE reached # {}
  <2>1. PICK g \in reached : \A k \in reached : k <= g
    <3>1. IsFiniteSet(reached) /\ \A k \in reached : k \in Nat
      <4>1. reached \in SUBSET (1..n) /\ IsFiniteSet(1..n)
        BY <1>1, FS_Interval
      <4> QED
        BY <4>1, FS_Subset
    <3> HIDE DEF reached
    <3> QED
      BY <1>12, <3>1, LastOf
  <2>2. g \in 1..n /\ at(g) <= t /\ \A k \in 1..n : k > g => at(k) > t
    BY <1>9, <2>1
  <2>3. Greatest(reached, 0) = g
    <3>1. reached \in SUBSET Int
      OBVIOUS
    <3> HIDE DEF reached
    <3> QED
      BY <2>1, <3>1, GreatestIs
  <2>4. \A k \in 1..n : k > g => list[k].at > list[g].at
    <3> SUFFICES ASSUME NEW k \in 1..n, k > g, list[k].at <= list[g].at PROVE FALSE
      BY <1>1, <2>2
    <3>1. at(k) <= at(g) /\ at(k) \in Int /\ at(g) \in Int
      BY <1>1, <1>8, <1>9, <2>2
    <3> QED
      BY <2>2, <3>1
  <2>5. PICK k \in 1..L : out[k].at = list[g].at
    BY <1>3, <2>2
  <2>6. PICK i \in 1..n : out[k] = list[i] /\ \A j \in 1..n : i < j => list[i].at < list[j].at
    BY <1>3
  <2>7. i = g
    <3>1. list[i].at = list[g].at /\ list[g].at \in Nat
      BY <1>1, <2>2, <2>5, <2>6
    <3>2. ~(i > g) /\ ~(i < g)
      BY <2>2, <2>4, <2>6, <3>1
    <3> QED
      BY <2>2, <3>2
  <2>8. k + 1 \in due
    BY <1>2, <1>5, <2>2, <2>5
  <2>9. ASSUME NEW j \in due PROVE j <= k + 1
    <3> SUFFICES ASSUME j > k + 1 PROVE FALSE
      BY <1>10
    <3>1. j - 1 \in 1..L /\ (j - 1) + 1 = j /\ j - 1 > k
      BY <1>2, <1>5, <2>9
    <3>2. out[j - 1].at > out[k].at
      BY <1>3, <3>1
    <3>3. PICK h \in 1..n : out[j - 1] = list[h]
      BY <1>3, <3>1
    <3>4. h > g
      <4>1. list[h].at > list[g].at
        BY <2>5, <3>2, <3>3
      <4>2. h <= g => list[h].at <= list[g].at
        BY <1>1, <2>2 DEF InTurn
      <4>3. list[h].at \in Nat /\ list[g].at \in Nat
        BY <1>1, <2>2
      <4> QED
        BY <2>2, <4>1, <4>2, <4>3
    <3>5. line[j].offset = at(h)
      BY <1>5, <3>1, <3>3
    <3> QED
      BY <1>9, <2>2, <2>9, <3>4, <3>5
  <2> HIDE DEF due
  <2>10. Greatest(due, 1) = k + 1
    BY <1>10, <2>8, <2>9, GreatestIs
  <2> QED
    BY <1>5, <1>6, <1>7, <1>12, <2>3, <2>6, <2>7, <2>10
<1> QED
  BY <1>11, <1>12

LEMMA ClockGoesOn ==
    ASSUME WakeInv, Next
    PROVE  clock <= clock'
<1>1. clock \in Nat
  BY DEF WakeInv
<1>2. CASE Pop
  <2>1. events # {} /\ clock' = Larger(clock, Earliest.at)
    BY <1>2 DEF Pop
  <2>2. Earliest.at \in Nat
    BY <2>1, EarliestIs DEF WakeInv, Timed
  <2> QED
    BY <1>1, <2>1, <2>2 DEF Larger
<1>3. CASE ~Pop
  <2>1. clock' = clock
    BY <1>3 DEF Next, ForceCall, ForceHold, Walkover, NoWalkover, Assign, NoAssignment, End
  <2> QED
    BY <1>1, <2>1
<1> QED
  BY <1>2, <1>3

(* The recording so far, and the script made of it. *)
Recorded(b) == InTurn(frames[b]) /\ \A i \in 1..Len(frames[b]) : frames[b][i].at <= clock
FramesInv ==
    /\ frames \in [Brackets -> Seq(Frames)]
    /\ world.use = "rehearsal" => \A b \in Brackets : Recorded(b)
    /\ stage = "paced" => world.use = "rehearsal" /\ timeline = [b \in Brackets |-> Script(b)]
    /\ elapsed \in Int /\ DOMAIN served = Brackets

LEMMA FramesBegin == PInit => FramesInv
<1> SUFFICES ASSUME PInit PROVE FramesInv
  OBVIOUS
<1>1. /\ frames = [b \in Brackets |-> <<>>] /\ elapsed = -1 /\ served = [b \in Brackets |-> <<>>]
      /\ stage # "paced"
  BY DEF PInit
<1>2. <<>> \in Seq(Frames) /\ Len(<<>>) = 0
  OBVIOUS
<1>3. frames \in [Brackets -> Seq(Frames)]
  BY <1>1, <1>2
<1>4. \A b \in Brackets : Recorded(b)
  BY <1>1, <1>2 DEF Recorded, InTurn
<1> QED
  BY <1>1, <1>3, <1>4 DEF FramesInv

(* A frame more. *)
LEMMA RecordedOn ==
    ASSUME NEW list \in Seq(Frames), InTurn(list), NEW t \in Nat, NEW u \in Nat, t <= u,
           \A i \in 1..Len(list) : list[i].at <= t, NEW f \in Frames, f.at = u
    PROVE  /\ Append(list, f) \in Seq(Frames) /\ InTurn(Append(list, f))
           /\ \A i \in 1..Len(Append(list, f)) : Append(list, f)[i].at <= u
<1> DEFINE n == Len(list)
           new == Append(list, f)
<1>1. n \in Nat /\ \A i \in 1..n : list[i].at \in Nat /\ list[i].at <= t
  BY FramesAre
<1>2. new \in Seq(Frames) /\ Len(new) = n + 1 /\ new[n + 1] = f /\ \A i \in 1..n : new[i] = list[i]
  <2> HIDE DEF n
  <2>1. n = Len(list) /\ n \in Nat
    BY <1>1 DEF n
  <2> QED
    BY <2>1
<1> HIDE DEF new, n
<1>3. \A i \in 1..(n + 1) : new[i].at <= u /\ new[i].at \in Nat
  <2> TAKE i \in 1..(n + 1)
  <2>1. i = n + 1 \/ i \in 1..n
    BY <1>1
  <2> QED
    BY <1>1, <1>2, <2>1
<1>4. \A i, j \in 1..(n + 1) : i <= j => new[i].at <= new[j].at
  <2> TAKE i, j \in 1..(n + 1)
  <2> HAVE i <= j
  <2>1. CASE j = n + 1
    BY <1>2, <1>3, <2>1
  <2>2. CASE j # n + 1
    <3>1. i \in 1..n /\ j \in 1..n
      BY <1>1, <2>2
    <3>2. list[i].at <= list[j].at
      BY <3>1 DEF InTurn, n
    <3> QED
      BY <1>2, <3>1, <3>2
  <2> QED
    BY <2>1, <2>2
<1> QED
  BY <1>2, <1>3, <1>4 DEF InTurn, new

LEMMA FramesGoOn ==
    ASSUME RunInv, FramesInv, [PNext]_allVars
    PROVE  FramesInv'
<1>1. ApartInv /\ WakeInv /\ clock \in Nat
  BY DEF RunInv, WakeInv
<1>2. (ApartInv /\ WakeInv)'
  BY RunsGoOn DEF RunInv
<1>3. CASE UNCHANGED <<world, frames, timeline, clock>> /\ (stage' = "paced" => stage = "paced")
           /\ elapsed' \in Int /\ DOMAIN served' = Brackets
  <2>1. \A b \in Brackets : Recorded(b)' <=> Recorded(b)
    BY <1>3 DEF Recorded, InTurn
  <2>2. \A b \in Brackets : Script(b)' = Script(b)
    BY <1>3 DEF Script, Scripted, Offset
  <2> QED
    BY <1>3, <2>1, <2>2 DEF FramesInv
<1>4. CASE ListOptions
  <2>1. UNCHANGED <<world, clock, frames, timeline, elapsed, served>> /\ stage' = "run"
    BY <1>4 DEF ListOptions, vars, rehearsalVars
  <2> QED
    BY <1>3, <2>1 DEF FramesInv
<1>5. CASE Step
  <2>1. Next /\ UNCHANGED <<timeline, elapsed, served>> /\ stage' = "run"
    BY <1>5 DEF Step
  <2>2. world' = world /\ clock <= clock' /\ clock' \in Nat
    BY <1>1, <1>2, <2>1, WorldStays, ClockGoesOn DEF WakeInv
  <2> DEFINE f(b) == [at |-> clock', sets |-> tables'[b]]
             on(b) == IF DoneIn(tables'[b]) = DoneIn(tables[b]) THEN frames[b] ELSE Append(frames[b], f(b))
  <2>3. CASE world.use # "rehearsal"
    <3>1. frames' = frames
      BY <1>5, <2>3 DEF Step
    <3> QED
      BY <2>1, <2>2, <2>3, <3>1 DEF FramesInv
  <2>4. CASE world.use = "rehearsal"
    <3>1. frames' = [b \in Brackets |-> on(b)]
      BY <1>5, <2>4 DEF Step
    <3>2. ASSUME NEW b \in Brackets
          PROVE  /\ on(b) \in Seq(Frames) /\ InTurn(on(b))
                 /\ \A i \in 1..Len(on(b)) : on(b)[i].at <= clock'
      <4>1. /\ frames[b] \in Seq(Frames) /\ InTurn(frames[b])
            /\ \A i \in 1..Len(frames[b]) : frames[b][i].at <= clock
        BY <2>4 DEF FramesInv, Recorded
      <4>2. f(b) \in Frames /\ f(b).at = clock'
        BY <1>2, <2>2 DEF ApartInv, Tables, Frames
      <4> HIDE DEF f
      <4>3. /\ Append(frames[b], f(b)) \in Seq(Frames) /\ InTurn(Append(frames[b], f(b)))
            /\ \A i \in 1..Len(Append(frames[b], f(b))) : Append(frames[b], f(b))[i].at <= clock'
        BY <1>1, <2>2, <4>1, <4>2, RecordedOn
      <4>4. \A i \in 1..Len(frames[b]) : frames[b][i].at <= clock'
        BY <1>1, <2>2, <4>1, FramesAre
      <4> QED
        BY <4>1, <4>3, <4>4
    <3> HIDE DEF on
    <3>3. frames' \in [Brackets -> Seq(Frames)]
      BY <3>1, <3>2
    <3>4. \A b \in Brackets : Recorded(b)'
      BY <3>1, <3>2 DEF Recorded
    <3> QED
      BY <2>1, <3>3, <3>4 DEF FramesInv
  <2> QED
    BY <2>3, <2>4
<1>6. CASE Evaluated
  <2>1. world.use = "rollout" /\ UNCHANGED <<frames, timeline, elapsed, served>> /\ stage = "run"
    BY <1>6 DEF Evaluated, rehearsalVars
  <2>2. CASE todo = <<>>
    <3>1. UNCHANGED <<world, clock>> /\ stage' = "ranked"
      BY <1>6, <2>2 DEF Evaluated, vars
    <3> QED
      BY <1>3, <2>1, <3>1 DEF FramesInv
  <2>3. CASE todo # <<>>
    <3>1. Again(Head(todo)) /\ stage' = "run"
      BY <1>6, <2>3 DEF Evaluated
    <3>2. world'.use = world.use
      BY <1>1, <3>1 DEF Again, ApartInv, IsWorld
    <3> QED
      BY <2>1, <3>1, <3>2 DEF FramesInv
  <2> QED
    BY <2>2, <2>3
<1>7. CASE Install
  <2>1. UNCHANGED <<world, clock, frames, elapsed, served>> /\ world.use = "rehearsal"
        /\ timeline' = [b \in Brackets |-> Script(b)]
    BY <1>7 DEF Install, vars
  <2>2. \A b \in Brackets : Recorded(b)' <=> Recorded(b)
    BY <2>1 DEF Recorded, InTurn
  <2>3. \A b \in Brackets : Script(b)' = Script(b)
    BY <2>1 DEF Script, Scripted, Offset
  <2> QED
    BY <2>1, <2>2, <2>3 DEF FramesInv
<1>8. CASE \E b \in Brackets : Fetch(b)
  <2>1. PICK b \in Brackets : Fetch(b)
    BY <1>8
  <2>2. UNCHANGED <<world, clock, frames, timeline, stage>> /\ elapsed' = Larger(elapsed, 0)
        /\ served' = [served EXCEPT ![b] = Due(b, elapsed')]
    BY <2>1 DEF Fetch, vars
  <2>3. elapsed' \in Int /\ DOMAIN served' = Brackets
    BY <2>2 DEF FramesInv, Larger
  <2> QED
    BY <1>3, <2>2, <2>3
<1>9. CASE TimePasses
  <2>1. UNCHANGED <<world, clock, frames, timeline, served, stage>> /\ elapsed' = elapsed + 1
    BY <1>9 DEF TimePasses, vars
  <2> QED
    BY <1>3, <2>1 DEF FramesInv
<1>10. CASE UNCHANGED allVars
  <2>1. UNCHANGED <<world, clock, frames, timeline, elapsed, served, stage>>
    BY <1>10 DEF allVars, vars, rehearsalVars
  <2> QED
    BY <1>3, <2>1 DEF FramesInv
<1> QED
  BY <1>4, <1>5, <1>6, <1>7, <1>8, <1>9, <1>10 DEF PNext

LEMMA FetchShows ==
    ASSUME RunInv, FramesInv, [PNext]_allVars, stage = "paced",
           NEW b \in Brackets, served'[b] # served[b]
    PROVE  served'[b] = Scripted(Played(b, elapsed'))
<1>1. PICK c \in Brackets : Fetch(c)
  BY DEF PNext, ListOptions, Step, Evaluated, Install, TimePasses, allVars, rehearsalVars
<1>2. elapsed' = Larger(elapsed, 0) /\ served' = [served EXCEPT ![c] = Due(c, elapsed')]
  BY <1>1 DEF Fetch
<1>3. c = b /\ served'[b] = Due(b, elapsed')
  BY <1>2 DEF FramesInv
<1>4. elapsed' \in Nat
  BY <1>2 DEF FramesInv, Larger
<1>5. /\ IsWorld(world) /\ frames[b] \in Seq(Frames) /\ InTurn(frames[b])
      /\ timeline[b] = Script(b)
  BY DEF RunInv, ApartInv, FramesInv, Recorded
<1>6. Due(b, elapsed') = Scripted(Played(b, elapsed'))
  BY <1>4, <1>5, DueIsPlayed
<1> QED
  BY <1>3, <1>6

(* Faithfulness of a rehearsal (install_rehearsal, coalesce, wall_offset,   *)
(* fetch_event_sets): at whatever speed, a fetch shows a bracket as the     *)
(* recorded projection had it when its clock was that far, with everything *)
(* of that instant and nothing of a later one.                             *)
THEOREM RehearsalIsTrue == PSpec => ServedAsPlayed
<1>1. RunInv /\ FramesInv /\ [PNext]_allVars =>
         [\A b \in Brackets : stage = "paced" /\ served'[b] # served[b] =>
             served'[b] = Scripted(Played(b, elapsed'))]_allVars
  BY FetchShows
<1>2. RunInv /\ FramesInv /\ [PNext]_allVars => FramesInv'
  BY FramesGoOn
<1> QED
  BY <1>1, <1>2, RunsBegin, RunsGoOn, FramesBegin, PTL DEF PSpec, ServedAsPlayed

-----------------------------------------------------------------------------
(* The search for the depths ends. *)

(* What a search of its dependents adds to a set's. *)
Taken(f, s, j) == [f[<<j, s>>] EXCEPT !.best = Larger(s.best, f[<<j, s>>].value)]
Below(f, s0, q) == FoldLeft(LAMBDA s, j : Taken(f, s, j), s0, q)
Walk(p, f, s0, q, Z) ==
    /\ p \in [0..Len(q) -> Z] /\ p[0] = s0
    /\ \A k \in 1..Len(q) : p[k] = Taken(f, p[k - 1], q[k])

LEMMA Walks ==
    ASSUME NEW f, NEW D, NEW q \in Seq(D), NEW Z, NEW s0 \in Z,
           \A j \in D, s \in Z : Taken(f, s, j) \in Z
    PROVE  \E p : Walk(p, f, s0, q, Z) /\ Below(f, s0, q) = p[Len(q)]
<1> DEFINE n == Len(q)
           F == [x \in (1..n) \X Z |-> Taken(f, x[2], q[x[1]])]
           Body(h) == [u \in SUBSET DOMAIN q |-> IF u = {} THEN s0 ELSE Taken(f, h[u \ {Max(u)}], q[Max(u)])]
           c == CHOOSE h : h = Body(h)
<1>1. n \in Nat /\ DOMAIN q = 1..n /\ \A k \in 1..n : q[k] \in D
  OBVIOUS
<1>2. \A k \in 1..n, v \in Z : Taken(f, v, q[k]) \in Z
  BY <1>1
<1>3. StaysIn(F, 1..n, Z)
  <2> HIDE DEF n
  <2> QED
    BY <1>2 DEF StaysIn
<1>4. PICK h : FoldOver(h, F, s0, 1..n, Tops(n), Z)
  <2> HIDE DEF F, n
  <2> QED
    BY <1>1, <1>3, LeftFold
<1>5. h = Body(h)
  <2>1. ASSUME NEW u \in SUBSET (1..n), u # {}
        PROVE  F[<<Tops(n)[u], h[u \ {Tops(n)[u]}]>>] = Taken(f, h[u \ {Max(u)}], q[Max(u)])
    <3>1. Tops(n)[u] \in 1..n /\ u \ {Tops(n)[u]} \in SUBSET (1..n) /\ Tops(n)[u] = Max(u)
      BY <1>1, <2>1, TopsPick DEF Tops
    <3>2. h[u \ {Tops(n)[u]}] \in Z
      <4> HIDE DEF F, n
      <4> QED
        BY <1>4, <3>1 DEF FoldOver
    <3> HIDE DEF n
    <3> QED
      BY <3>1, <3>2
  <2> HIDE DEF F, n
  <2> QED
    BY <1>1, <1>4, <2>1 DEF FoldOver
<1>6. c = Body(c)
  <2> HIDE DEF Body
  <2> QED
    BY <1>5
<1>7. Below(f, s0, q) = c[1..n]
  <2>1. Below(f, s0, q) = c[DOMAIN q]
    BY DEF Below, FoldLeft, MapThenFoldSet
  <2> HIDE DEF c, n
  <2> QED
    BY <1>1, <2>1
<1> HIDE DEF c
<1>8. c[1..0] = s0
  <2>1. 1..0 = {}
    OBVIOUS
  <2> QED
    BY <1>6, <2>1
<1>9. ASSUME NEW k \in 1..n PROVE c[1..k] = Taken(f, c[1..(k - 1)], q[k])
  <2>1. (1..k) \in SUBSET (1..n) /\ 1..k # {} /\ Max(1..k) = k /\ (1..k) \ {k} = 1..(k - 1)
    <3> HIDE DEF n
    <3> QED
      BY <1>1, Uptos
  <2>2. c[1..k] = Body(c)[1..k]
    BY <1>6
  <2> HIDE DEF n
  <2> QED
    BY <1>1, <2>1, <2>2
<1> DEFINE B == {k \in 0..n : c[1..k] \in Z}
<1>10. 0 \in B
  <2>2. 0 \in 0..n
    BY <1>1
  <2> QED
    BY <1>8, <2>2
<1>11. ASSUME NEW k \in 1..n, k - 1 \in B PROVE k \in B
  <2>1. c[1..(k - 1)] \in Z
    BY <1>11
  <2> HIDE DEF n
  <2> QED
    BY <1>2, <1>9, <2>1
<1>12. \A k \in 0..n : k \in B
  <2> HIDE DEF B, n
  <2> QED
    BY <1>1, <1>10, <1>11, Upwards
<1> DEFINE p == [k \in 0..n |-> c[1..k]]
<1>13. p \in [0..n -> Z] /\ p[0] = s0
  <2> HIDE DEF n
  <2>1. 0 \in 0..n
    BY <1>1
  <2> QED
    BY <1>8, <1>12, <2>1
<1>14. ASSUME NEW k \in 1..n PROVE p[k] = Taken(f, p[k - 1], q[k])
  <2>1. k \in 0..n /\ k - 1 \in 0..n
    BY <1>1
  <2>2. p[k] = c[1..k] /\ p[k - 1] = c[1..(k - 1)]
    <3> HIDE DEF n
    <3> QED
      BY <2>1
  <2> HIDE DEF p, n
  <2> QED
    BY <1>9, <2>2
<1>15. Below(f, s0, q) = p[n]
  <2> HIDE DEF n
  <2>1. n \in 0..n
    BY <1>1
  <2> QED
    BY <1>7, <2>1
<1> HIDE DEF p
<1>16. Walk(p, f, s0, q, Z)
  BY <1>13, <1>14 DEF Walk
<1> QED
  BY <1>15, <1>16

Alike(f, g, D, Z) == \A j \in D, s \in Z : Taken(g, s, j) \in Z /\ f[<<j, s>>] = g[<<j, s>>]

(* Two searches that agree where the walk goes walk the same way. *)
LEMMA WalksAgree ==
    ASSUME NEW f, NEW g, NEW D, NEW q \in Seq(D), NEW Z, NEW s0 \in Z,
           Alike(f, g, D, Z)
    PROVE  Below(f, s0, q) = Below(g, s0, q) /\ Below(g, s0, q) \in Z
<1>1. \A j \in D, s \in Z : Taken(f, s, j) = Taken(g, s, j)
  BY DEF Alike, Taken
<1>2. \A j \in D, s \in Z : Taken(f, s, j) \in Z /\ Taken(g, s, j) \in Z
  BY <1>1 DEF Alike
<1>3. PICK p : Walk(p, f, s0, q, Z) /\ Below(f, s0, q) = p[Len(q)]
  BY <1>2, Walks
<1>4. PICK r : Walk(r, g, s0, q, Z) /\ Below(g, s0, q) = r[Len(q)]
  BY <1>2, Walks
<1> DEFINE n == Len(q)
           B == {k \in 0..n : p[k] = r[k]}
<1>5. n \in Nat /\ \A k \in 1..n : q[k] \in D
  OBVIOUS
<1>6. 0 \in B
  BY <1>3, <1>4, <1>5 DEF Walk
<1>7. ASSUME NEW k \in 1..n, k - 1 \in B PROVE k \in B
  <2>1. p[k - 1] = r[k - 1] /\ k - 1 \in 0..n
    BY <1>7
  <2>2. p[k - 1] \in Z
    BY <1>3, <2>1 DEF Walk
  <2>3. p[k] = Taken(f, p[k - 1], q[k]) /\ r[k] = Taken(g, r[k - 1], q[k])
    BY <1>3, <1>4 DEF Walk
  <2>4. Taken(f, p[k - 1], q[k]) = Taken(g, p[k - 1], q[k])
    BY <1>1, <1>5, <2>2
  <2> HIDE DEF n
  <2> QED
    BY <1>5, <2>1, <2>3, <2>4
<1>8. \A k \in 0..n : k \in B
  <2> HIDE DEF B, n
  <2> QED
    BY <1>5, <1>6, <1>7, Upwards
<1>9. n \in 0..n /\ r[n] \in Z
  BY <1>4, <1>5 DEF Walk
<1> QED
  BY <1>3, <1>4, <1>8, <1>9

(* The places a search has not come to.  It never leaves one again. *)
New(st) == {x \in DOMAIN st.color : st.color[x] = "new"}
Inside(D, X) == {s \in Searches(D) : New(s) \subseteq X}

OneBelow(f, g, D, i, st) ==
    i \in New(st) => \A j \in D, s \in Inside(D, New(st) \ {i}) :
                        g[<<j, s>>] \in Inside(D, New(s)) /\ f[<<j, s>>] = g[<<j, s>>]

LEMMA LookedAt ==
    ASSUME NEW D, NEW down \in [D -> Seq(D)], NEW weight \in [D -> Nat],
           NEW i \in D, NEW st \in Searches(D), NEW f, NEW g, OneBelow(f, g, D, i, st)
    PROVE  /\ Looked(f, down, weight, i, st) = Looked(g, down, weight, i, st)
           /\ Looked(g, down, weight, i, st) \in Inside(D, New(st))
<1>1. /\ st.color \in [D -> {"new", "open", "done"}] /\ st.depth \in [D -> Nat]
      /\ st.value \in Nat /\ st.best \in Nat /\ st.cycles \in SUBSET D
      /\ st = [color |-> st.color, depth |-> st.depth, value |-> st.value, best |-> st.best,
               cycles |-> st.cycles]
  BY DEF Searches
<1>2. CASE st.color[i] = "done"
  <2> DEFINE r == [st EXCEPT !.value = st.depth[i]]
  <2>1. Looked(f, down, weight, i, st) = r /\ Looked(g, down, weight, i, st) = r
    BY <1>2 DEF Looked
  <2>2. r \in Searches(D) /\ r.color = st.color
    BY <1>1 DEF Searches
  <2> QED
    BY <2>1, <2>2 DEF Inside, New
<1>3. CASE st.color[i] = "open"
  <2> DEFINE r1 == [st EXCEPT !.value = 0]
             r == [st EXCEPT !.value = 0, !.cycles = @ \cup {i}]
  <2>1. Looked(f, down, weight, i, st) = r /\ Looked(g, down, weight, i, st) = r
    BY <1>3 DEF Looked
  <2>2. r \in Searches(D) /\ r.color = st.color
    <3>1. r1 \in Searches(D) /\ r1.color = st.color /\ r1.cycles = st.cycles
      BY <1>1 DEF Searches
    <3>2. r = [r1 EXCEPT !.cycles = st.cycles \cup {i}]
      OBVIOUS
    <3> HIDE DEF r1, r
    <3> QED
      BY <1>1, <3>1, <3>2 DEF Searches
  <2> QED
    BY <2>1, <2>2 DEF Inside, New
<1>4. CASE st.color[i] = "new"
  <2> DEFINE X == New(st) \ {i}
             Z == Inside(D, X)
             s0 == [st EXCEPT !.color[i] = "open", !.best = 0]
             q == down[i]
             done(b) == [b EXCEPT !.color[i] = "done", !.depth[i] = weight[i] + b.best,
                                  !.value = weight[i] + b.best, !.best = st.best]
  <2>1. i \in New(st) /\ q \in Seq(D) /\ weight[i] \in Nat
    BY <1>1, <1>4 DEF New
  <2>2. s0 \in Z
    <3>1. s0 \in Searches(D) /\ s0.color = [st.color EXCEPT ![i] = "open"]
      BY <1>1 DEF Searches
    <3>2. New(s0) \subseteq X
      BY <1>1, <3>1 DEF New
    <3> QED
      BY <3>1, <3>2 DEF Inside
  <2>3. ASSUME NEW j \in D, NEW s \in Z
        PROVE  Taken(g, s, j) \in Z /\ f[<<j, s>>] = g[<<j, s>>]
    <3>1. g[<<j, s>>] \in Inside(D, New(s)) /\ f[<<j, s>>] = g[<<j, s>>]
      BY <2>1, <2>3 DEF OneBelow
    <3> DEFINE v == g[<<j, s>>]
               r == [v EXCEPT !.best = Larger(s.best, v.value)]
    <3>2. v \in Searches(D) /\ New(v) \subseteq New(s) /\ New(s) \subseteq X /\ s \in Searches(D)
      BY <3>1 DEF Inside
    <3>3. r = Taken(g, s, j)
      BY DEF Taken
    <3> HIDE DEF v, X
    <3>4. r \in Searches(D) /\ r.color = v.color
      BY <3>2 DEF Searches, Larger
    <3>5. r \in Z
      BY <3>2, <3>4 DEF Inside, New
    <3> QED
      BY <3>1, <3>3, <3>5
  <2>4. Below(f, s0, q) = Below(g, s0, q) /\ Below(g, s0, q) \in Z
    <3>1. Alike(f, g, D, Z)
      BY <2>3 DEF Alike
    <3> HIDE DEF Z, s0, q
    <3> QED
      BY <2>1, <2>2, <3>1, WalksAgree
  <2>5. /\ Looked(f, down, weight, i, st) = done(Below(f, s0, q))
        /\ Looked(g, down, weight, i, st) = done(Below(g, s0, q))
    BY <1>4 DEF Looked, Below, Taken
  <2> DEFINE b == Below(g, s0, q)
             r == done(b)
  <2>6. b \in Searches(D) /\ New(b) \subseteq X
    BY <2>4 DEF Inside
  <2> HIDE DEF b, X
  <2>7. /\ b.color \in [D -> {"new", "open", "done"}] /\ b.depth \in [D -> Nat] /\ b.best \in Nat
        /\ b.cycles \in SUBSET D /\ b.value \in Nat
        /\ b = [color |-> b.color, depth |-> b.depth, value |-> b.value, best |-> b.best, cycles |-> b.cycles]
    BY <2>6 DEF Searches
  <2>8. r \in Searches(D) /\ r.color = [b.color EXCEPT ![i] = "done"]
    <3> DEFINE color == [b.color EXCEPT ![i] = "done"]
               depth == [b.depth EXCEPT ![i] = weight[i] + b.best]
               w == weight[i] + b.best
               b1 == [b EXCEPT !.color = color]
               b2 == [b1 EXCEPT !.depth = depth]
               b3 == [b2 EXCEPT !.value = w]
    <3>1. color \in [D -> {"new", "open", "done"}] /\ depth \in [D -> Nat] /\ w \in Nat /\ b \in Searches(D)
      BY <2>1, <2>6, <2>7
    <3>2. b1 \in Searches(D) /\ b1.color = color /\ b1.depth = b.depth
      <4> HIDE DEF color
      <4> QED
        BY <3>1 DEF Searches
    <3>3. r = [b3 EXCEPT !.best = st.best]
      BY <3>2
    <3> HIDE DEF color, depth, b1, w, r
    <3>4. b2 \in Searches(D) /\ b2.color = color
      BY <3>1, <3>2 DEF Searches
    <3> HIDE DEF b2
    <3>5. r \in Searches(D) /\ r.color = color
      BY <1>1, <3>1, <3>3, <3>4 DEF Searches
    <3> QED
      BY <3>5 DEF color
  <2>9. New(r) \subseteq New(b)
    BY <2>7, <2>8 DEF New
  <2>10. r \in Inside(D, New(st))
    <3>1. X \subseteq New(st)
      BY DEF X
    <3> HIDE DEF r
    <3> QED
      BY <2>6, <2>8, <2>9, <3>1 DEF Inside
  <2> QED
    BY <2>4, <2>5, <2>10 DEF b
<1> QED
  BY <1>1, <1>2, <1>3, <1>4

(* The rounds of an iteration of the search: how many places are new. *)
Unseen(st) == Cardinality(New(st))
Stepped(v, D, down, weight) == [x \in D \X Searches(D) |-> Looked(v, down, weight, x[1], x[2])]
Narrow(D) == {v \in [D \X Searches(D) -> Searches(D)] :
                \A j \in D, s \in Searches(D) : v[<<j, s>>] \in Inside(D, New(s))}

LEMMA NewIs ==
    ASSUME NEW D, IsFiniteSet(D), NEW st \in Searches(D)
    PROVE  /\ New(st) \subseteq D /\ Unseen(st) \in 0..Cardinality(D) /\ Cardinality(D) \in Nat
           /\ \A i \in New(st) : \A s \in Inside(D, New(st) \ {i}) : Unseen(s) < Unseen(st)
<1>1. New(st) \subseteq D
  BY DEF New, Searches
<1>2. IsFiniteSet(New(st)) /\ Unseen(st) \in Nat /\ Cardinality(D) \in Nat /\ Unseen(st) <= Cardinality(D)
  BY <1>1, FS_Subset, FS_CardinalityType DEF Unseen
<1>3. ASSUME NEW i \in New(st), NEW s \in Inside(D, New(st) \ {i}) PROVE Unseen(s) < Unseen(st)
  <2>1. Cardinality(New(st) \ {i}) = Unseen(st) - 1 /\ IsFiniteSet(New(st) \ {i})
    BY <1>2, FS_RemoveElement DEF Unseen
  <2>2. New(s) \subseteq New(st) \ {i}
    BY DEF Inside
  <2>3. Unseen(s) <= Cardinality(New(st) \ {i}) /\ Unseen(s) \in Nat
    BY <2>1, <2>2, FS_Subset, FS_CardinalityType DEF Unseen
  <2> QED
    BY <1>2, <2>1, <2>3
<1> QED
  BY <1>1, <1>2, <1>3

LEMMA NarrowStays ==
    ASSUME NEW D, NEW down \in [D -> Seq(D)], NEW weight \in [D -> Nat], NEW v \in Narrow(D)
    PROVE  Stepped(v, D, down, weight) \in Narrow(D)
<1> DEFINE g == Stepped(v, D, down, weight)
<1>1. ASSUME NEW i \in D, NEW st \in Searches(D) PROVE Looked(v, down, weight, i, st) \in Inside(D, New(st))
  <2>1. ASSUME NEW j \in D, NEW s \in Inside(D, New(st) \ {i})
        PROVE  v[<<j, s>>] \in Inside(D, New(s)) /\ v[<<j, s>>] = v[<<j, s>>]
    BY DEF Narrow, Inside
  <2>2. OneBelow(v, v, D, i, st)
    BY <2>1 DEF OneBelow
  <2> QED
    BY <2>2, LookedAt
<1>2. ASSUME NEW i \in D, NEW st \in Searches(D) PROVE g[<<i, st>>] = Looked(v, down, weight, i, st)
  <2>1. <<i, st>> \in D \X Searches(D) /\ <<i, st>>[1] = i /\ <<i, st>>[2] = st
    OBVIOUS
  <2> QED
    BY <2>1 DEF Stepped
<1>3. \A x \in D \X Searches(D) : Looked(v, down, weight, x[1], x[2]) \in Searches(D)
  BY <1>1 DEF Inside
<1>4. g \in [D \X Searches(D) -> Searches(D)]
  BY <1>3 DEF Stepped
<1> HIDE DEF g
<1>5. g \in Narrow(D)
  BY <1>1, <1>2, <1>4 DEF Narrow
<1> QED
  BY <1>5 DEF g

AgreeBelow(f, g, D, k) ==
    \A j \in D, s \in Searches(D) : Unseen(s) < k =>
        g[<<j, s>>] \in Inside(D, New(s)) /\ f[<<j, s>>] = g[<<j, s>>]

(* Searches that agree on what is below a state agree on the state. *)
LEMMA SteppedAlike ==
    ASSUME NEW D, IsFiniteSet(D), NEW down \in [D -> Seq(D)], NEW weight \in [D -> Nat],
           NEW f, NEW g, NEW k \in Nat, AgreeBelow(f, g, D, k),
           NEW i \in D, NEW st \in Searches(D), Unseen(st) < k + 1
    PROVE  /\ Looked(f, down, weight, i, st) = Looked(g, down, weight, i, st)
           /\ Looked(g, down, weight, i, st) \in Inside(D, New(st))
<1>1. ASSUME i \in New(st), NEW j \in D, NEW s \in Inside(D, New(st) \ {i})
      PROVE  g[<<j, s>>] \in Inside(D, New(s)) /\ f[<<j, s>>] = g[<<j, s>>]
  <2>1. Unseen(s) < Unseen(st) /\ s \in Searches(D)
    BY <1>1, NewIs DEF Inside
  <2>2. Unseen(s) \in Nat /\ Unseen(st) \in Nat
    BY <2>1, NewIs
  <2>3. Unseen(s) < k
    BY <2>1, <2>2
  <2> QED
    BY <2>1, <2>3 DEF AgreeBelow
<1>2. OneBelow(f, g, D, i, st)
  BY <1>1 DEF OneBelow
<1> QED
  BY <1>2, LookedAt

LEMMA SearchExists ==
    ASSUME NEW D, IsFiniteSet(D), NEW down \in [D -> Seq(D)], NEW weight \in [D -> Nat]
    PROVE  \E v : v = Stepped(v, D, down, weight)
<1> DEFINE n == Cardinality(D) + 1
           G == Narrow(D)
           A == [x \in (1..(n + 1)) \X G |-> Stepped(x[2], D, down, weight)]
           start == [x \in D \X Searches(D) |-> x[2]]
<1>1. n \in Nat /\ n + 1 \in Nat /\ \A s \in Searches(D) : Unseen(s) < n /\ Unseen(s) \in Nat
  BY FS_CardinalityType, NewIs
<1>2. start \in G
  <2>1. ASSUME NEW j \in D, NEW s \in Searches(D) PROVE start[<<j, s>>] = s
    OBVIOUS
  <2>2. start \in [D \X Searches(D) -> Searches(D)]
    OBVIOUS
  <2> HIDE DEF start
  <2> QED
    BY <2>1, <2>2 DEF Narrow, Inside
<1>3. ASSUME NEW k \in 1..(n + 1), NEW v \in G PROVE A[<<k, v>>] \in G /\ A[<<k, v>>] = Stepped(v, D, down, weight)
  <2>1. A[<<k, v>>] = Stepped(v, D, down, weight)
    <3> HIDE DEF G
    <3> QED
      OBVIOUS
  <2> QED
    BY <2>1, NarrowStays
<1> HIDE DEF A, G, start
<1>4. StaysIn(A, 1..(n + 1), G)
  BY <1>3 DEF StaysIn
<1>5. PICK h : Chain(h, A, start, n + 1, G)
  <2> HIDE DEF n
  <2> QED
    BY <1>1, <1>2, <1>4, Recursion
<1>6. ASSUME NEW k \in 0..n PROVE h[k] \in G /\ h[k + 1] \in G /\ h[k + 1] = Stepped(h[k], D, down, weight)
  <2> HIDE DEF n
  <2>1. k + 1 \in 1..(n + 1) /\ (k + 1) - 1 = k /\ k \in 0..(n + 1) /\ k + 1 \in 0..(n + 1)
    BY <1>1
  <2>2. h[k + 1] = A[<<k + 1, h[k]>>] /\ h[k] \in G /\ h[k + 1] \in G
    BY <1>5, <2>1 DEF Chain
  <2> QED
    BY <1>3, <2>1, <2>2
<1> DEFINE Agree(k) == \A j \in D, s \in Searches(D) : Unseen(s) < k => h[k][<<j, s>>] = h[k + 1][<<j, s>>]
           B == {k \in 0..n : Agree(k)}
<1>7. 0 \in B
  <2>1. \A s \in Searches(D) : ~(Unseen(s) < 0)
    BY <1>1
  <2> QED
    BY <1>1, <2>1
<1>8. ASSUME NEW k \in 1..n, k - 1 \in B PROVE k \in B
  <2> HIDE DEF n
  <2>1. k - 1 \in 0..n /\ (k - 1) + 1 = k /\ k \in 0..n /\ k - 1 \in Nat
    BY <1>1
  <2>2. /\ h[k] = Stepped(h[k - 1], D, down, weight) /\ h[k + 1] = Stepped(h[k], D, down, weight)
        /\ h[k] \in G
    BY <1>6, <2>1
  <2>3. AgreeBelow(h[k - 1], h[k], D, k - 1)
    BY <1>8, <2>1, <2>2 DEF G, Narrow, AgreeBelow
  <2>4. ASSUME NEW j \in D, NEW s \in Searches(D), Unseen(s) < k
        PROVE  h[k][<<j, s>>] = h[k + 1][<<j, s>>]
    <3>1. Looked(h[k - 1], down, weight, j, s) = Looked(h[k], down, weight, j, s)
      <4>1. Unseen(s) < (k - 1) + 1
        BY <2>1, <2>4
      <4> HIDE DEF B
      <4> QED
        BY <2>1, <2>3, <4>1, SteppedAlike
    <3>2. <<j, s>> \in D \X Searches(D) /\ <<j, s>>[1] = j /\ <<j, s>>[2] = s
      OBVIOUS
    <3> QED
      BY <2>2, <3>1, <3>2 DEF Stepped
  <2> QED
    BY <2>1, <2>4
<1>9. \A k \in 0..n : k \in B
  <2> HIDE DEF B, n
  <2> QED
    BY <1>1, <1>7, <1>8, Upwards
<1>10. n \in 0..n
  BY <1>1
<1>11. Agree(n)
  BY <1>9, <1>10
<1>12. h[n] \in [D \X Searches(D) -> Searches(D)] /\ h[n + 1] \in [D \X Searches(D) -> Searches(D)]
  BY <1>6, <1>10 DEF G, Narrow
<1>13. \A j \in D, s \in Searches(D) : h[n][<<j, s>>] = h[n + 1][<<j, s>>]
  BY <1>1, <1>11
<1>14. h[n] = h[n + 1]
  <2> DEFINE a == h[n]
             b == h[n + 1]
  <2>1. a \in [D \X Searches(D) -> Searches(D)] /\ b \in [D \X Searches(D) -> Searches(D)]
    BY <1>12
  <2>2. \A j \in D, s \in Searches(D) : a[<<j, s>>] = b[<<j, s>>]
    BY <1>13
  <2> HIDE DEF a, b
  <2>3. \A x \in D \X Searches(D) : a[x] = b[x]
    BY <2>2
  <2>4. a = b
    BY <2>1, <2>3
  <2> QED
    BY <2>4 DEF a, b
<1> QED
  BY <1>6, <1>10, <1>14

(* What the recursion says of itself. *)
LEMMA SearchUnfolds ==
    ASSUME NEW D, IsFiniteSet(D), NEW down \in [D -> Seq(D)], NEW weight \in [D -> Nat]
    PROVE  \A j \in D, s \in Searches(D) :
              Visit(down, weight)[<<j, s>>] = Looked(Visit(down, weight), down, weight, j, s)
<1> DEFINE f == Visit(down, weight)
<1>1. f = Stepped(f, D, down, weight)
  <2>1. DOMAIN down = D
    OBVIOUS
  <2>2. f = CHOOSE v : v = Stepped(v, D, down, weight)
    BY <2>1 DEF Visit, Stepped
  <2>3. \E v : v = Stepped(v, D, down, weight)
    BY SearchExists
  <2> HIDE DEF f
  <2> QED
    BY <2>2, <2>3
<1> HIDE DEF f
<1>2. ASSUME NEW j \in D, NEW s \in Searches(D) PROVE f[<<j, s>>] = Looked(f, down, weight, j, s)
  <2>1. <<j, s>> \in D \X Searches(D) /\ <<j, s>>[1] = j /\ <<j, s>>[2] = s
    OBVIOUS
  <2>2. Stepped(f, D, down, weight)[<<j, s>>] = Looked(f, down, weight, j, s)
    BY <2>1 DEF Stepped
  <2> QED
    BY <1>1, <2>2
<1> QED
  BY <1>2 DEF f

(* The search comes to an end wherever it starts: each visit opens a place  *)
(* that was new.                                                           *)
LEMMA SearchEnds ==
    ASSUME NEW D, IsFiniteSet(D), NEW down \in [D -> Seq(D)], NEW weight \in [D -> Nat]
    PROVE  \A i \in D, st \in Searches(D) : Visit(down, weight)[<<i, st>>] \in Inside(D, New(st))
<1> DEFINE f == Visit(down, weight)
           n == Cardinality(D) + 1
           Upto(k) == \A j \in D, s \in Searches(D) : Unseen(s) < k => f[<<j, s>>] \in Inside(D, New(s))
           B == {k \in 0..n : Upto(k)}
<1>1. n \in Nat /\ \A s \in Searches(D) : Unseen(s) < n /\ Unseen(s) \in Nat
  BY FS_CardinalityType, NewIs
<1>3. \A j \in D, s \in Searches(D) : f[<<j, s>>] = Looked(f, down, weight, j, s)
  BY SearchUnfolds, Zenon
<1> HIDE DEF f
<1>4. 0 \in B
  <2>1. \A s \in Searches(D) : ~(Unseen(s) < 0)
    BY <1>1
  <2> QED
    BY <1>1, <2>1
<1>5. ASSUME NEW k \in 1..n, k - 1 \in B PROVE k \in B
  <2> HIDE DEF n
  <2>1. k - 1 \in Nat /\ k \in 0..n
    BY <1>1
  <2>2. AgreeBelow(f, f, D, k - 1)
    BY <1>5 DEF AgreeBelow
  <2>3. ASSUME NEW j \in D, NEW s \in Searches(D), Unseen(s) < k PROVE f[<<j, s>>] \in Inside(D, New(s))
    <3>1. Unseen(s) < (k - 1) + 1
      BY <2>1, <2>3
    <3>2. Looked(f, down, weight, j, s) \in Inside(D, New(s))
      <4> HIDE DEF B
      <4> QED
        BY <2>1, <2>2, <3>1, SteppedAlike
    <3> QED
      BY <1>3, <3>2
  <2> QED
    BY <2>1, <2>3
<1>6. \A k \in 0..n : k \in B
  <2> HIDE DEF B, n
  <2> QED
    BY <1>1, <1>4, <1>5, Upwards
<1>7. Upto(n)
  <2>1. n \in 0..n
    BY <1>1
  <2> QED
    BY <1>6, <2>1
<1> QED
  BY <1>1, <1>7 DEF f

-----------------------------------------------------------------------------
(* Depths, scores and what is left. *)

LEMMA GreatestNat ==
    ASSUME NEW S, IsFiniteSet(S), \A x \in S : x \in Nat, NEW default \in Nat
    PROVE  /\ Greatest(S, default) \in Nat
           /\ S # {} => Greatest(S, default) \in S /\ \A x \in S : x <= Greatest(S, default)
<1>1. CASE S = {}
  BY <1>1 DEF Greatest
<1>2. CASE S # {}
  <2>1. Max(S) \in S /\ \A x \in S : x <= Max(S)
    BY <1>2, LastOf
  <2>2. Greatest(S, default) \in S /\ \A x \in S : x <= Greatest(S, default)
    BY <1>2, <2>1 DEF Greatest
  <2> QED
    BY <2>2
<1> QED
  BY <1>1, <1>2

LEMMA GreatestImage ==
    ASSUME NEW S, IsFiniteSet(S), NEW f, \A x \in S : f[x] \in Nat, NEW default \in Nat
    PROVE  Greatest({f[x] : x \in S}, default) \in Nat
<1>1. IsFiniteSet({f[x] : x \in S})
  BY ImageFinite
<1>2. \A y \in {f[x] : x \in S} : y \in Nat
  OBVIOUS
<1> QED
  BY <1>1, <1>2, GreatestNat

(* The sum of natural numbers is one. *)
LEMMA TotalIs ==
    ASSUME NEW S, IsFiniteSet(S), NEW f, \A x \in S : f[x] \in Nat
    PROVE  TotalOf(f, S) \in Nat
<1> DEFINE pick == [s \in SUBSET S |-> CHOOSE x \in s : TRUE]
           F == [x \in S \X Nat |-> f[x[1]] + x[2]]
           Body(h) == [s \in SUBSET S |-> IF s = {} THEN 0
                                          ELSE f[CHOOSE x \in s : TRUE] + h[s \ {CHOOSE x \in s : TRUE}]]
           c == CHOOSE h : h = Body(h)
<1>1. Picking(pick, S)
  BY DEF Picking
<1>2. StaysIn(F, S, Nat)
  BY DEF StaysIn
<1>3. PICK h : FoldOver(h, F, 0, S, pick, Nat)
  <2> HIDE DEF F, pick
  <2> QED
    BY <1>1, <1>2, FoldExists
<1>4. h = Body(h)
  <2>1. ASSUME NEW s \in SUBSET S, s # {}
        PROVE  F[<<pick[s], h[s \ {pick[s]}]>>] = f[CHOOSE x \in s : TRUE] + h[s \ {CHOOSE x \in s : TRUE}]
    <3>1. pick[s] = CHOOSE x \in s : TRUE
      OBVIOUS
    <3>2. pick[s] \in S /\ s \ {pick[s]} \in SUBSET S
      BY <1>1, <2>1 DEF Picking
    <3>3. h[s \ {pick[s]}] \in Nat
      <4> HIDE DEF F, pick
      <4> QED
        BY <1>3, <3>2 DEF FoldOver
    <3> HIDE DEF pick
    <3>4. F[<<pick[s], h[s \ {pick[s]}]>>] = f[pick[s]] + h[s \ {pick[s]}]
      BY <3>2, <3>3
    <3> QED
      BY <3>1, <3>4
  <2> HIDE DEF F, pick
  <2> QED
    BY <1>3, <2>1 DEF FoldOver
<1>5. c = Body(c)
  <2> HIDE DEF Body
  <2> QED
    BY <1>4
<1>6. TotalOf(f, S) = c[S]
  BY DEF TotalOf, FoldFunctionOnSet, MapThenFoldSet
<1> HIDE DEF c
<1>7. PICK n \in Nat : n = Cardinality(S)
  BY FS_CardinalityType
<1> DEFINE Summed(k) == \A s \in SUBSET S : Cardinality(s) <= k => c[s] \in Nat
           B == {k \in 0..n : Summed(k)}
<1>8. \A s \in SUBSET S : IsFiniteSet(s) /\ Cardinality(s) \in Nat /\ Cardinality(s) <= n
  BY <1>7, FS_Subset, FS_CardinalityType
<1>9. \A s \in SUBSET S : s = {} => c[s] = 0
  BY <1>5
<1>10. 0 \in B
  <2>1. \A s \in SUBSET S : Cardinality(s) <= 0 => s = {}
    BY <1>8, FS_EmptySet
  <2> QED
    BY <1>7, <1>9, <2>1
<1>11. ASSUME NEW k \in 1..n, k - 1 \in B PROVE k \in B
  <2>1. ASSUME NEW s \in SUBSET S, Cardinality(s) <= k, s # {} PROVE c[s] \in Nat
    <3> DEFINE x == CHOOSE y \in s : TRUE
               r == s \ {x}
    <3>1. x \in s /\ x \in S
      BY <2>1
    <3>2. c[s] = f[x] + c[r]
      BY <1>5, <2>1
    <3> HIDE DEF x
    <3>3. r \in SUBSET S /\ Cardinality(r) = Cardinality(s) - 1
      BY <1>8, <3>1, FS_RemoveElement
    <3> HIDE DEF r
    <3>4. Cardinality(r) <= k - 1
      BY <1>7, <1>8, <2>1, <3>3
    <3>5. c[r] \in Nat
      BY <1>11, <3>3, <3>4
    <3> QED
      BY <3>1, <3>2, <3>5
  <2> QED
    BY <1>9, <2>1
<1>12. \A k \in 0..n : k \in B
  <2> HIDE DEF B
  <2> QED
    BY <1>10, <1>11, Upwards
<1>13. Summed(n)
  <2>1. n \in 0..n
    OBVIOUS
  <2> QED
    BY <1>12, <2>1
<1> QED
  BY <1>6, <1>8, <1>13

(* What waits for a set are sets of the table. *)
LEMMA DependentsAre ==
    ASSUME NEW S \in Seq(SimSets), NEW i, NEW P
    PROVE  Dependents(S, i, P) \in Seq(DOMAIN S)
<1> DEFINE D == DOMAIN S
           n == Len(S)
           inner(j) == [k \in DOMAIN S[j].slots |-> IF j \in P /\ S[j].slots[k].from = S[i].id THEN <<j>> ELSE <<>>]
           outer == [j \in D |-> FlattenSeq(inner(j))]
<1>1. n \in Nat /\ D = 1..n
  OBVIOUS
<1>2. ASSUME NEW j \in D PROVE FlattenSeq(inner(j)) \in Seq(D)
  <2> DEFINE m == Len(S[j].slots)
             q == inner(j)
  <2>1. S[j] \in SimSets
    OBVIOUS
  <2>2. m \in Nat /\ DOMAIN S[j].slots = 1..m
    BY <2>1 DEF SimSets
  <2>3. <<j>> \in Seq(D) /\ <<>> \in Seq(D)
    OBVIOUS
  <2> HIDE DEF D, m
  <2>4. \A k \in 1..m : q[k] \in Seq(D)
    BY <2>2, <2>3
  <2>5. q = [k \in 1..m |-> q[k]]
    BY <2>2
  <2> HIDE DEF q
  <2>6. q \in Seq(Seq(D))
    BY <2>2, <2>4, <2>5, ListIn
  <2> QED
    BY <2>6, FlattenIn DEF q
<1> HIDE DEF inner, D, n
<1>3. outer \in Seq(Seq(D))
  <2>1. outer = [j \in 1..n |-> outer[j]] /\ \A j \in 1..n : outer[j] \in Seq(D)
    BY <1>1, <1>2
  <2> HIDE DEF outer
  <2> QED
    BY <1>1, <2>1, ListIn
<1> HIDE DEF outer
<1>4. FlattenSeq(outer) \in Seq(D)
  BY <1>3, FlattenIn
<1> QED
  BY <1>4 DEF outer, inner, D, Dependents

LEMMA SetsFinite ==
    ASSUME NEW S \in Seq(SimSets), NEW M \in SUBSET DOMAIN S
    PROVE  IsFiniteSet(M) /\ Cardinality(M) \in Nat
<1>1. IsFiniteSet(DOMAIN S)
  BY FS_Interval
<1> QED
  BY <1>1, FS_Subset, FS_CardinalityType

(* The group of a set that is known to be of a kind of its own. *)
LEMMA GroupOfIs ==
    ASSUME NEW groups \in Seq(Groups), NEW set, GroupIndex(groups, GroupOf(set)) # {}
    PROVE  LET g == Greatest(GroupIndex(groups, GroupOf(set)), 0) IN
           g \in DOMAIN groups /\ groups[g].id = GroupOf(set) /\ groups[g] \in Groups
<1> DEFINE found == GroupIndex(groups, GroupOf(set))
           g == Greatest(found, 0)
<1>1. found \in SUBSET DOMAIN groups /\ IsFiniteSet(DOMAIN groups) /\ DOMAIN groups \subseteq Nat
  BY FS_Interval DEF GroupIndex
<1>2. IsFiniteSet(found) /\ \A x \in found : x \in Nat
  BY <1>1, FS_Subset
<1>3. g \in found
  <2> HIDE DEF found
  <2> QED
    BY <1>2, GreatestNat DEF found
<1> HIDE DEF g
<1>4. g \in DOMAIN groups /\ groups[g].id = GroupOf(set)
  BY <1>3 DEF GroupIndex
<1>5. groups[g] \in Groups
  BY <1>4
<1> QED
  BY <1>4, <1>5 DEF g

LEMMA RrDepthIs ==
    ASSUME NEW S \in Seq(SimSets), NEW i \in DOMAIN S
    PROVE  RrDepth(S, i) \in Nat
<1> DEFINE schedule(p) == Cardinality({j \in OpenSets(S) :
                          GroupOf(S[j]) = GroupOf(S[i]) /\ p \in Occupants(S[j])})
           f == [p \in Players |-> schedule(p)]
<1>1. Occupants(S[i]) \subseteq Players /\ IsFiniteSet(Occupants(S[i]))
  <2>1. Entrants(S, {i}) = Occupants(S[i])
    BY DEF Entrants
  <2> QED
    BY <2>1, EntrantsAre
<1>2. ASSUME NEW p \in Players PROVE f[p] \in Nat /\ f[p] = schedule(p)
  <2> DEFINE M == {j \in OpenSets(S) : GroupOf(S[j]) = GroupOf(S[i]) /\ p \in Occupants(S[j])}
  <2>1. M \in SUBSET DOMAIN S
    BY DEF OpenSets
  <2>2. Cardinality(M) \in Nat
    <3> HIDE DEF M
    <3> QED
      BY <2>1, SetsFinite
  <2> QED
    BY <2>2
<1>3. {schedule(p) : p \in Occupants(S[i])} = {f[p] : p \in Occupants(S[i])}
  BY <1>1, <1>2
<1>4. Greatest({f[p] : p \in Occupants(S[i])}, 1) \in Nat
  <2> HIDE DEF f
  <2> QED
    BY <1>1, <1>2, GreatestImage
<1> HIDE DEF f
<1> DEFINE most == Greatest({schedule(p) : p \in Occupants(S[i])}, 1)
<1>5. RrDepth(S, i) = IF S[i].done THEN 0 ELSE most
  BY DEF RrDepth
<1>6. most \in Nat
  <2> HIDE DEF schedule
  <2> QED
    BY <1>3, <1>4
<1> HIDE DEF most, schedule
<1> QED
  BY <1>5, <1>6

(* The turns of compute_depths, one set after another. *)
DownOf(S) == [i \in DOMAIN S |-> Dependents(S, i, DOMAIN S \ Excluded(S))]
Fresh(D) == [color |-> [i \in D |-> "new"], depth |-> [i \in D |-> 0],
             value |-> 0, best |-> 0, cycles |-> {}]
Turn(S, groups, i, st) ==
    LET visited == Visit(DownOf(S), Weighted(S)) IN
    CASE KindOf(groups, S[i]) = "elim"  -> [visited[<<i, st>>] EXCEPT !.depth[i] = visited[<<i, st>>].value]
      [] KindOf(groups, S[i]) = "rr"    -> [st EXCEPT !.depth[i] = RrDepth(S, i)]
      [] KindOf(groups, S[i]) = "swiss" -> [st EXCEPT !.depth[i] = SwissDepth(S, groups, i)]
      [] OTHER          -> [st EXCEPT !.depth[i] = Weighted(S)[i]]

LEMMA SearchedTurns ==
    ASSUME NEW S \in Seq(SimSets), NEW groups \in Seq(Groups)
    PROVE  \E t : /\ t[0] = Fresh(DOMAIN S)
                  /\ \A k \in 0..Len(S) : t[k] \in Searches(DOMAIN S)
                  /\ \A k \in 1..Len(S) : t[k] = Turn(S, groups, k, t[k - 1])
                  /\ Searched(S, groups).cycles = t[Len(S)].cycles
                  /\ Searched(S, groups).depth =
                        [i \in DOMAIN S |-> IF i \in Excluded(S) THEN 0 ELSE t[Len(S)].depth[i]]
<1> DEFINE D == DOMAIN S
           n == Len(S)
           V == Searches(D)
           down == DownOf(S)
           weight == Weighted(S)
           visited == Visit(down, weight)
           start == Fresh(D)
           Go(i, st) == Turn(S, groups, i, st)
           F == [x \in (1..n) \X V |-> Go(x[1], x[2])]
           places == [i \in DOMAIN S |-> i]
           Body(h) == [u \in SUBSET DOMAIN places |-> IF u = {} THEN start
                                                     ELSE Go(places[Max(u)], h[u \ {Max(u)}])]
           c == CHOOSE h : h = Body(h)
<1>1. n \in Nat /\ D = 1..n /\ DOMAIN places = 1..n /\ IsFiniteSet(D)
  BY FS_Interval
<1>2. start \in V
  BY DEF Searches, Fresh
<1>3. weight \in [D -> Nat]
  BY DEF Weighted
<1>4. down \in [D -> Seq(D)]
  BY DependentsAre DEF DownOf
<1>5. ASSUME NEW i \in D, NEW st \in V PROVE visited[<<i, st>>] \in V
  <2> HIDE DEF D, down, weight
  <2>1. visited[<<i, st>>] \in Inside(D, New(st))
    BY <1>1, <1>3, <1>4, SearchEnds
  <2> HIDE DEF visited
  <2> QED
    BY <2>1 DEF Inside
<1>6. ASSUME NEW i \in D, NEW st \in V, NEW m \in Nat PROVE [st EXCEPT !.depth[i] = m] \in V
  BY DEF Searches
<1>7. ASSUME NEW i \in D, KindOf(groups, S[i]) = "swiss" PROVE SwissDepth(S, groups, i) \in Nat
  <2> DEFINE g == Greatest(GroupIndex(groups, GroupOf(S[i])), 0)
  <2>1. GroupIndex(groups, GroupOf(S[i])) # {}
    BY <1>7 DEF KindOf
  <2>2. groups[g] \in Groups
    BY <2>1, GroupOfIs
  <2>3. S[i] \in SimSets
    OBVIOUS
  <2>4. RoundOf(S[i]) \in Int
    BY <2>3 DEF SimSets, RoundOf
  <2> HIDE DEF g
  <2>5. groups[g].rounds - RoundOf(S[i]) + 1 \in Int
    BY <2>2, <2>4 DEF Groups
  <2> HIDE DEF D
  <2>6. SwissDepth(S, groups, i) = IF S[i].done THEN 0 ELSE Larger(groups[g].rounds - RoundOf(S[i]) + 1, 1)
    BY DEF SwissDepth, g
  <2> QED
    BY <2>5, <2>6 DEF Larger
<1>8. ASSUME NEW i \in D, NEW st \in V PROVE Go(i, st) \in V
  <2>1. visited[<<i, st>>] \in V /\ visited[<<i, st>>].value \in Nat
    <3>1. visited[<<i, st>>] \in V
      BY <1>5
    <3> HIDE DEF visited
    <3> QED
      BY <3>1 DEF Searches
  <2>2. RrDepth(S, i) \in Nat /\ Weighted(S)[i] \in Nat
    BY <1>3, RrDepthIs
  <2> DEFINE v == visited[<<i, st>>]
  <2>3. v \in V /\ v.value \in Nat
    BY <2>1
  <2> HIDE DEF D, V, v
  <2>4. [v EXCEPT !.depth[i] = v.value] \in V
    BY <1>6, <2>3
  <2>5. /\ [st EXCEPT !.depth[i] = RrDepth(S, i)] \in V
        /\ [st EXCEPT !.depth[i] = Weighted(S)[i]] \in V
    BY <1>6, <2>2
  <2>6. KindOf(groups, S[i]) = "swiss" => [st EXCEPT !.depth[i] = SwissDepth(S, groups, i)] \in V
    BY <1>6, <1>7
  <2>7. CASE KindOf(groups, S[i]) = "elim"
    BY <2>4, <2>7 DEF v, Turn
  <2>8. CASE KindOf(groups, S[i]) = "rr"
    BY <2>5, <2>8 DEF Turn
  <2>9. CASE KindOf(groups, S[i]) = "swiss"
    BY <2>6, <2>9 DEF Turn
  <2>10. CASE KindOf(groups, S[i]) \notin {"elim", "rr", "swiss"}
    BY <2>5, <2>10 DEF Turn
  <2> QED
    BY <2>7, <2>8, <2>9, <2>10
<1>9. Searched(S, groups).depth =
        [j \in DOMAIN S |-> IF j \in Excluded(S) THEN 0 ELSE FoldLeftDomain(LAMBDA st, i : Go(i, st), start, S).depth[j]]
  BY DEF Searched, Turn, DownOf, Fresh
<1>9b. Searched(S, groups).cycles = FoldLeftDomain(LAMBDA st, i : Go(i, st), start, S).cycles
  BY DEF Searched, Turn, DownOf, Fresh
<1>10. FoldLeftDomain(LAMBDA st, i : Go(i, st), start, S) = c[DOMAIN places]
  <2> HIDE DEF Go, start
  <2> QED
    BY DEF FoldLeftDomain, FoldLeft, MapThenFoldSet
<1>11. FoldLeftDomain(LAMBDA st, i : Go(i, st), start, S) = c[1..n]
  <2> HIDE DEF c, Go, start, n, places
  <2> QED
    BY <1>1, <1>10
<1> DEFINE found == FoldLeftDomain(LAMBDA st, i : Go(i, st), start, S)
<1>12. Searched(S, groups).depth = [i \in D |-> IF i \in Excluded(S) THEN 0 ELSE found.depth[i]]
  BY <1>9
<1>12b. Searched(S, groups).cycles = found.cycles
  BY <1>9b
<1>13. found = c[1..n]
  BY <1>11
<1> HIDE DEF found, Go, V, D
<1>14. StaysIn(F, 1..n, V)
  <2> HIDE DEF n
  <2> QED
    BY <1>1, <1>8 DEF StaysIn
<1> HIDE DEF start
<1>15. PICK h : FoldOver(h, F, start, 1..n, Tops(n), V)
  <2> HIDE DEF F, n
  <2> QED
    BY <1>1, <1>2, <1>14, LeftFold
<1>16. h = Body(h)
  <2>1. ASSUME NEW u \in SUBSET (1..n), u # {}
        PROVE  F[<<Tops(n)[u], h[u \ {Tops(n)[u]}]>>] = Go(places[Max(u)], h[u \ {Max(u)}])
    <3>1. Tops(n)[u] \in 1..n /\ u \ {Tops(n)[u]} \in SUBSET (1..n) /\ Tops(n)[u] = Max(u)
      BY <1>1, <2>1, TopsPick DEF Tops
    <3>2. h[u \ {Tops(n)[u]}] \in V
      <4> HIDE DEF F, n
      <4> QED
        BY <1>15, <3>1 DEF FoldOver
    <3>3. places[Max(u)] = Max(u)
      BY <1>1, <3>1 DEF D
    <3> HIDE DEF n, V, places
    <3> QED
      BY <3>1, <3>2, <3>3
  <2> HIDE DEF F, n, places
  <2> QED
    BY <1>1, <1>15, <2>1 DEF FoldOver
<1>17. c = Body(c)
  <2> HIDE DEF Body
  <2> QED
    BY <1>16
<1> HIDE DEF c
<1>18. c[1..0] = start
  <2>1. 1..0 = {}
    OBVIOUS
  <2> QED
    BY <1>17, <2>1
<1>19. ASSUME NEW k \in 1..n PROVE c[1..k] = Go(k, c[1..(k - 1)])
  <2>1. (1..k) \in SUBSET (1..n) /\ 1..k # {} /\ Max(1..k) = k /\ (1..k) \ {k} = 1..(k - 1)
    <3> HIDE DEF n
    <3> QED
      BY <1>1, Uptos
  <2>2. c[1..k] = Body(c)[1..k]
    BY <1>17
  <2>3. places[k] = k
    BY <1>1 DEF D
  <2> HIDE DEF n, places
  <2> QED
    BY <1>1, <2>1, <2>2, <2>3
<1> DEFINE B == {k \in 0..n : c[1..k] \in V}
<1>20. 0 \in B
  <2> HIDE DEF n
  <2>1. 0 \in 0..n
    BY <1>1
  <2> QED
    BY <1>2, <1>18, <2>1
<1>21. ASSUME NEW k \in 1..n, k - 1 \in B PROVE k \in B
  <2> HIDE DEF n
  <2> QED
    BY <1>1, <1>8, <1>19, <1>21
<1>22. \A k \in 0..n : k \in B
  <2> HIDE DEF B, n
  <2> QED
    BY <1>1, <1>20, <1>21, Upwards
<1> DEFINE t == [k \in 0..n |-> c[1..k]]
<1>23. t[0] = start /\ \A k \in 0..n : t[k] \in V
  <2> HIDE DEF n
  <2>1. 0 \in 0..n
    BY <1>1
  <2> QED
    BY <1>18, <1>22, <2>1
<1>24. ASSUME NEW k \in 1..n PROVE t[k] = Turn(S, groups, k, t[k - 1])
  <2> HIDE DEF n, V
  <2>1. k \in 0..n /\ k - 1 \in 0..n
    BY <1>1
  <2> QED
    BY <1>19, <2>1 DEF Go
<1>25. t[n] = found
  <2> HIDE DEF n
  <2>1. n \in 0..n
    BY <1>1
  <2> QED
    BY <1>13, <2>1
<1> HIDE DEF t
<1>26. /\ Searched(S, groups).cycles = t[n].cycles
       /\ Searched(S, groups).depth = [i \in D |-> IF i \in Excluded(S) THEN 0 ELSE t[n].depth[i]]
  BY <1>12, <1>12b, <1>25
<1> QED
  BY <1>23, <1>24, <1>26 DEF start, V, D

LEMMA SearchedIs ==
    ASSUME NEW S \in Seq(SimSets), NEW groups \in Seq(Groups)
    PROVE  Searched(S, groups).depth \in [DOMAIN S -> Nat]
<1>1. PICK t : /\ t[0] = Fresh(DOMAIN S)
               /\ \A k \in 0..Len(S) : t[k] \in Searches(DOMAIN S)
               /\ \A k \in 1..Len(S) : t[k] = Turn(S, groups, k, t[k - 1])
               /\ Searched(S, groups).cycles = t[Len(S)].cycles
               /\ Searched(S, groups).depth =
                     [i \in DOMAIN S |-> IF i \in Excluded(S) THEN 0 ELSE t[Len(S)].depth[i]]
  BY SearchedTurns
<1>2. Len(S) \in 0..Len(S)
  OBVIOUS
<1>3. t[Len(S)].depth \in [DOMAIN S -> Nat]
  BY <1>1, <1>2 DEF Searches
<1> QED
  BY <1>1, <1>3

LEMMA FutureRoundsIs ==
    ASSUME NEW S \in Seq(SimSets), NEW group \in Groups
    PROVE  FutureRounds(S, group) \in Nat
<1> DEFINE M == Members(S, group)
           f == [i \in DOMAIN S |-> RoundOf(S[i])]
           last == Greatest({RoundOf(S[i]) : i \in M}, 0)
<1>1. M \in SUBSET (1..Len(S)) /\ Len(S) \in Nat /\ DOMAIN S = 1..Len(S)
  BY DEF Members
<1>2. ASSUME NEW i \in DOMAIN S PROVE f[i] \in Int
  <2>1. S[i] \in SimSets
    OBVIOUS
  <2> QED
    BY <2>1 DEF SimSets, RoundOf
<1>3. {RoundOf(S[i]) : i \in M} = {f[i] : i \in M}
  BY <1>1
<1>4. last \in Int
  <2>1. CASE M = {}
    BY <2>1 DEF Greatest
  <2>2. CASE M # {}
    <3> HIDE DEF f, M
    <3>1. Greatest({f[i] : i \in M}, 0) \in {f[i] : i \in M}
      BY <1>1, <1>2, <2>2, GreatestOf
    <3> QED
      BY <1>1, <1>2, <1>3, <3>1
  <2> QED
    BY <2>1, <2>2
<1>5. FutureRounds(S, group) = Larger(group.rounds - last, 0)
  BY DEF FutureRounds
<1> HIDE DEF last
<1>6. group.rounds - last \in Int
  BY <1>4 DEF Groups
<1> QED
  BY <1>5, <1>6 DEF Larger

LEMMA GroupDepthIs ==
    ASSUME NEW S \in Seq(SimSets), NEW groups, NEW group \in Groups, NEW depth \in [DOMAIN S -> Nat]
    PROVE  GroupDepth(S, groups, group, depth) \in Nat
<1> DEFINE open == (Members(S, group) \cap OpenSets(S)) \ Excluded(S)
           seated == Members(S, group) \cap OpenSets(S)
           deepest == Greatest({depth[i] : i \in open}, 0)
           pairs == Larger(Cardinality(Entrants(S, seated)) \div 2, 1)
           future == FutureRounds(S, group)
<1>1. open \in SUBSET DOMAIN S /\ seated \in SUBSET DOMAIN S
  BY DEF Members
<1>2. IsFiniteSet(open) /\ Cardinality(open) \in Nat
  <2> HIDE DEF open
  <2> QED
    BY <1>1, SetsFinite
<1>3. deepest \in Nat
  <2> HIDE DEF open
  <2> QED
    BY <1>1, <1>2, GreatestImage
<1>4. pairs \in Nat \ {0}
  <2>1. IsFiniteSet(Entrants(S, seated))
    <3> HIDE DEF seated
    <3> QED
      BY <1>1, EntrantsAre
  <2>2. Cardinality(Entrants(S, seated)) \in Nat
    <3> HIDE DEF seated
    <3> QED
      BY <2>1, FS_CardinalityType
  <2> HIDE DEF seated
  <2> QED
    BY <2>2 DEF Larger
<1>5. future \in Nat
  BY FutureRoundsIs
<1>6. GroupDepth(S, groups, group, depth) =
        CASE group.kind = "rr"    -> Larger(deepest, (Cardinality(open) + pairs - 1) \div pairs)
          [] group.kind = "swiss" -> future + (IF open = {} THEN 0 ELSE 1)
          [] OTHER                -> deepest
  BY DEF GroupDepth
<1> HIDE DEF open, deepest, pairs, future
<1>7. (Cardinality(open) + pairs - 1) \div pairs \in Int
  BY <1>2, <1>4
<1>8. Larger(deepest, (Cardinality(open) + pairs - 1) \div pairs) \in Nat
  BY <1>3, <1>7 DEF Larger
<1>9. future + (IF open = {} THEN 0 ELSE 1) \in Nat
  BY <1>5
<1> QED
  BY <1>3, <1>6, <1>8, <1>9

LEMMA StageDepthsAre ==
    ASSUME NEW S \in Seq(SimSets), NEW groups \in Seq(Groups), NEW depth \in [DOMAIN S -> Nat]
    PROVE  StageDepths(S, groups, depth) \in [DOMAIN Stages(groups) -> Nat]
<1> DEFINE stages == Stages(groups)
           f == [g \in DOMAIN groups |-> GroupDepth(S, groups, groups[g], depth)]
           deep(s) == Greatest({GroupDepth(S, groups, groups[g], depth) : g \in stages[s]}, 0)
<1>1. \A g \in DOMAIN groups : f[g] \in Nat
  BY GroupDepthIs
<1>2. ASSUME NEW s \in DOMAIN stages PROVE deep(s) \in Nat
  <2>1. stages[s] \in SUBSET DOMAIN groups
    <3> HIDE DEF stages
    <3>1. Holding(stages, groups)
      BY StagesHold DEF stages
    <3> QED
      BY <3>1 DEF Holding
  <2>2. IsFiniteSet(DOMAIN groups)
    BY FS_Interval
  <2> HIDE DEF stages
  <2>3. IsFiniteSet(stages[s])
    BY <2>1, <2>2, FS_Subset
  <2>4. {GroupDepth(S, groups, groups[g], depth) : g \in stages[s]} = {f[g] : g \in stages[s]}
    BY <2>1
  <2>5. \A g \in stages[s] : f[g] \in Nat
    BY <1>1, <2>1
  <2> HIDE DEF f
  <2>6. Greatest({f[g] : g \in stages[s]}, 0) \in Nat
    BY <2>3, <2>5, GreatestImage
  <2> QED
    BY <2>4, <2>6
<1>3. StageDepths(S, groups, depth) = [s \in DOMAIN stages |-> deep(s)]
  BY DEF StageDepths
<1> HIDE DEF deep, stages
<1> QED
  BY <1>2, <1>3 DEF stages

LEMMA TailedIs ==
    ASSUME NEW S \in Seq(SimSets), NEW groups \in Seq(Groups), NEW depth \in [DOMAIN S -> Nat],
           NEW stages, Holding(stages, groups), NEW depths \in [DOMAIN stages -> Nat]
    PROVE  Tailed(S, groups, depth, stages, depths) \in [DOMAIN S -> Nat]
<1> DEFINE tail(g) == LET s == CHOOSE x \in DOMAIN stages : g \in stages[x]
                      IN  TotalOf(depths, (s + 1)..Len(stages))
           tailOf(set) == LET found == GroupIndex(groups, GroupOf(set))
                          IN  IF found = {} THEN 0 ELSE tail(Greatest(found, 0))
<1>1. stages \in Seq(SUBSET Nat) /\ DOMAIN stages = 1..Len(stages) /\ Len(stages) \in Nat
  <2>1. stages \in Seq(SUBSET Nat)
    BY DEF Holding
  <2> QED
    BY <2>1
<1>2. ASSUME NEW g \in DOMAIN groups PROVE tail(g) \in Nat
  <2> DEFINE s == CHOOSE x \in DOMAIN stages : g \in stages[x]
             after == (s + 1)..Len(stages)
  <2>1. s \in DOMAIN stages
    BY DEF Holding
  <2> HIDE DEF s
  <2>2. IsFiniteSet(after) /\ after \subseteq DOMAIN stages
    <3>1. s + 1 \in Int /\ Len(stages) \in Int /\ 1 <= s + 1
      BY <1>1, <2>1
    <3>2. IsFiniteSet(after)
      BY <3>1, FS_Interval
    <3>3. after \subseteq 1..Len(stages)
      BY <3>1
    <3> HIDE DEF after
    <3> QED
      BY <1>1, <3>2, <3>3
  <2>3. \A x \in after : depths[x] \in Nat
    BY <2>2
  <2> HIDE DEF after
  <2>4. TotalOf(depths, after) \in Nat
    BY <2>2, <2>3, TotalIs
  <2> QED
    BY <2>4 DEF after, s
<1> HIDE DEF tail
<1>3. ASSUME NEW i \in DOMAIN S PROVE tailOf(S[i]) \in Nat
  BY <1>2, GroupOfIs
<1>4. Tailed(S, groups, depth, stages, depths) =
        [i \in DOMAIN S |-> IF i \in OpenSets(S) \ Excluded(S) THEN depth[i] + tailOf(S[i]) ELSE depth[i]]
  BY DEF Tailed, tail
<1> HIDE DEF tailOf
<1>5. \A i \in DOMAIN S : depth[i] \in Nat /\ depth[i] + tailOf(S[i]) \in Nat
  BY <1>3
<1> QED
  BY <1>4, <1>5

LEMMA DepthsAre ==
    ASSUME NEW S \in Seq(SimSets), NEW groups \in Seq(Groups)
    PROVE  Depths(S, groups) \in [DOMAIN S -> Nat]
<1> DEFINE depth == Searched(S, groups).depth
<1>1. depth \in [DOMAIN S -> Nat]
  BY SearchedIs
<1>2. Depths(S, groups) = Tailed(S, groups, depth, Stages(groups), StageDepths(S, groups, depth))
  BY DEF Depths, Baked
<1> HIDE DEF depth
<1> QED
  BY <1>1, <1>2, StagesHold, StageDepthsAre, TailedIs

LEMMA AllRemainingIs ==
    ASSUME IsWorld(world), tables \in Tables, NEW p
    PROVE  AllRemaining(p) \in Nat
<1>1. ASSUME NEW S \in Seq(SimSets), NEW groups \in Seq(Groups) PROVE Remaining(S, groups, p) \in Nat
  <2> DEFINE swiss == {g \in DOMAIN groups : groups[g].kind = "swiss" /\ p \in Entrants(S, Members(S, groups[g]))}
             open == {i \in OpenSets(S) \ Excluded(S) : p \in Occupants(S[i])}
             f == [g \in swiss |-> FutureRounds(S, groups[g])]
  <2>1. open \in SUBSET DOMAIN S /\ swiss \in SUBSET DOMAIN groups
    BY DEF OpenSets
  <2>2. Cardinality(open) \in Nat
    <3> HIDE DEF open
    <3> QED
      BY <2>1, SetsFinite
  <2>3. IsFiniteSet(swiss)
    <3> HIDE DEF swiss
    <3>1. IsFiniteSet(DOMAIN groups)
      BY FS_Interval
    <3> QED
      BY <2>1, <3>1, FS_Subset
  <2>4. \A g \in swiss : f[g] \in Nat
    <3> HIDE DEF swiss
    <3>1. \A g \in swiss : groups[g] \in Groups
      BY <2>1
    <3> QED
      BY <3>1, FutureRoundsIs
  <2>5. TotalOf(f, swiss) \in Nat
    <3> HIDE DEF swiss, f
    <3> QED
      BY <2>3, <2>4, TotalIs
  <2>6. Remaining(S, groups, p) = Cardinality(open) + TotalOf(f, swiss)
    BY DEF Remaining
  <2> HIDE DEF open, swiss, f
  <2> QED
    BY <2>2, <2>5, <2>6
<1> DEFINE f == [b \in Brackets |-> Remaining(tables[b], world.groups[b], p)]
<1>2. \A b \in Brackets : f[b] \in Nat
  <2> TAKE b \in Brackets
  <2>1. tables[b] \in Seq(SimSets) /\ world.groups[b] \in Seq(Groups)
    BY DEF Tables, IsWorld
  <2> QED
    BY <1>1, <2>1
<1>3. AllRemaining(p) = TotalOf(f, Brackets)
  BY DEF AllRemaining
<1> HIDE DEF f
<1> QED
  BY <1>2, <1>3, TotalIs, SimulationAssumption

(* A score is a number. *)
LEMMA ScoreIs ==
    ASSUME IsWorld(world), tables \in Tables, NEW n \in Names
    PROVE  Score(n) \in Nat
<1> DEFINE b == n[1]
           S == tables[b]
           i == Position(n)
           f == [p \in Players |-> AllRemaining(p)]
           most == Greatest({AllRemaining(p) : p \in PlayersIn(n)}, 0)
<1>1. b \in Brackets /\ S \in Seq(SimSets) /\ i \in DOMAIN S
  <2>1. /\ n[1] \in Brackets /\ tables[n[1]] \in Seq(SimSets)
        /\ PlaceIn(tables[n[1]], n[2]) \in 1..Len(tables[n[1]])
    BY PlaceOf DEF Names
  <2> QED
    BY <2>1 DEF Position
<1>2. world.groups[b] \in Seq(Groups)
  BY <1>1 DEF IsWorld
<1>3. Depths(S, world.groups[b])[i] \in Nat
  <2> HIDE DEF S, b, i
  <2> QED
    BY <1>1, <1>2, DepthsAre
<1>4. Unblocks(S, i) \in Nat
  <2> DEFINE q == Dependents(S, i, OpenSets(S) \ Excluded(S))
  <2> HIDE DEF S, i, b
  <2>1. q \in Seq(DOMAIN S)
    BY <1>1, DependentsAre
  <2>2. Unblocks(S, i) = Len(q)
    BY DEF Unblocks
  <2> HIDE DEF q
  <2> QED
    BY <2>1, <2>2
<1>5. PlayersIn(n) \subseteq Players /\ IsFiniteSet(PlayersIn(n))
  <2>1. PlayersIn(n) = Entrants(S, {i})
    BY DEF PlayersIn, Entrants, Named, SetIn, Position
  <2> HIDE DEF S, i, b
  <2> QED
    BY <1>1, <2>1, EntrantsAre
<1>6. most \in Nat
  <2>1. {AllRemaining(p) : p \in PlayersIn(n)} = {f[p] : p \in PlayersIn(n)}
    BY <1>5
  <2>2. \A p \in PlayersIn(n) : f[p] \in Nat
    BY <1>5, AllRemainingIs
  <2> HIDE DEF f
  <2> QED
    BY <1>5, <2>1, <2>2, GreatestImage
<1>7. Score(n) = 100 * Depths(S, world.groups[b])[i] + 5 * most + Unblocks(S, i)
  BY DEF Score
<1> HIDE DEF S, b, i, most
<1> QED
  BY <1>3, <1>4, <1>6, <1>7

-----------------------------------------------------------------------------
(* The call sheet. *)

(* What a set's reasons leave open is what the index asks of it. *)
LEMMA NoReason ==
    ASSUME ApartInv, NEW n \in Names, NEW t \in Nat
    PROVE  Reasons(n, t) = {} <=> n \in Candidates(t)
<1> DEFINE pl == PlayersIn(n)
           flags == [p \in Players |-> IF p \in world.force THEN "force" ELSE "none"]
           table == [m \in Names |-> View(m)]
           idle(p) == C!Idle(p, n, board, table, flags, world.tomb, world.softBusy)
           free == C!FreeStations(board) \cap C!Pool(n[1], board, world.pools)
<1>1. n \in NamesIn(tables) /\ tables \in Tables /\ IsWorld(world)
  BY DEF ApartInv, Names
<1>2. n[1] \in Brackets /\ Named(n) \in SimSets
  BY <1>1, PlaceOf DEF Named
<1>3. pl \subseteq Players
  <2>1. Named(n).slots \in Seq(Slots)
    BY <1>2 DEF SimSets
  <2>2. ASSUME NEW k \in DOMAIN Named(n).slots PROVE Named(n).slots[k].who \in Players \cup {Nobody}
    <3>1. Named(n).slots[k] \in Slots
      BY <2>1
    <3> QED
      BY <3>1 DEF Slots
  <2> QED
    BY <2>2 DEF PlayersIn, Occupants
<1>4. world.opens[n[1]] \in Nat
  BY <1>1, <1>2, WorldTimes
<1>5. /\ Named(n).done \in BOOLEAN /\ Named(n).started \in BOOLEAN /\ Named(n).called \in BOOLEAN
      /\ Named(n).placeholder \in BOOLEAN
  BY <1>2 DEF SimSets
<1>6. /\ View(n) = "Done" <=> Named(n).done
      /\ View(n) \in {"Done", "ActiveCalled", "Active", "Called", "Ready"}
  BY <1>5 DEF View
<1>7. SetReasons(n) = {} <=>
        /\ ~Named(n).done
        /\ ~(View(n) \in C!RemotelyActive /\ n \notin world.tomb.suppressActive)
        /\ ~(View(n) \in C!CalledViews /\ n \notin world.tomb.suppressCalled)
        /\ n \notin world.tomb.awaiting
        /\ AllOccupied(Named(n)) /\ ~Named(n).placeholder
  BY DEF SetReasons
<1>8. BracketReasons(n[1], t) = {} <=>
        /\ world.mode[n[1]] # "ConflictOnly" /\ n[1] \notin world.held
        /\ ~(world.opens[n[1]] > t) /\ free # {}
  BY DEF BracketReasons
<1>9. ASSUME NEW p \in pl
      PROVE  PlayerReasons(n, p, t) = {} <=> ~Absent(n[1], p) /\ idle(p) /\ p \notin Resting(t)
  BY DEF PlayerReasons, TableView, PlayerFlags
<1>10. Reasons(n, t) = {} <=>
         /\ SetReasons(n) = {} /\ BracketReasons(n[1], t) = {}
         /\ \A p \in pl : PlayerReasons(n, p, t) = {}
  BY DEF Reasons
<1>11. C!Callable(n, board, table, flags, world.tomb, world.softBusy, world.pools, Resting(t), {}) <=>
         /\ n[1] \notin {b \in Brackets : world.mode[b] = "ConflictOnly"}
         /\ View(n) # "Done"
         /\ ~(View(n) \in C!RemotelyActive /\ n \notin world.tomb.suppressActive)
         /\ ~(View(n) \in C!CalledViews /\ n \notin world.tomb.suppressCalled)
         /\ n \notin world.tomb.awaiting
         /\ free # {}
         /\ \A p \in pl : p \notin Resting(t) /\ idle(p)
  <2>1. table[n] = View(n) /\ [m \in Names |-> m[1]][n] = n[1] /\ [m \in Names |-> PlayersIn(m)][n] = pl
    OBVIOUS
  <2>2. table[n] \notin C!NotPlayable <=> View(n) # "Done"
    BY <1>6, <2>1 DEF C!NotPlayable
  <2>3. \A p \in pl : flags[p] \notin {"resting", "departed"}
    BY <1>3
  <2> HIDE DEF table, flags, free, pl, idle
  <2> QED
    BY <2>1, <2>2, <2>3 DEF C!Callable, C!SetBlocked, free, pl, idle
<1>12. n \in Candidates(t) <=>
         /\ AllOccupied(Named(n)) /\ ~Named(n).placeholder /\ IsOpen(n[1], t)
         /\ \A p \in pl : ~Absent(n[1], p)
         /\ C!Callable(n, board, table, flags, world.tomb, world.softBusy, world.pools, Resting(t), {})
  BY DEF Candidates, Playable
<1>13. IsOpen(n[1], t) <=> n[1] \notin world.held /\ ~(world.opens[n[1]] > t)
  BY <1>4 DEF IsOpen
<1> HIDE DEF pl, flags, table, idle, free
<1> QED
  BY <1>2, <1>6, <1>7, <1>8, <1>9, <1>10, <1>11, <1>12, <1>13

(* The greedy order lists each candidate once, the better ones first. *)
Rated(n) == [score |-> Score(n), n |-> n]
LEMMA BeforeIs ==
    ASSUME IsWorld(world), tables \in Tables, NEW m \in Names, NEW n \in Names
    PROVE  /\ ~Before(Rated(m), Rated(m))
           /\ Before(Rated(m), Rated(n)) => ~Before(Rated(n), Rated(m))
           /\ m # n => Before(Rated(m), Rated(n)) \/ Before(Rated(n), Rated(m))
           /\ \A x \in Names : Before(Rated(m), Rated(n)) /\ Before(Rated(n), Rated(x)) => Before(Rated(m), Rated(x))
<1> DEFINE less(x, y) == \/ Score(x) > Score(y)
                         \/ Score(x) = Score(y) /\ x[1] < y[1]
                         \/ Score(x) = Score(y) /\ x[1] = y[1] /\ KeyBefore(x[2], y[2])
<1>1. ASSUME NEW x \in Names
      PROVE  /\ Score(x) \in Nat /\ x[1] \in Nat /\ x = <<x[1], x[2]>>
             /\ x[2][1] \in Nat /\ x[2][2] \in Int /\ x[2][3] \in Nat
             /\ x[2] = <<x[2][1], x[2][2], x[2][3]>>
  <2>1. x[1] \in Brackets /\ x = <<x[1], x[2]>> /\ SetIn(tables, x).key = x[2] /\ SetIn(tables, x) \in SimSets
    BY PlaceOf DEF Names
  <2>2. x[2] \in Nat \X Int \X Nat
    BY <2>1 DEF SimSets
  <2> QED
    BY <2>1, <2>2, ScoreIs, SimulationAssumption
<1>2. \A x, y : Before(Rated(x), Rated(y)) <=> less(x, y)
  BY DEF Before, Rated
<1>3. ~less(m, m)
  BY <1>1 DEF KeyBefore
<1>4. less(m, n) => ~less(n, m)
  BY <1>1 DEF KeyBefore
<1>5. m # n => less(m, n) \/ less(n, m)
  <2>1. ASSUME m[1] = n[1], m[2][1] = n[2][1], m[2][2] = n[2][2], m[2][3] = n[2][3] PROVE m = n
    BY <1>1, <2>1
  <2>2. m # n => m[1] # n[1] \/ m[2][1] # n[2][1] \/ m[2][2] # n[2][2] \/ m[2][3] # n[2][3]
    BY <2>1
  <2> QED
    BY <1>1, <2>2 DEF KeyBefore
<1>6. ASSUME NEW x \in Names, less(m, n), less(n, x) PROVE less(m, x)
  BY <1>1, <1>6 DEF KeyBefore
<1> HIDE DEF less
<1> QED
  BY <1>2, <1>3, <1>4, <1>5, <1>6

LEMMA GreedyIs ==
    ASSUME IsWorld(world), tables \in Tables, NEW S \in SUBSET Names
    PROVE  LET q == Greedy(S) IN
           /\ q \in Seq(S) /\ DOMAIN q = 1..Len(q) /\ Len(q) \in Nat
           /\ \A n \in S : \E k \in DOMAIN q : q[k] = n
           /\ \A j, k \in DOMAIN q : j < k => Before(Rated(q[j]), Rated(q[k]))
<1> DEFINE X == Scored(S)
           below == [x \in X |-> {y \in X : Before(y, x)}]
           ranked == Ordered(X, Before)
           q == [k \in DOMAIN ranked |-> ranked[k].n]
<1>1. X = {Rated(n) : n \in S}
  BY DEF Scored, Rated
<1>2. IsFiniteSet(X)
  <2> DEFINE f == [n \in S |-> Rated(n)]
  <2>1. IsFiniteSet(Names)
    BY NamesFinite DEF Names
  <2>2. IsFiniteSet(S)
    BY <2>1, FS_Subset
  <2>3. X = {f[n] : n \in S}
    BY <1>1
  <2> HIDE DEF f, X
  <2> QED
    BY <2>2, <2>3, ImageFinite
<1> HIDE DEF X
<1>3. InARow(X, below)
  <2>1. below \in [X -> SUBSET X] /\ \A x, y \in X : y \in below[x] <=> Before(y, x)
    OBVIOUS
  <2> HIDE DEF below
  <2>2. \A x \in X : x \notin below[x]
    BY <1>1, <2>1, BeforeIs
  <2>3. ASSUME NEW x \in X, NEW y \in X, x \in below[y] PROVE below[x] \subseteq below[y] /\ y \notin below[x]
    <3>1. PICK m \in S, n \in S : x = Rated(m) /\ y = Rated(n)
      BY <1>1
    <3>2. Before(x, y) /\ ~Before(y, x)
      BY <2>1, <2>3, <3>1, BeforeIs
    <3>3. ASSUME NEW z \in below[x] PROVE z \in below[y]
      <4>1. z \in X /\ Before(z, x)
        BY <2>1
      <4>2. PICK l \in S : z = Rated(l)
        BY <1>1, <4>1
      <4>3. Before(z, y)
        BY <3>1, <3>2, <4>1, <4>2, BeforeIs
      <4> QED
        BY <2>1, <4>1, <4>3
    <3> QED
      BY <2>1, <3>2, <3>3
  <2>4. ASSUME NEW x \in X, NEW y \in X, x # y PROVE x \in below[y] \/ y \in below[x]
    <3>1. PICK m \in S, n \in S : x = Rated(m) /\ y = Rated(n) /\ m # n
      BY <1>1, <2>4
    <3> QED
      BY <2>1, <3>1, BeforeIs
  <2> QED
    BY <2>1, <2>2, <2>3, <2>4 DEF InARow
<1>4. ranked = ListedBy(below, X)
  <2> DEFINE one(k) == CHOOSE x \in X : Cardinality({y \in X : Before(y, x)}) = k - 1
             other(k) == CHOOSE x \in X : Cardinality(below[x]) = k - 1
  <2>1. ASSUME NEW k PROVE one(k) = other(k)
    <3>1. \A x \in X : below[x] = {y \in X : Before(y, x)}
      OBVIOUS
    <3> HIDE DEF below
    <3> QED
      BY <3>1
  <2>2. ranked = [k \in 1..Cardinality(X) |-> one(k)]
    BY DEF Ordered
  <2>3. ListedBy(below, X) = [k \in 1..Cardinality(X) |-> other(k)]
    BY DEF ListedBy
  <2> HIDE DEF one, other, ranked
  <2> QED
    BY <2>1, <2>2, <2>3
<1> DEFINE c == Cardinality(X)
<1>5. /\ c \in Nat /\ ranked \in Seq(X) /\ DOMAIN ranked = 1..c
      /\ \A x \in X : \E k \in DOMAIN ranked : ranked[k] = x
      /\ \A j, k \in DOMAIN ranked : j < k => ranked[j] \in below[ranked[k]]
  <2> HIDE DEF below, ranked
  <2> QED
    BY <1>2, <1>3, <1>4, InARowListed
<1>6. Greedy(S) = q
  BY DEF Greedy, X
<1> HIDE DEF ranked, c
<1>7. ASSUME NEW k \in 1..c PROVE q[k] \in S /\ ranked[k] = Rated(q[k]) /\ ranked[k] \in X
  <2>1. ranked[k] \in X
    BY <1>5
  <2>2. PICK n \in S : ranked[k] = Rated(n)
    BY <1>1, <2>1
  <2>3. q[k] = n
    BY <1>5, <2>2 DEF Rated
  <2> QED
    BY <2>1, <2>2, <2>3
<1>8. DOMAIN q = 1..c /\ q = [k \in 1..c |-> q[k]]
  BY <1>5
<1>9. ASSUME NEW n \in S PROVE \E k \in 1..c : q[k] = n
  <2>1. PICK k \in 1..c : ranked[k] = Rated(n)
    BY <1>1, <1>5
  <2>2. q[k] = n
    BY <1>5, <2>1 DEF Rated
  <2> QED
    BY <2>2
<1>10. ASSUME NEW j \in 1..c, NEW k \in 1..c, j < k PROVE Before(Rated(q[j]), Rated(q[k]))
  <2>1. ranked[j] \in below[ranked[k]]
    BY <1>5, <1>10
  <2>2. Before(ranked[j], ranked[k])
    BY <1>7, <2>1
  <2> HIDE DEF q
  <2> QED
    BY <1>7, <2>2
<1> HIDE DEF q
<1>11. q \in Seq(S) /\ Len(q) = c
  BY <1>5, <1>7, <1>8, ListIn
<1> QED
  BY <1>5, <1>6, <1>8, <1>9, <1>10, <1>11

(* What the call sheet shows as queued is what some free station may take. *)
LEMMA QueueIs ==
    ASSUME ApartInv
    PROVE  LET queue == Queue IN
           /\ queue \in Seq(CallableNow) /\ DOMAIN queue = 1..Len(queue) /\ Len(queue) \in Nat
           /\ \A n \in CallableNow : \E k \in DOMAIN queue : queue[k] = n
           /\ \A j, k \in DOMAIN queue : j < k => Before(Rated(queue[j]), Rated(queue[k]))
<1> DEFINE all == UNION {ToSet(PerSetup[st]) : st \in DOMAIN PerSetup}
<1>1. IsWorld(world) /\ tables \in Tables
  BY DEF ApartInv
<1>2. CallableNow \in SUBSET Names
  BY DEF CallableNow, Candidates
<1>3. ASSUME NEW st \in DOMAIN PerSetup PROVE ToSet(PerSetup[st]) = On(st, CallableNow)
  <2> DEFINE S == On(st, CallableNow)
             q == Greedy(S)
  <2>1. PerSetup[st] = q
    BY DEF PerSetup, Options
  <2>2. S \in SUBSET Names
    BY <1>2 DEF On
  <2> HIDE DEF S
  <2>3. q \in Seq(S) /\ DOMAIN q = 1..Len(q) /\ Len(q) \in Nat /\ \A n \in S : \E k \in DOMAIN q : q[k] = n
    BY <1>1, <2>2, GreedyIs
  <2> HIDE DEF q
  <2>4. {q[i] : i \in DOMAIN q} = S
    BY <2>3
  <2> QED
    BY <2>1, <2>4 DEF ToSet, S
<1>4. ASSUME NEW n \in CallableNow PROVE n \in all
  <2>1. C!FreeStations(board) \cap C!Pool([m \in Names |-> m[1]][n], board, world.pools) # {} /\ n \in Names
    BY DEF CallableNow, Candidates, C!Callable
  <2>2. PICK st \in C!FreeStations(board) : st \in C!Pool(n[1], board, world.pools)
    BY <2>1
  <2>3. st \in DOMAIN PerSetup /\ n \in On(st, CallableNow)
    BY <2>2 DEF PerSetup, On
  <2>4. n \in ToSet(PerSetup[st])
    BY <1>3, <2>3
  <2> QED
    BY <2>3, <2>4
<1>5. ASSUME NEW n \in all PROVE n \in CallableNow
  <2>1. PICK st \in DOMAIN PerSetup : n \in ToSet(PerSetup[st])
    OBVIOUS
  <2> QED
    BY <1>3, <2>1 DEF On
<1>6. all = CallableNow
  <2> HIDE DEF all
  <2> QED
    BY <1>4, <1>5
<1>7. Queue = Greedy(CallableNow)
  BY <1>6 DEF Queue
<1> QED
  BY <1>1, <1>2, <1>7, GreedyIs

LEMMA SheetAccounts ==
    ASSUME ApartInv, clock \in Nat
    PROVE  QueuedOrBlocked
<1> DEFINE queue == Queue
           queued == ToSet(queue)
           A == C!Assigned(board)
           why == {m \in Unplayed \ A : Reasons(m, clock) # {}}
<1>1. queued = CallableNow
  <2>1. queue \in Seq(CallableNow) /\ DOMAIN queue = 1..Len(queue) /\ \A n \in CallableNow : \E k \in DOMAIN queue : queue[k] = n
    BY QueueIs
  <2> HIDE DEF queue
  <2>2. {queue[i] : i \in DOMAIN queue} = CallableNow
    BY <2>1
  <2> QED
    BY <2>2 DEF ToSet
<1>2. DOMAIN Blocked = why
  BY DEF Blocked
<1>3. ASSUME NEW n \in Names
      PROVE  n \in CallableNow <=> n \notin A /\ Reasons(n, clock) = {}
  BY NoReason DEF CallableNow
<1>4. ASSUME NEW n \in CallableNow PROVE n \in Unplayed
  <2>1. n \in Names /\ Reasons(n, clock) = {}
    BY <1>3 DEF CallableNow, Candidates
  <2>2. SetReasons(n) = {}
    BY <2>1 DEF Reasons
  <2>3. "Completed" \notin SetReasons(n)
    BY <2>2
  <2>4. ~Named(n).done
    BY <2>3 DEF SetReasons
  <2> QED
    BY <2>1, <2>4 DEF Unplayed
<1>5. Unplayed \subseteq Names /\ CallableNow \subseteq Names
  BY DEF Unplayed, CallableNow, Candidates
<1> HIDE DEF queue, queued, A
<1>6. Unplayed \ A = queued \cup why /\ queued \cap why = {}
  BY <1>1, <1>3, <1>4, <1>5
<1> QED
  BY <1>2, <1>6 DEF QueuedOrBlocked, queued, queue, A

(* A station that takes a set follows the sheet. *)
LEMMA SheetTaken ==
    ASSUME ApartInv, clock \in Nat, Assign,
           NEW st \in Setups, board'[st].set \notin {NoSet, board[st].set}
    PROVE  TakenFirst(st, board'[st].set)
<1> DEFINE all == Candidates(clock)
           takers == Takers(all)
           rated(x) == Scored(On(x, all))
<1>1. PICK taker \in takers : \E first \in rated(taker) :
         /\ \A x \in rated(taker) : ~Before(x, first)
         /\ Seat(taker, first.n)
  <2> HIDE DEF all, rated
  <2>1. \E candidates \in {all} : \E t \in {Takers(candidates)} : \E s \in t :
           \E scored \in {Scored(On(s, candidates))} : \E first \in scored :
              /\ \A x \in scored : ~Before(x, first)
              /\ Seat(s, first.n)
    BY DEF Assign, all
  <2> QED
    BY <2>1 DEF rated
<1> HIDE DEF takers, rated
<1>2. PICK first \in rated(taker) : (\A x \in rated(taker) : ~Before(x, first)) /\ Seat(taker, first.n)
  BY <1>1
<1>3. PICK n \in On(taker, all) : first = Rated(n)
  BY <1>2 DEF rated, Scored, Rated
<1>4. first.n = n
  BY <1>3 DEF Rated
<1>5. taker \in Setups /\ board \in Boards(tables) /\ IsWorld(world) /\ tables \in Tables
      /\ taker \in C!FreeStations(board)
  <2>1. taker \in C!FreeStations(board)
    BY <1>1 DEF takers, Takers
  <2> QED
    BY <2>1 DEF ApartInv, C!FreeStations
<1>6. st = taker /\ board'[st].set = n
  <2>1. board' = [board EXCEPT ![taker].kind = "InProgress", ![taker].set = n]
    BY <1>2, <1>4 DEF Seat
  <2>2. st # taker => board'[st] = board[st]
    BY <1>5, <2>1 DEF Boards
  <2>3. board'[taker].set = n
    BY <1>5, <2>1 DEF Boards
  <2> QED
    BY <2>2, <2>3
<1>7. n \in all /\ Takes(st, n) /\ n \in Names
  BY <1>3, <1>6 DEF On, Takes, all, Candidates
<1>8. st \notin PoolExhausted
  <2> SUFFICES ASSUME st \in PoolExhausted PROVE FALSE
    OBVIOUS
  <2>1. Reasons(n, clock) = {}
    BY <1>7, NoReason DEF all
  <2>2. "Completed" \notin SetReasons(n) /\ "ConflictOnlyBracket" \notin BracketReasons(n[1], clock)
    BY <2>1 DEF Reasons
  <2>3. ~Named(n).done
    BY <2>2 DEF SetReasons
  <2>4. world.mode[n[1]] # "ConflictOnly"
    BY <2>2 DEF BracketReasons
  <2>5. n[1] \in Brackets /\ Position(n) \in DOMAIN tables[n[1]]
    <3>1. n[1] \in Brackets /\ tables[n[1]] \in Seq(SimSets) /\ PlaceIn(tables[n[1]], n[2]) \in 1..Len(tables[n[1]])
      BY <1>5, <1>7, PlaceOf DEF Names
    <3> QED
      BY <3>1 DEF Position
  <2>6. world.mode[n[1]] = "Full"
    BY <1>5, <2>4, <2>5 DEF IsWorld
  <2>7. n[1] \in Serving(st)
    BY <1>7, <2>5, <2>6 DEF Serving, Takes
  <2>8. IsOver(n[1])
    BY <2>7 DEF PoolExhausted
  <2>9. Position(n) \in OpenSets(tables[n[1]])
    BY <2>3, <2>5 DEF OpenSets, Named, SetIn, Position
  <2> QED
    BY <2>8, <2>9 DEF IsOver
<1>9. CASE n \in C!Assigned(board)
  BY <1>6, <1>8, <1>9 DEF TakenFirst
<1>10. CASE n \notin C!Assigned(board)
  <2> DEFINE queue == Queue
  <2>1. /\ queue \in Seq(CallableNow) /\ DOMAIN queue = 1..Len(queue) /\ Len(queue) \in Nat
        /\ \A m \in CallableNow : \E k \in DOMAIN queue : queue[k] = m
        /\ \A j, k \in DOMAIN queue : j < k => Before(Rated(queue[j]), Rated(queue[k]))
    BY QueueIs
  <2>2. n \in CallableNow
    BY <1>7, <1>10 DEF CallableNow, all
  <2> HIDE DEF queue
  <2>3. PICK k \in DOMAIN queue : queue[k] = n
    BY <2>1, <2>2
  <2>4. ASSUME NEW i \in 1..(k - 1), Takes(st, queue[i]) PROVE FALSE
    <3>1. i \in DOMAIN queue /\ i < k
      BY <2>1, <2>3
    <3>2. queue[i] \in CallableNow
      BY <2>1, <3>1
    <3>3. queue[i] \in On(taker, all)
      BY <1>6, <2>4, <3>2 DEF On, CallableNow, Takes, all
    <3>4. Rated(queue[i]) \in rated(taker)
      BY <3>3 DEF rated, Scored, Rated
    <3>5. ~Before(Rated(queue[i]), Rated(n))
      BY <1>2, <1>3, <3>4
    <3> QED
      BY <2>1, <2>3, <3>1, <3>5
  <2> QED
    BY <1>6, <1>7, <1>8, <2>3, <2>4 DEF TakenFirst, queue
<1> QED
  BY <1>9, <1>10

(* The call sheet (recompute): the queue and the blocked sets account for  *)
(* every set that is not on a station, and a projection takes the first    *)
(* set of the queue that the station may have, none if it was exhausted.   *)
THEOREM SheetIsFollowed == PSpec => SheetFollowed
<1> DEFINE Follows == phase = "calls" /\ phase' = "calls" =>
         /\ QueuedOrBlocked
         /\ \A st \in Setups : board'[st].set \notin {NoSet, board[st].set} => TakenFirst(st, board'[st].set)
<1>1. RunInv /\ [PNext]_allVars => [Follows]_allVars
  <2> SUFFICES ASSUME RunInv, PNext, phase = "calls", phase' = "calls"
               PROVE  /\ QueuedOrBlocked
                      /\ \A st \in Setups : board'[st].set \notin {NoSet, board[st].set}
                                              => TakenFirst(st, board'[st].set)
    OBVIOUS
  <2>1. ApartInv /\ clock \in Nat
    BY DEF RunInv, WakeInv
  <2>2. board' = board \/ Assign
    <3>1. CASE ListOptions \/ Install \/ TimePasses \/ \E b \in Brackets : Fetch(b)
      BY <3>1 DEF ListOptions, Install, TimePasses, Fetch, vars
    <3>2. CASE Evaluated
      BY <3>2 DEF Evaluated, Again, vars
    <3>3. CASE Step
      BY <3>3 DEF Step, Next, ForceCall, ForceHold, Walkover, NoWalkover, NoAssignment, Pop, End
    <3> QED
      BY <3>1, <3>2, <3>3 DEF PNext
  <2>3. QueuedOrBlocked
    BY <2>1, SheetAccounts
  <2>4. ASSUME NEW st \in Setups, board'[st].set \notin {NoSet, board[st].set}
        PROVE  TakenFirst(st, board'[st].set)
    BY <2>1, <2>2, <2>4, SheetTaken
  <2> QED
    BY <2>3, <2>4
<1> QED
  BY <1>1, RunsBegin, RunsGoOn, PTL DEF PSpec, SheetFollowed

-----------------------------------------------------------------------------
(* The depths are those of the longest chains. *)

(* What waits for a set is what the search goes on to. *)
LEMMA DependentsWait ==
    ASSUME NEW S \in Seq(SimSets), NEW i, NEW P
    PROVE  LET q == Dependents(S, i, P) IN
           {q[k] : k \in DOMAIN q} = {j \in DOMAIN S \cap P : \E k \in DOMAIN S[j].slots : S[j].slots[k].from = S[i].id}
<1> DEFINE D == DOMAIN S
           W == {j \in D \cap P : \E k \in DOMAIN S[j].slots : S[j].slots[k].from = S[i].id}
           one(j, k) == IF j \in P /\ S[j].slots[k].from = S[i].id THEN <<j>> ELSE <<>>
           inner == [j \in D |-> [k \in DOMAIN S[j].slots |-> one(j, k)]]
           part == [j \in D |-> FlattenSeq(inner[j])]
           q == Dependents(S, i, P)
<1>1. D = 1..Len(S) /\ Len(S) \in Nat
  OBVIOUS
<1>2. q = FlattenSeq(part)
  BY DEF Dependents
<1>3. ASSUME NEW j \in D
      PROVE  /\ DOMAIN inner[j] = DOMAIN S[j].slots /\ inner[j] \in Seq(Seq(W))
             /\ \A k \in DOMAIN S[j].slots : inner[j][k] = one(j, k)
  <2> DEFINE m == Len(S[j].slots)
             r == inner[j]
  <2>1. S[j] \in SimSets
    OBVIOUS
  <2>2. m \in Nat /\ DOMAIN S[j].slots = 1..m
    BY <2>1 DEF SimSets
  <2>3. \A k \in 1..m : one(j, k) \in Seq(W)
    <3> TAKE k \in 1..m
    <3>1. CASE j \in P /\ S[j].slots[k].from = S[i].id
      <4>1. j \in W
        BY <2>2, <3>1
      <4> HIDE DEF W
      <4>2. <<j>> \in Seq(W)
        BY <4>1
      <4> QED
        BY <3>1, <4>2
    <3>2. CASE ~(j \in P /\ S[j].slots[k].from = S[i].id)
      <4> HIDE DEF W
      <4>1. <<>> \in Seq(W)
        OBVIOUS
      <4> QED
        BY <3>2, <4>1
    <3> QED
      BY <3>1, <3>2
  <2>4. r = [k \in DOMAIN S[j].slots |-> one(j, k)]
    OBVIOUS
  <2> HIDE DEF r, one, W, m
  <2>5. r = [k \in 1..m |-> r[k]] /\ \A k \in 1..m : r[k] = one(j, k)
    BY <2>2, <2>4
  <2>6. r \in Seq(Seq(W))
    BY <2>2, <2>3, <2>5, ListIn
  <2>7. DOMAIN r = DOMAIN S[j].slots
    BY <2>4
  <2> QED
    BY <2>2, <2>5, <2>6, <2>7 DEF r
<1>4. part \in Seq(Seq(W))
  <2>1. \A j \in 1..Len(S) : part[j] \in Seq(W)
    <3> TAKE j \in 1..Len(S)
    <3>1. inner[j] \in Seq(Seq(W))
      BY <1>1, <1>3
    <3>2. part[j] = FlattenSeq(inner[j])
      BY <1>1
    <3> HIDE DEF inner, part, W
    <3> QED
      BY <3>1, <3>2, FlattenIn
  <2>2. part = [j \in 1..Len(S) |-> part[j]]
    BY <1>1
  <2> HIDE DEF part, W
  <2> QED
    BY <1>1, <2>1, <2>2, ListIn
<1>5. q \in Seq(W)
  <2> HIDE DEF part, W, q
  <2> QED
    BY <1>2, <1>4, FlattenIn
<1>6. ASSUME NEW j \in W PROVE \E k \in DOMAIN q : q[k] = j
  <2>1. PICK k \in DOMAIN S[j].slots : S[j].slots[k].from = S[i].id
    OBVIOUS
  <2>2. inner[j] \in Seq(Seq(W)) /\ k \in DOMAIN inner[j] /\ inner[j][k] = <<j>>
    BY <1>3, <2>1
  <2>3. 1 \in DOMAIN inner[j][k] /\ inner[j][k][1] = j
    BY <2>2
  <2>4. PICK m \in DOMAIN FlattenSeq(inner[j]) : FlattenSeq(inner[j])[m] = j
    <3> DEFINE r == inner[j]
    <3>1. r \in Seq(Seq(W)) /\ k \in DOMAIN r /\ 1 \in DOMAIN r[k] /\ r[k][1] = j
      BY <2>2, <2>3
    <3> HIDE DEF r, W
    <3>2. \E m \in DOMAIN FlattenSeq(r) : FlattenSeq(r)[m] = r[k][1]
      BY <3>1, FlattenHolds
    <3> QED
      BY <3>1, <3>2 DEF r
  <2>5. j \in DOMAIN part /\ part[j] = FlattenSeq(inner[j])
    OBVIOUS
  <2> HIDE DEF part, inner, q, W
  <2>6. m \in DOMAIN part[j] /\ part[j][m] = j
    BY <2>4, <2>5
  <2>7. \E k1 \in DOMAIN FlattenSeq(part) : FlattenSeq(part)[k1] = part[j][m]
    BY <1>4, <2>5, <2>6, FlattenHolds
  <2> QED
    BY <1>2, <2>6, <2>7
<1> HIDE DEF q, W
<1>7. {q[k] : k \in DOMAIN q} = W
  BY <1>5, <1>6
<1> QED
  BY <1>7 DEF q, W

-----------------------------------------------------------------------------
(* What lies behind a place of a graph. *)
Closed(succ, Y) == \A j \in Y : succ[j] \subseteq Y
Sinks(succ, Z) == \A X \in SUBSET Z : X # {} => \E x \in X : succ[x] \cap X = {}
Behind(succ, D, i, R) ==
    /\ R \in SUBSET D /\ succ[i] \subseteq R /\ Closed(succ, R)
    /\ \A Y \in SUBSET D : succ[i] \subseteq Y /\ Closed(succ, Y) => R \subseteq Y

(* Going on as often as there are places finds all of it. *)
LEMMA BehindFound ==
    ASSUME NEW D, IsFiniteSet(D), NEW succ \in [D -> SUBSET D], NEW i \in D,
           NEW f \in [0..Cardinality(D) -> SUBSET D], f[0] = succ[i],
           \A k \in 1..Cardinality(D) : f[k] = f[k - 1] \cup UNION {succ[j] : j \in f[k - 1]}
    PROVE  Behind(succ, D, i, f[Cardinality(D)])
<1> DEFINE n == Cardinality(D)
           B == {k \in 0..n : succ[i] \subseteq f[k] /\ (Closed(succ, f[k]) \/ Cardinality(f[k]) >= k + 1)}
<1>1. n \in Nat /\ \A X \in SUBSET D : IsFiniteSet(X) /\ Cardinality(X) \in Nat /\ Cardinality(X) <= n
  BY FS_Subset, FS_CardinalityType
<1>2. 0 \in B
  <2>1. CASE succ[i] = {}
    BY <1>1, <2>1 DEF Closed
  <2>2. CASE succ[i] # {}
    <3>1. Cardinality(succ[i]) # 0 /\ Cardinality(succ[i]) \in Nat
      BY <1>1, <2>2, FS_EmptySet
    <3> HIDE DEF n
    <3> QED
      BY <1>1, <3>1
  <2> QED
    BY <2>1, <2>2
<1>3. ASSUME NEW k \in 1..n, k - 1 \in B PROVE k \in B
  <2> HIDE DEF n
  <2>1. k \in 0..n /\ k - 1 \in 0..n /\ f[k] \in SUBSET D /\ f[k - 1] \in SUBSET D
    BY <1>1 DEF n
  <2>2. f[k] = f[k - 1] \cup UNION {succ[j] : j \in f[k - 1]}
    BY DEF n
  <2>3. succ[i] \subseteq f[k]
    BY <1>3, <2>2
  <2>4. CASE Closed(succ, f[k - 1])
    <3>1. f[k] = f[k - 1]
      BY <2>2, <2>4 DEF Closed
    <3> QED
      BY <2>1, <2>3, <2>4, <3>1
  <2>5. CASE ~Closed(succ, f[k - 1])
    <3>0. PICK j \in f[k - 1] : ~(succ[j] \subseteq f[k - 1])
      BY <2>5 DEF Closed
    <3>1. PICK x \in succ[j] : x \notin f[k - 1]
      BY <3>0
    <3>2. x \in f[k] /\ x \in D
      BY <2>1, <2>2, <3>1
    <3>3. Cardinality(f[k - 1] \cup {x}) = Cardinality(f[k - 1]) + 1
      BY <1>1, <2>1, <3>1, FS_AddElement
    <3>4. Cardinality(f[k - 1] \cup {x}) <= Cardinality(f[k])
      <4>1. f[k - 1] \cup {x} \in SUBSET f[k]
        BY <2>2, <3>2
      <4> QED
        BY <1>1, <2>1, <4>1, FS_Subset
    <3>5. Cardinality(f[k - 1]) >= (k - 1) + 1
      BY <1>3, <2>5
    <3>6. Cardinality(f[k - 1]) \in Nat /\ Cardinality(f[k]) \in Nat
      BY <1>1, <2>1
    <3>7. Cardinality(f[k]) >= k + 1
      BY <1>1, <3>3, <3>4, <3>5, <3>6
    <3> QED
      BY <2>1, <2>3, <3>7
  <2> QED
    BY <2>4, <2>5
<1>4. n \in 0..n
  BY <1>1
<1>5. n \in B
  <2> HIDE DEF B, n
  <2> QED
    BY <1>1, <1>2, <1>3, <1>4, Upwards
<1>6. f[n] \in SUBSET D /\ succ[i] \subseteq f[n] /\ Closed(succ, f[n])
  <2>1. f[n] \in SUBSET D
    BY <1>4
  <2>2. ~(Cardinality(f[n]) >= n + 1)
    <3>1. Cardinality(f[n]) \in Nat /\ Cardinality(f[n]) <= n
      BY <1>1, <2>1
    <3> HIDE DEF n
    <3> QED
      BY <1>1, <3>1
  <2> QED
    BY <1>5, <2>1, <2>2
<1>7. ASSUME NEW Y \in SUBSET D, succ[i] \subseteq Y, Closed(succ, Y) PROVE f[n] \subseteq Y
  <2> DEFINE U == {k \in 0..n : f[k] \subseteq Y}
  <2>1. 0 \in U
    BY <1>1, <1>7
  <2>2. ASSUME NEW k \in 1..n, k - 1 \in U PROVE k \in U
    BY <1>7, <2>2 DEF Closed
  <2>3. n \in U
    <3> HIDE DEF U, n
    <3> QED
      BY <1>1, <1>4, <2>1, <2>2, Upwards
  <2> QED
    BY <2>3
<1> QED
  BY <1>6, <1>7 DEF Behind

(* Where every part of a graph has a last place, nothing lies behind itself. *)
LEMMA SinksApart ==
    ASSUME NEW D, NEW succ \in [D -> SUBSET D], Sinks(succ, D),
           NEW R \in [D -> SUBSET D], \A i \in D : Behind(succ, D, i, R[i])
    PROVE  \A i \in D : i \notin R[i]
<1> SUFFICES ASSUME NEW i \in D, i \in R[i] PROVE FALSE
  OBVIOUS
<1> DEFINE X == {j \in D : i \in R[j]}
<1>1. PICK x \in X : succ[x] \cap X = {}
  <2>1. X \in SUBSET D /\ X # {}
    OBVIOUS
  <2> HIDE DEF X
  <2> QED
    BY <2>1 DEF Sinks
<1> DEFINE Y == succ[x] \cup UNION {R[j] : j \in succ[x]}
<1>2. Y \in SUBSET D /\ succ[x] \subseteq Y
  OBVIOUS
<1>3. ASSUME NEW j \in Y PROVE succ[j] \subseteq Y
  <2>1. CASE j \in succ[x]
    <3>1. j \in D /\ succ[j] \subseteq R[j]
      BY <2>1 DEF Behind
    <3> QED
      BY <2>1, <3>1
  <2>2. CASE j \notin succ[x]
    <3>1. PICK k \in succ[x] : j \in R[k]
      BY <2>2
    <3>2. k \in D /\ Closed(succ, R[k])
      BY DEF Behind
    <3>3. succ[j] \subseteq R[k]
      BY <3>1, <3>2 DEF Closed
    <3> QED
      BY <3>1, <3>3
  <2> QED
    BY <2>1, <2>2
<1>4. i \in Y
  <2>1. R[x] \subseteq Y
    <3> HIDE DEF Y
    <3> QED
      BY <1>2, <1>3 DEF Behind, Closed
  <2> QED
    BY <2>1
<1>5. PICK k \in succ[x] : k = i \/ i \in R[k]
  BY <1>4
<1> QED
  BY <1>1, <1>5

-----------------------------------------------------------------------------
(* What the search has finished, and the path it is on. *)
Finishes(s) == {x \in DOMAIN s.color : s.color[x] = "done"}
Path(s) == {x \in DOMAIN s.color : s.color[x] = "open"}

(* What is finished is finished with all that waits for it, and its depth   *)
(* is that of the deepest of those and its own weight.                     *)
Settled(s, succ, weight) ==
    /\ \A j \in Finishes(s) : /\ succ[j] \subseteq Finishes(s)
                              /\ s.depth[j] = weight[j] + Greatest({s.depth[k] : k \in succ[j]}, 0)
    /\ Sinks(succ, Finishes(s))

Onward(s, t) ==
    /\ Path(t) = Path(s) /\ s.cycles \subseteq t.cycles
    /\ Finishes(s) \subseteq Finishes(t) /\ \A j \in Finishes(s) : t.depth[j] = s.depth[j]

(* A cycle that is reported is one: the path leads to where the search is. *)
Visited(s, t, i, succ, weight, R) ==
    /\ Onward(s, t) /\ t.best = s.best
    /\ t.cycles = {} /\ Settled(s, succ, weight) =>
          Settled(t, succ, weight) /\ i \in Finishes(t) /\ t.value = t.depth[i]
    /\ (\A o \in Path(s) : i \in R[o]) => \A x \in t.cycles \ s.cycles : x \in R[x]

LEMMA OnwardTwice ==
    ASSUME NEW r, NEW s, NEW t, Onward(r, s), Onward(s, t)
    PROVE  Onward(r, t)
  BY DEF Onward

(* The dependents of a set, one after another. *)
Walked(s0, s, q, k, succ, weight, R) ==
    /\ Onward(s0, s)
    /\ s.cycles = {} /\ Settled(s0, succ, weight) =>
          /\ Settled(s, succ, weight)
          /\ \A m \in 1..k : q[m] \in Finishes(s) /\ s.depth[q[m]] <= s.best
          /\ s.best = 0 \/ \E m \in 1..k : s.best = s.depth[q[m]]
    /\ (\A o \in Path(s0) : \A m \in 1..k : q[m] \in R[o]) => \A x \in s.cycles \ s0.cycles : x \in R[x]

LEMMA WalkedOn ==
    ASSUME NEW D, NEW succ, NEW weight, NEW R, NEW s0, NEW s \in Searches(D), NEW t \in Searches(D),
           NEW q \in Seq(D), NEW k \in 1..Len(q),
           Walked(s0, s, q, k - 1, succ, weight, R), Visited(s, t, q[k], succ, weight, R)
    PROVE  Walked(s0, [t EXCEPT !.best = Larger(s.best, t.value)], q, k, succ, weight, R)
<1> DEFINE u == [t EXCEPT !.best = Larger(s.best, t.value)]
<1>1. /\ s.best \in Nat /\ t.value \in Nat /\ t.best \in Nat
      /\ s.color \in [D -> {"new", "open", "done"}] /\ t.color \in [D -> {"new", "open", "done"}]
      /\ s.depth \in [D -> Nat] /\ t.depth \in [D -> Nat]
      /\ q[k] \in D /\ k \in Nat /\ 1..k = 1..(k - 1) \cup {k}
  BY DEF Searches
<1>2. u.color = t.color /\ u.depth = t.depth /\ u.cycles = t.cycles /\ u.best = Larger(s.best, t.value)
  BY DEF Searches
<1> HIDE DEF u
<1>3. Finishes(u) = Finishes(t) /\ Path(u) = Path(t) /\ (Settled(u, succ, weight) <=> Settled(t, succ, weight))
  BY <1>2 DEF Finishes, Path, Settled
<1>4. Onward(s0, u)
  <2>1. Onward(s0, t)
    BY OnwardTwice DEF Walked, Visited
  <2> QED
    BY <1>2, <1>3, <2>1 DEF Onward
<1>5. ASSUME u.cycles = {}, Settled(s0, succ, weight)
      PROVE  /\ Settled(u, succ, weight)
             /\ \A m \in 1..k : q[m] \in Finishes(u) /\ u.depth[q[m]] <= u.best
             /\ u.best = 0 \/ \E m \in 1..k : u.best = u.depth[q[m]]
  <2>1. t.cycles = {} /\ s.cycles = {}
    BY <1>2, <1>5 DEF Visited, Onward
  <2>2. /\ Settled(s, succ, weight)
        /\ \A m \in 1..(k - 1) : q[m] \in Finishes(s) /\ s.depth[q[m]] <= s.best
        /\ s.best = 0 \/ \E m \in 1..(k - 1) : s.best = s.depth[q[m]]
    BY <1>5, <2>1 DEF Walked
  <2>3. Settled(t, succ, weight) /\ q[k] \in Finishes(t) /\ t.value = t.depth[q[k]]
    BY <2>1, <2>2 DEF Visited
  <2>4. \A m \in 1..(k - 1) : q[m] \in Finishes(t) /\ t.depth[q[m]] = s.depth[q[m]]
    BY <2>2 DEF Visited, Onward
  <2>5. \A m \in 1..(k - 1) : q[m] \in D /\ t.depth[q[m]] \in Nat
    BY <1>1
  <2>6. u.best >= s.best /\ u.best >= t.value /\ (u.best = s.best \/ u.best = t.value)
    BY <1>1, <1>2 DEF Larger
  <2>7. ASSUME NEW m \in 1..k PROVE q[m] \in Finishes(u) /\ u.depth[q[m]] <= u.best
    <3>1. CASE m = k
      BY <1>1, <1>2, <1>3, <2>3, <2>6, <3>1
    <3>2. CASE m \in 1..(k - 1)
      <4>1. t.depth[q[m]] <= s.best /\ u.best \in Nat
        BY <1>1, <1>2, <2>2, <2>4, <3>2 DEF Larger
      <4>2. t.depth[q[m]] <= u.best
        <5> DEFINE a == t.depth[q[m]]
        <5>1. a \in Nat /\ a <= s.best
          BY <2>5, <3>2, <4>1
        <5> HIDE DEF a
        <5>2. a <= u.best
          BY <1>1, <2>6, <4>1, <5>1
        <5> QED
          BY <5>2 DEF a
      <4> QED
        BY <1>2, <1>3, <2>4, <3>2, <4>2
    <3> QED
      BY <1>1, <3>1, <3>2
  <2>8. u.best = 0 \/ \E m \in 1..k : u.best = u.depth[q[m]]
    <3>1. CASE u.best = t.value
      <4>1. u.best = u.depth[q[k]] /\ k \in 1..k
        BY <1>1, <1>2, <2>3, <3>1
      <4> QED
        BY <4>1
    <3>2. CASE u.best = s.best
      BY <1>1, <1>2, <2>2, <2>4, <3>2
    <3> QED
      BY <2>6, <3>1, <3>2
  <2> QED
    BY <1>3, <2>3, <2>7, <2>8
<1>6. ASSUME \A o \in Path(s0) : \A m \in 1..k : q[m] \in R[o], NEW x \in u.cycles \ s0.cycles
      PROVE  x \in R[x]
  <2>1. CASE x \in s.cycles
    BY <1>1, <1>6, <2>1 DEF Walked
  <2>2. CASE x \notin s.cycles
    <3>1. Path(s) = Path(s0) /\ k \in 1..k
      BY <1>1 DEF Walked, Onward
    <3> QED
      BY <1>2, <1>6, <2>2, <3>1 DEF Visited
  <2> QED
    BY <2>1, <2>2
<1> QED
  BY <1>4, <1>5, <1>6 DEF Walked, u

(* The set itself is finished after all that waits for it. *)
LEMMA FinishedLast ==
    ASSUME NEW D, NEW succ, NEW weight, NEW R, NEW s \in Searches(D), NEW i \in New(s),
           NEW q \in Seq(D), succ[i] = {q[m] : m \in 1..Len(q)},
           \A o \in D : succ[o] \subseteq R[o] /\ Closed(succ, R[o]),
           weight[i] \in Nat, NEW b \in Searches(D),
           Walked([s EXCEPT !.color[i] = "open", !.best = 0], b, q, Len(q), succ, weight, R)
    PROVE  Visited(s, [b EXCEPT !.color[i] = "done", !.depth[i] = weight[i] + b.best,
                                !.value = weight[i] + b.best, !.best = s.best], i, succ, weight, R)
<1> DEFINE s0 == [s EXCEPT !.color[i] = "open", !.best = 0]
           t == [b EXCEPT !.color[i] = "done", !.depth[i] = weight[i] + b.best,
                          !.value = weight[i] + b.best, !.best = s.best]
<1>1. /\ s.color \in [D -> {"new", "open", "done"}] /\ b.color \in [D -> {"new", "open", "done"}]
      /\ s.depth \in [D -> Nat] /\ b.depth \in [D -> Nat] /\ b.best \in Nat
      /\ i \in D /\ s.color[i] = "new"
  BY DEF Searches, New
<1>2. /\ s0.color = [s.color EXCEPT ![i] = "open"] /\ s0.depth = s.depth /\ s0.cycles = s.cycles /\ s0.best = 0
  BY <1>1 DEF Searches
<1>3. /\ t.color = [b.color EXCEPT ![i] = "done"] /\ t.depth = [b.depth EXCEPT ![i] = weight[i] + b.best]
      /\ t.cycles = b.cycles /\ t.value = weight[i] + b.best /\ t.best = s.best
  BY <1>1 DEF Searches
<1>4. Walked(s0, b, q, Len(q), succ, weight, R)
  OBVIOUS
<1> HIDE DEF s0, t
<1>5. Finishes(s0) = Finishes(s) /\ Path(s0) = Path(s) \cup {i} /\ i \notin Path(s) /\ i \notin Finishes(s)
  BY <1>1, <1>2 DEF Finishes, Path
<1>6. Settled(s0, succ, weight) <=> Settled(s, succ, weight)
  BY <1>2, <1>5 DEF Settled
<1>7. i \in Path(b) /\ i \notin Finishes(b)
  <2>1. i \in Path(b)
    BY <1>4, <1>5 DEF Walked, Onward
  <2> QED
    BY <2>1 DEF Path, Finishes
<1>8. Finishes(t) = Finishes(b) \cup {i} /\ Path(t) = Path(b) \ {i}
  BY <1>1, <1>3 DEF Finishes, Path
<1>9. \A j \in D : j # i => t.depth[j] = b.depth[j]
  BY <1>1, <1>3
<1>10. Finishes(b) \subseteq D /\ Finishes(s) \subseteq D
  BY <1>1 DEF Finishes
<1>11. Onward(s, t)
  <2>1. Onward(s0, b)
    BY <1>4 DEF Walked
  <2>2. Path(t) = Path(s)
    BY <1>5, <1>8, <2>1 DEF Onward
  <2>3. s.cycles \subseteq t.cycles /\ Finishes(s) \subseteq Finishes(t)
    BY <1>2, <1>3, <1>5, <1>8, <2>1 DEF Onward
  <2>4. \A j \in Finishes(s) : t.depth[j] = s.depth[j]
    BY <1>2, <1>5, <1>9, <1>10, <2>1 DEF Onward
  <2> QED
    BY <2>2, <2>3, <2>4 DEF Onward
<1>12. ASSUME t.cycles = {}, Settled(s, succ, weight)
       PROVE  Settled(t, succ, weight) /\ i \in Finishes(t) /\ t.value = t.depth[i]
  <2>1. /\ Settled(b, succ, weight)
        /\ \A m \in 1..Len(q) : q[m] \in Finishes(b) /\ b.depth[q[m]] <= b.best
        /\ b.best = 0 \/ \E m \in 1..Len(q) : b.best = b.depth[q[m]]
    BY <1>3, <1>4, <1>6, <1>12 DEF Walked
  <2>2. t.depth[i] = weight[i] + b.best
    BY <1>1, <1>3
  <2>3. succ[i] \subseteq Finishes(b)
    BY <2>1
  <2>4. \A j \in Finishes(t) : succ[j] \subseteq Finishes(b)
    BY <1>8, <2>1, <2>3 DEF Settled
  <2>5. \A j \in Finishes(b) : t.depth[j] = b.depth[j]
    BY <1>7, <1>9, <1>10
  <2>6. b.best = Greatest({b.depth[k] : k \in succ[i]}, 0)
    <3> DEFINE T == {b.depth[k] : k \in succ[i]}
    <3>1. \A k \in succ[i] : b.depth[k] <= b.best /\ b.depth[k] \in Nat
      BY <1>1, <1>10, <2>1, <2>3
    <3>2. CASE T = {}
      <4>1. Len(q) \in Nat /\ \A m \in 1..Len(q) : q[m] \in succ[i]
        OBVIOUS
      <4>2. succ[i] = {}
        BY <3>2
      <4>3. b.best = 0
        BY <2>1, <4>1, <4>2
      <4> QED
        BY <3>2, <4>3 DEF Greatest
    <3>3. CASE T # {}
      <4>1. b.best \in T
        <5>1. CASE b.best = 0
          <6>1. PICK k \in succ[i] : TRUE
            BY <3>3
          <6>2. b.depth[k] = 0
            BY <3>1, <5>1, <6>1
          <6> QED
            BY <5>1, <6>1, <6>2
        <5>2. CASE \E m \in 1..Len(q) : b.best = b.depth[q[m]]
          BY <5>2
        <5> QED
          BY <2>1, <5>1, <5>2
      <4>2. \A y \in T : y <= b.best /\ y \in Nat
        BY <3>1
      <4> HIDE DEF T
      <4>3. \A x \in T : (\A y \in T : y <= x) => x = b.best
        BY <1>1, <4>1, <4>2
      <4>4. Greatest(T, 0) = CHOOSE x \in T : \A y \in T : y <= x
        BY <3>3 DEF Greatest
      <4> QED
        BY <4>1, <4>2, <4>3, <4>4 DEF T
    <3> QED
      BY <3>2, <3>3
  <2>7. \A j \in Finishes(t) : {t.depth[k] : k \in succ[j]} = {b.depth[k] : k \in succ[j]}
    BY <2>4, <2>5
  <2>8. ASSUME NEW j \in Finishes(t)
        PROVE  t.depth[j] = weight[j] + Greatest({t.depth[k] : k \in succ[j]}, 0)
    <3>1. CASE j = i
      BY <2>2, <2>6, <2>7, <3>1
    <3>2. CASE j # i
      <4>1. j \in Finishes(b)
        BY <1>8, <3>2
      <4> QED
        BY <2>1, <2>5, <2>7, <4>1 DEF Settled
    <3> QED
      BY <3>1, <3>2
  <2>9. ASSUME NEW X \in SUBSET Finishes(t), X # {} PROVE \E x \in X : succ[x] \cap X = {}
    <3>1. CASE X \ {i} = {}
      <4>1. X = {i}
        BY <2>9, <3>1
      <4> QED
        BY <1>7, <2>3, <4>1
    <3>2. CASE X \ {i} # {}
      <4>1. X \ {i} \in SUBSET Finishes(b)
        BY <1>8
      <4>2. PICK x \in X \ {i} : succ[x] \cap (X \ {i}) = {}
        BY <2>1, <3>2, <4>1 DEF Settled, Sinks
      <4>3. succ[x] \subseteq Finishes(b)
        BY <2>4
      <4> QED
        BY <1>7, <4>2, <4>3
    <3> QED
      BY <3>1, <3>2
  <2>10. Settled(t, succ, weight)
    BY <1>8, <2>4, <2>8, <2>9 DEF Settled, Sinks
  <2> QED
    BY <1>3, <1>8, <2>2, <2>10
<1>13. ASSUME \A o \in Path(s) : i \in R[o], NEW x \in t.cycles \ s.cycles PROVE x \in R[x]
  <2>1. ASSUME NEW o \in Path(s0), NEW m \in 1..Len(q) PROVE q[m] \in R[o]
    <3>1. q[m] \in succ[i] /\ o \in D
      BY <1>1, <1>5 DEF Path
    <3>2. CASE o = i
      BY <3>1, <3>2
    <3>3. CASE o # i
      BY <1>5, <1>13, <3>1, <3>3 DEF Closed
    <3> QED
      BY <3>2, <3>3
  <2>2. \A y \in b.cycles \ s0.cycles : y \in R[y]
    BY <1>4, <2>1 DEF Walked
  <2> QED
    BY <1>2, <1>3, <1>13, <2>2
<1> QED
  BY <1>3, <1>11, <1>12, <1>13 DEF Visited, t

Moves(f, s0, q, D, Z) == q \in Seq(D) /\ s0 \in Z /\ \A j \in D, s \in Z : Taken(f, s, j) \in Z

LEMMA WalkFound ==
    ASSUME NEW f, NEW s0, NEW q, NEW D, NEW Z, Moves(f, s0, q, D, Z)
    PROVE  \E p : Walk(p, f, s0, q, Z) /\ Below(f, s0, q) = p[Len(q)]
  BY Walks DEF Moves

Joins(succ, down, D) == \A i \in D : succ[i] = {down[i][m] : m \in 1..Len(down[i])}
Encloses(R, succ, D) == \A o \in D : succ[o] \subseteq R[o] /\ Closed(succ, R[o])

(* A visit finishes a place with all that waits for it, or finds a cycle. *)
LEMMA SearchVisits ==
    ASSUME NEW D, IsFiniteSet(D), NEW down \in [D -> Seq(D)], NEW weight \in [D -> Nat],
           NEW succ, Joins(succ, down, D), NEW R, Encloses(R, succ, D)
    PROVE  \A i \in D, s \in Searches(D) : Visited(s, Visit(down, weight)[<<i, s>>], i, succ, weight, R)
<1> DEFINE f == Visit(down, weight)
           n == Cardinality(D) + 1
           Reached(k) == \A j \in D, s \in Searches(D) :
                            Unseen(s) < k => Visited(s, f[<<j, s>>], j, succ, weight, R)
           B == {k \in 0..n : Reached(k)}
<1>1. n \in Nat /\ \A s \in Searches(D) : Unseen(s) < n /\ Unseen(s) \in Nat
  BY FS_CardinalityType, NewIs
<1>2. \A j \in D, s \in Searches(D) : f[<<j, s>>] = Looked(f, down, weight, j, s) /\ f[<<j, s>>] \in Inside(D, New(s))
  <2>1. \A j \in D, s \in Searches(D) : f[<<j, s>>] = Looked(f, down, weight, j, s)
    BY SearchUnfolds, Zenon
  <2>2. \A j \in D, s \in Searches(D) : f[<<j, s>>] \in Inside(D, New(s))
    BY SearchEnds
  <2> HIDE DEF f
  <2> QED
    BY <2>1, <2>2
<1> HIDE DEF f
<1>3. 0 \in B
  <2>1. \A s \in Searches(D) : ~(Unseen(s) < 0)
    BY <1>1
  <2> QED
    BY <1>1, <2>1
<1>4. ASSUME NEW k \in 1..n, k - 1 \in B PROVE k \in B
  <2>0. k - 1 \in Nat /\ k \in 0..n
    BY <1>1
  <2>1. ASSUME NEW j \in D, NEW z \in Searches(D), Unseen(z) < k - 1
        PROVE  Visited(z, f[<<j, z>>], j, succ, weight, R)
    BY <1>4, <2>1
  <2> HIDE DEF n, B
  <2>2. ASSUME NEW i \in D, NEW s \in Searches(D), Unseen(s) < k
        PROVE  Visited(s, f[<<i, s>>], i, succ, weight, R)
    <3> DEFINE t == f[<<i, s>>]
    <3>1. t = Looked(f, down, weight, i, s)
      BY <1>2
    <3>2. /\ s.color \in [D -> {"new", "open", "done"}] /\ s.depth \in [D -> Nat]
          /\ s.cycles \in SUBSET D
      BY DEF Searches
    <3>3. CASE s.color[i] = "done"
      <4>1. t = [s EXCEPT !.value = s.depth[i]]
        BY <3>1, <3>3 DEF Looked
      <4> HIDE DEF t
      <4>2. t.color = s.color /\ t.depth = s.depth /\ t.cycles = s.cycles /\ t.best = s.best /\ t.value = s.depth[i]
        BY <4>1 DEF Searches
      <4>3. Finishes(t) = Finishes(s) /\ Path(t) = Path(s) /\ i \in Finishes(s)
        BY <3>2, <3>3, <4>2 DEF Finishes, Path
      <4>4. Settled(t, succ, weight) <=> Settled(s, succ, weight)
        BY <4>2, <4>3 DEF Settled
      <4>5. Visited(s, t, i, succ, weight, R)
        BY <4>2, <4>3, <4>4 DEF Visited, Onward
      <4> QED
        BY <4>5 DEF t
    <3>4. CASE s.color[i] = "open"
      <4>1. t = [s EXCEPT !.value = 0, !.cycles = @ \cup {i}]
        BY <3>1, <3>4 DEF Looked
      <4> HIDE DEF t
      <4>2. t.color = s.color /\ t.depth = s.depth /\ t.cycles = s.cycles \cup {i} /\ t.best = s.best
        BY <4>1 DEF Searches
      <4>3. Finishes(t) = Finishes(s) /\ Path(t) = Path(s) /\ i \in Path(s)
        BY <3>2, <3>4, <4>2 DEF Finishes, Path
      <4>4. Visited(s, t, i, succ, weight, R)
        BY <4>2, <4>3 DEF Visited, Onward
      <4> QED
        BY <4>4 DEF t
    <3>5. CASE s.color[i] = "new"
      <4> DEFINE s0 == [s EXCEPT !.color[i] = "open", !.best = 0]
                 q == down[i]
                 Z == Inside(D, New(s) \ {i})
                 b == Below(f, s0, q)
      <4>1. i \in New(s) /\ q \in Seq(D) /\ weight[i] \in Nat /\ succ[i] = {q[m] : m \in 1..Len(q)}
        BY <3>2, <3>5 DEF New, Joins
      <4>2. t = [b EXCEPT !.color[i] = "done", !.depth[i] = weight[i] + b.best,
                          !.value = weight[i] + b.best, !.best = s.best]
        BY <3>1, <3>5 DEF Looked, Below, Taken
      <4>3. s0 \in Z
        <5>1. s0 \in Searches(D) /\ s0.color = [s.color EXCEPT ![i] = "open"]
          BY <3>2 DEF Searches
        <5>2. New(s0) \subseteq New(s) \ {i}
          BY <3>2, <5>1 DEF New
        <5> QED
          BY <5>1, <5>2 DEF Inside
      <4>4. ASSUME NEW j \in D, NEW z \in Z
            PROVE  /\ Taken(f, z, j) \in Z /\ z \in Searches(D) /\ f[<<j, z>>] \in Searches(D)
                   /\ Visited(z, f[<<j, z>>], j, succ, weight, R)
        <5>1. z \in Searches(D) /\ New(z) \subseteq New(s) \ {i}
          BY DEF Inside
        <5>2. f[<<j, z>>] \in Searches(D) /\ New(f[<<j, z>>]) \subseteq New(z)
          BY <1>2, <5>1 DEF Inside
        <5>3. Unseen(z) < Unseen(s) /\ Unseen(z) \in Nat /\ Unseen(s) \in Nat
          BY <1>1, <4>1, <5>1, NewIs
        <5>4. Visited(z, f[<<j, z>>], j, succ, weight, R)
          <6>1. Unseen(z) < k - 1
            BY <2>0, <2>2, <5>3
          <6> QED
            BY <2>1, <5>1, <6>1
        <5> DEFINE v == f[<<j, z>>]
                   r == [v EXCEPT !.best = Larger(z.best, v.value)]
        <5>5. r = Taken(f, z, j) /\ v \in Searches(D)
          BY <5>2 DEF Taken
        <5> HIDE DEF v
        <5>6. r \in Searches(D) /\ r.color = v.color
          BY <5>1, <5>5 DEF Searches, Larger
        <5>7. New(r) \subseteq New(s) \ {i}
          <6>1. New(r) = New(v)
            BY <5>6 DEF New
          <6> QED
            BY <5>1, <5>2, <6>1 DEF v
        <5>8. r \in Z
          <6> HIDE DEF r
          <6> QED
            BY <5>6, <5>7 DEF Inside
        <5> QED
          BY <5>1, <5>2, <5>4, <5>5, <5>8
      <4> HIDE DEF s0, Z
      <4>5. PICK p : Walk(p, f, s0, q, Z) /\ b = p[Len(q)]
        <5> HIDE DEF q, b
        <5>1. \A j \in D, z \in Z : Taken(f, z, j) \in Z
          BY <4>4
        <5>2. Moves(f, s0, q, D, Z)
          BY <4>1, <4>3, <5>1 DEF Moves
        <5>3. \E p : Walk(p, f, s0, q, Z) /\ Below(f, s0, q) = p[Len(q)]
          BY <5>2, WalkFound
        <5> QED
          BY <5>3 DEF b
      <4> HIDE DEF b, q
      <4> DEFINE Gone == {m \in 0..Len(q) : Walked(s0, p[m], q, m, succ, weight, R)}
      <4>6. 0 \in Gone
        <5>1. p[0] = s0 /\ Len(q) \in Nat
          BY <4>1, <4>5 DEF Walk
        <5>2. s0.best = 0
          BY DEF s0, Searches
        <5>3. Walked(s0, s0, q, 0, succ, weight, R)
          BY <5>2 DEF Walked, Onward
        <5> QED
          BY <5>1, <5>3
      <4>7. ASSUME NEW m \in 1..Len(q), m - 1 \in Gone PROVE m \in Gone
        <5>1. m \in 0..Len(q) /\ m - 1 \in 0..Len(q) /\ q[m] \in D
          BY <4>1
        <5>2. p[m] = Taken(f, p[m - 1], q[m]) /\ p[m - 1] \in Z
          BY <4>5, <5>1 DEF Walk
        <5>3. /\ p[m - 1] \in Searches(D) /\ f[<<q[m], p[m - 1]>>] \in Searches(D)
              /\ Visited(p[m - 1], f[<<q[m], p[m - 1]>>], q[m], succ, weight, R)
          BY <4>4, <5>1, <5>2
        <5>4. Walked(s0, p[m - 1], q, m - 1, succ, weight, R)
          BY <4>7
        <5>5. Walked(s0, p[m], q, m, succ, weight, R)
          <6> DEFINE y == p[m - 1]
                     v == f[<<q[m], y>>]
          <6>1. p[m] = [v EXCEPT !.best = Larger(y.best, v.value)]
            BY <5>2 DEF Taken
          <6>2. y \in Searches(D) /\ v \in Searches(D) /\ Visited(y, v, q[m], succ, weight, R)
            BY <5>3
          <6>3. Walked(s0, y, q, m - 1, succ, weight, R)
            BY <5>4
          <6> HIDE DEF y, v
          <6>4. Walked(s0, [v EXCEPT !.best = Larger(y.best, v.value)], q, m, succ, weight, R)
            BY <4>1, <6>2, <6>3, WalkedOn
          <6> QED
            BY <6>1, <6>4
        <5> QED
          BY <5>1, <5>5
      <4>8. Len(q) \in 0..Len(q) /\ Len(q) \in Nat
        BY <4>1
      <4>9. Len(q) \in Gone
        <5> HIDE DEF Gone
        <5> QED
          BY <4>6, <4>7, <4>8, Upwards
      <4>10. b \in Searches(D) /\ Walked(s0, b, q, Len(q), succ, weight, R)
        BY <4>5, <4>8, <4>9 DEF Walk, Inside, Z
      <4>11. Visited(s, [b EXCEPT !.color[i] = "done", !.depth[i] = weight[i] + b.best,
                                  !.value = weight[i] + b.best, !.best = s.best], i, succ, weight, R)
        BY <4>1, <4>10, FinishedLast DEF s0, Encloses
      <4> QED
        BY <4>2, <4>11
    <3> QED
      BY <3>2, <3>3, <3>4, <3>5
  <2> QED
    BY <2>0, <2>2 DEF B
<1>5. \A k \in 0..n : k \in B
  <2> HIDE DEF B, n
  <2> QED
    BY <1>1, <1>3, <1>4, Upwards
<1>6. Reached(n)
  <2>1. n \in 0..n
    BY <1>1
  <2> QED
    BY <1>5, <2>1
<1> QED
  BY <1>1, <1>6 DEF f

-----------------------------------------------------------------------------
(* A cycle that is reported is one, and where none is, the depths count the  *)
(* sets still to be played, and every part of the table has a last set.     *)
Answers(found, S, succ, R) ==
    /\ \A x \in found.cycles : x \in R[x] /\ x \in DOMAIN S
    /\ found.cycles = {} =>
          \E d \in [DOMAIN S -> Nat] :
             /\ \A j \in DOMAIN S : d[j] = Weighted(S)[j] + Greatest({d[k] : k \in succ[j]}, 0)
             /\ Sinks(succ, DOMAIN S)
             /\ found.depth = [i \in DOMAIN S |-> IF i \in Excluded(S) THEN 0 ELSE d[i]]

LEMMA ElimSearch ==
    ASSUME NEW S \in Seq(SimSets), NEW groups \in Seq(Groups),
           \A i \in DOMAIN S : KindOf(groups, S[i]) = "elim",
           NEW succ, Joins(succ, DownOf(S), DOMAIN S), NEW R, Encloses(R, succ, DOMAIN S)
    PROVE  Answers(Searched(S, groups), S, succ, R)
<1> DEFINE D == DOMAIN S
           n == Len(S)
           weight == Weighted(S)
           f == Visit(DownOf(S), weight)
<1>1. n \in Nat /\ D = 1..n /\ IsFiniteSet(D)
  BY FS_Interval
<1>2. weight \in [D -> Nat]
  BY DEF Weighted
<1>3. DownOf(S) \in [D -> Seq(D)]
  BY DependentsAre DEF DownOf
<1>4. PICK t : /\ t[0] = Fresh(DOMAIN S)
               /\ \A k \in 0..Len(S) : t[k] \in Searches(DOMAIN S)
               /\ \A k \in 1..Len(S) : t[k] = Turn(S, groups, k, t[k - 1])
               /\ Searched(S, groups).cycles = t[Len(S)].cycles
               /\ Searched(S, groups).depth =
                     [i \in DOMAIN S |-> IF i \in Excluded(S) THEN 0 ELSE t[Len(S)].depth[i]]
  BY SearchedTurns
<1>5. ASSUME NEW i \in D, NEW s \in Searches(D)
      PROVE  f[<<i, s>>] \in Searches(D) /\ Visited(s, f[<<i, s>>], i, succ, weight, R)
  <2> HIDE DEF D, weight
  <2>1. f[<<i, s>>] \in Inside(D, New(s))
    BY <1>1, <1>2, <1>3, SearchEnds
  <2>2. Visited(s, f[<<i, s>>], i, succ, weight, R)
    <3>1. Joins(succ, DownOf(S), D) /\ Encloses(R, succ, D)
      BY DEF D
    <3> QED
      BY <1>1, <1>2, <1>3, <3>1, SearchVisits
  <2> HIDE DEF f
  <2> QED
    BY <2>1, <2>2 DEF Inside
<1> DEFINE Good(k) ==
             /\ Path(t[k]) = {} /\ \A x \in t[k].cycles : x \in R[x]
             /\ t[k].cycles = {} => Settled(t[k], succ, weight) /\ 1..k \subseteq Finishes(t[k])
           B == {k \in 0..n : Good(k)}
<1>6. 0 \in B
  <2>1. t[0].color = [i \in D |-> "new"] /\ t[0].cycles = {}
    BY <1>4 DEF Fresh
  <2>2. Path(t[0]) = {} /\ Finishes(t[0]) = {}
    BY <2>1 DEF Path, Finishes
  <2>3. Settled(t[0], succ, weight)
    BY <2>2 DEF Settled, Sinks
  <2>4. 0 \in 0..n /\ 1..0 = {}
    <3> HIDE DEF n
    <3> QED
      BY <1>1
  <2> QED
    BY <2>1, <2>2, <2>3, <2>4
<1>7. ASSUME NEW k \in 1..n, k - 1 \in B PROVE k \in B
  <2> DEFINE s == t[k - 1]
             v == f[<<k, s>>]
             u == t[k]
  <2>0. k \in 0..n /\ k - 1 \in 0..n /\ k \in D /\ 1..k = 1..(k - 1) \cup {k}
    <3> HIDE DEF n, D
    <3> QED
      BY <1>1
  <2>1. s \in Searches(D) /\ u \in Searches(D)
    BY <1>4, <2>0
  <2>2. v \in Searches(D) /\ Visited(s, v, k, succ, weight, R)
    BY <1>5, <2>0, <2>1
  <2>3. u = [v EXCEPT !.depth[k] = v.value]
    BY <1>4, <2>0 DEF Turn
  <2>4. Good(k - 1)
    BY <1>7
  <2> HIDE DEF u, v, f, n, B
  <2>5. /\ u.color = v.color /\ u.cycles = v.cycles /\ u.depth = [v.depth EXCEPT ![k] = v.value]
        /\ v.depth \in [D -> Nat]
    BY <2>2, <2>3 DEF Searches
  <2>6. Path(u) = Path(v) /\ Finishes(u) = Finishes(v)
    BY <2>5 DEF Path, Finishes
  <2>7. Path(u) = {} /\ \A x \in u.cycles : x \in R[x]
    <3>1. Path(s) = {} /\ \A x \in s.cycles : x \in R[x]
      BY <2>4
    <3> HIDE DEF s
    <3>2. Path(v) = Path(s)
      BY <2>2 DEF Visited, Onward
    <3>3. \A x \in v.cycles \ s.cycles : x \in R[x]
      BY <2>2, <3>1 DEF Visited
    <3> QED
      BY <2>5, <2>6, <3>1, <3>2, <3>3
  <2>8. ASSUME u.cycles = {} PROVE Settled(u, succ, weight) /\ 1..k \subseteq Finishes(u)
    <3>1. s.cycles = {}
      BY <2>2, <2>5, <2>8 DEF Visited, Onward
    <3>2. Settled(s, succ, weight) /\ 1..(k - 1) \subseteq Finishes(s)
      BY <2>4, <3>1
    <3> HIDE DEF s
    <3>3. Settled(v, succ, weight) /\ k \in Finishes(v) /\ v.value = v.depth[k]
      BY <2>2, <2>5, <2>8, <3>2 DEF Visited
    <3>4. u.depth = v.depth
      BY <2>5, <3>3
    <3>5. Finishes(s) \subseteq Finishes(v)
      BY <2>2 DEF Visited, Onward
    <3>6. Settled(u, succ, weight)
      <4>1. Settled(v, succ, weight)
        BY <3>3
      <4> HIDE DEF weight
      <4> QED
        BY <2>6, <3>4, <4>1 DEF Settled
    <3> QED
      BY <2>0, <2>6, <3>2, <3>3, <3>5, <3>6
  <2> QED
    BY <2>0, <2>7, <2>8 DEF B, u
<1>8. \A k \in 0..n : k \in B
  <2> HIDE DEF B, n
  <2> QED
    BY <1>1, <1>6, <1>7, Upwards
<1>9. n \in 0..n
  BY <1>1
<1> DEFINE last == t[n]
<1>10. Good(n) /\ last \in Searches(D)
  BY <1>4, <1>8, <1>9
<1>11. last.depth \in [D -> Nat] /\ last.color \in [D -> {"new", "open", "done"}] /\ last.cycles \in SUBSET D
  BY <1>10 DEF Searches
<1>12. ASSUME last.cycles = {}
       PROVE  /\ \A j \in D : last.depth[j] = weight[j] + Greatest({last.depth[k] : k \in succ[j]}, 0)
              /\ Sinks(succ, D)
  <2>1. Settled(last, succ, weight) /\ D \subseteq Finishes(last)
    BY <1>1, <1>10, <1>12
  <2>2. Finishes(last) = D
    BY <1>11, <2>1 DEF Finishes
  <2> HIDE DEF last, D
  <2> QED
    BY <2>1, <2>2 DEF Settled
<1>13. Searched(S, groups).cycles = last.cycles /\ \A x \in last.cycles : x \in R[x] /\ x \in D
  BY <1>4, <1>10, <1>11
<1>14. Searched(S, groups).depth = [i \in D |-> IF i \in Excluded(S) THEN 0 ELSE last.depth[i]]
  BY <1>4
<1> HIDE DEF last
<1> QED
  BY <1>11, <1>12, <1>13, <1>14 DEF Answers

WaitingFor(S) == [i \in DOMAIN S |-> Waiting(S, i)]

LEMMA WaitingIs ==
    ASSUME NEW S \in Seq(SimSets)
    PROVE  WaitingFor(S) \in [DOMAIN S -> SUBSET DOMAIN S] /\ Joins(WaitingFor(S), DownOf(S), DOMAIN S)
<1>1. WaitingFor(S) \in [DOMAIN S -> SUBSET DOMAIN S]
  BY DEF WaitingFor, Waiting
<1>2. ASSUME NEW i \in DOMAIN S
      PROVE  WaitingFor(S)[i] = {DownOf(S)[i][m] : m \in 1..Len(DownOf(S)[i])}
  <2> DEFINE P == DOMAIN S \ Excluded(S)
             q == Dependents(S, i, P)
             W == {j \in DOMAIN S \cap P : \E k \in DOMAIN S[j].slots : S[j].slots[k].from = S[i].id}
  <2>1. q \in Seq(DOMAIN S)
    BY DependentsAre
  <2>2. {q[k] : k \in DOMAIN q} = W
    BY DependentsWait
  <2>3. W = Waiting(S, i)
    BY DEF Waiting
  <2>4. DownOf(S)[i] = q /\ WaitingFor(S)[i] = Waiting(S, i)
    BY DEF DownOf, WaitingFor
  <2> HIDE DEF q, W
  <2>5. DOMAIN q = 1..Len(q)
    BY <2>1
  <2> QED
    BY <2>2, <2>3, <2>4, <2>5
<1> QED
  BY <1>1, <1>2 DEF Joins

(* What the reference search reaches is all that lies behind a set. *)
LEMMA DownstreamIs ==
    ASSUME NEW S \in Seq(SimSets), NEW i \in DOMAIN S
    PROVE  Behind(WaitingFor(S), DOMAIN S, i, Downstream(S, i))
<1> DEFINE D == DOMAIN S
           n == Len(S)
           V == SUBSET D
           F == [x \in (1..n) \X V |-> x[2] \cup UNION {Waiting(S, j) : j \in x[2]}]
           Body(r) == [k \in 0..n |-> IF k = 0 THEN Waiting(S, i) ELSE r[k - 1] \cup UNION {Waiting(S, j) : j \in r[k - 1]}]
           c == CHOOSE r : r = Body(r)
<1>1. n \in Nat /\ D = 1..n /\ IsFiniteSet(D) /\ Cardinality(D) = n
  BY FS_Interval
<1>2. \A j : Waiting(S, j) \in V
  BY DEF Waiting
<1>3. Downstream(S, i) = c[n]
  BY DEF Downstream
<1>4. StaysIn(F, 1..n, V)
  BY <1>2 DEF StaysIn
<1>5. PICK g : Chain(g, F, Waiting(S, i), n, V)
  <2> HIDE DEF F, V, n
  <2> QED
    BY <1>1, <1>2, <1>4, Recursion
<1>6. g = Body(g)
  <2>1. ASSUME NEW k \in 1..n PROVE g[k] = g[k - 1] \cup UNION {Waiting(S, j) : j \in g[k - 1]}
    <3> HIDE DEF n
    <3>1. k - 1 \in 0..n
      BY <1>1
    <3>2. g[k - 1] \in V /\ g[k] = F[<<k, g[k - 1]>>]
      BY <1>5, <3>1 DEF Chain
    <3> QED
      BY <3>2
  <2>2. g \in [0..n -> V] /\ g[0] = Waiting(S, i)
    BY <1>5 DEF Chain
  <2> HIDE DEF V, n
  <2>3. \A k \in 0..n : k = 0 \/ k \in 1..n
    BY <1>1
  <2> QED
    BY <2>1, <2>2, <2>3
<1>7. c = Body(c)
  <2> HIDE DEF Body
  <2> QED
    BY <1>6
<1> HIDE DEF c
<1>8. c[0] = Waiting(S, i) /\ \A k \in 1..n : c[k] = c[k - 1] \cup UNION {Waiting(S, j) : j \in c[k - 1]}
  <2> HIDE DEF n
  <2>1. 0 \in 0..n /\ \A k \in 1..n : k \in 0..n /\ k # 0
    BY <1>1
  <2> QED
    BY <1>7, <2>1
<1>9. \A k \in 0..n : k \in {m \in 0..n : c[m] \in V}
  <2> DEFINE B == {m \in 0..n : c[m] \in V}
  <2> HIDE DEF n
  <2>1. 0 \in B
    BY <1>1, <1>2, <1>8
  <2>2. ASSUME NEW k \in 1..n, k - 1 \in B PROVE k \in B
    <3>1. k \in 0..n /\ c[k - 1] \in V
      BY <1>1, <2>2
    <3> QED
      BY <1>2, <1>8, <3>1
  <2> HIDE DEF B
  <2>3. \A k \in 0..n : k \in B
    BY <1>1, <2>1, <2>2, Upwards
  <2> QED
    BY <2>3 DEF B
<1>10. c \in [0..n -> V]
  <2> HIDE DEF V
  <2>1. c = [k \in 0..n |-> c[k]]
    BY <1>7
  <2> QED
    BY <1>9, <2>1
<1>11. \A k \in 1..n : \A j \in c[k - 1] : WaitingFor(S)[j] = Waiting(S, j)
  <2> HIDE DEF n
  <2>1. \A k \in 1..n : c[k - 1] \subseteq D
    <3>1. \A k \in 1..n : k - 1 \in 0..n
      BY <1>1
    <3> QED
      BY <1>10, <3>1
  <2> QED
    BY <2>1 DEF WaitingFor
<1>12. ASSUME NEW k \in 1..n PROVE c[k] = c[k - 1] \cup UNION {WaitingFor(S)[j] : j \in c[k - 1]}
  <2>1. {Waiting(S, j) : j \in c[k - 1]} = {WaitingFor(S)[j] : j \in c[k - 1]}
    BY <1>11
  <2> QED
    BY <1>8, <2>1
<1>13. c[0] = WaitingFor(S)[i]
  BY <1>8 DEF WaitingFor
<1>14. Behind(WaitingFor(S), D, i, c[Cardinality(D)])
  <2> DEFINE w == WaitingFor(S)
  <2>1. /\ w \in [D -> SUBSET D] /\ c \in [0..Cardinality(D) -> SUBSET D] /\ c[0] = w[i]
        /\ \A k \in 1..Cardinality(D) : c[k] = c[k - 1] \cup UNION {w[j] : j \in c[k - 1]}
    BY <1>1, <1>10, <1>12, <1>13, WaitingIs
  <2> HIDE DEF w, D
  <2>2. i \in D
    BY DEF D
  <2>3. Behind(w, D, i, c[Cardinality(D)])
    BY <1>1, <2>1, <2>2, BehindFound
  <2> QED
    BY <2>3 DEF w
<1> QED
  BY <1>1, <1>3, <1>14

(* A step of the reference recursion: the longest chain from a set that     *)
(* meets none of those seen.                                               *)
Ahead(v, succ, i, seen) == {v[<<j, seen \cup {j}>>] : j \in succ[i] \ seen}
Lengthened(v, D, succ, weight) ==
    [x \in D \X SUBSET D |-> weight[x[1]] + Greatest(Ahead(v, succ, x[1], x[2]), 0)]

LEMMA LengthenedAt ==
    ASSUME NEW D, NEW succ, NEW weight, NEW v, NEW i \in D, NEW seen \in SUBSET D
    PROVE  Lengthened(v, D, succ, weight)[<<i, seen>>] = weight[i] + Greatest(Ahead(v, succ, i, seen), 0)
<1>1. <<i, seen>> \in D \X SUBSET D /\ <<i, seen>>[1] = i /\ <<i, seen>>[2] = seen
  OBVIOUS
<1> QED
  BY <1>1 DEF Lengthened

LEMMA LengthenedIn ==
    ASSUME NEW D, IsFiniteSet(D), NEW succ \in [D -> SUBSET D], NEW weight \in [D -> Nat],
           NEW v \in [D \X SUBSET D -> Nat]
    PROVE  Lengthened(v, D, succ, weight) \in [D \X SUBSET D -> Nat]
<1>1. ASSUME NEW x \in D \X SUBSET D
      PROVE  weight[x[1]] + Greatest(Ahead(v, succ, x[1], x[2]), 0) \in Nat
  <2> DEFINE M == succ[x[1]] \ x[2]
             f == [j \in M |-> v[<<j, x[2] \cup {j}>>]]
  <2>1. x[1] \in D /\ x[2] \in SUBSET D /\ M \subseteq D
    OBVIOUS
  <2>2. IsFiniteSet(M)
    BY <2>1, FS_Subset
  <2>3. \A j \in M : f[j] \in Nat
    <3>1. \A j \in M : <<j, x[2] \cup {j}>> \in D \X SUBSET D
      BY <2>1
    <3> HIDE DEF M
    <3> QED
      BY <3>1
  <2>4. Ahead(v, succ, x[1], x[2]) = {f[j] : j \in M}
    BY DEF Ahead
  <2>5. Greatest({f[j] : j \in M}, 0) \in Nat
    <3> HIDE DEF f, M
    <3> QED
      BY <2>2, <2>3, GreatestImage
  <2>6. weight[x[1]] \in Nat
    BY <2>1
  <2> HIDE DEF f, M
  <2> QED
    BY <2>4, <2>5, <2>6
<1> QED
  BY <1>1 DEF Lengthened

(* How many are left to be seen. *)
Unmet(D, seen) == Cardinality(D \ seen)

LEMMA UnmetIs ==
    ASSUME NEW D, IsFiniteSet(D), NEW seen \in SUBSET D
    PROVE  /\ Unmet(D, seen) \in Nat /\ Unmet(D, seen) < Cardinality(D) + 1 /\ Cardinality(D) \in Nat
           /\ \A j \in D \ seen : Unmet(D, seen \cup {j}) = Unmet(D, seen) - 1
<1>1. IsFiniteSet(D \ seen) /\ Cardinality(D \ seen) \in Nat /\ Cardinality(D) \in Nat
      /\ Cardinality(D \ seen) <= Cardinality(D)
  BY FS_Subset, FS_CardinalityType
<1>2. ASSUME NEW j \in D \ seen PROVE Unmet(D, seen \cup {j}) = Unmet(D, seen) - 1
  <2>1. D \ (seen \cup {j}) = (D \ seen) \ {j}
    OBVIOUS
  <2>2. Cardinality((D \ seen) \ {j}) = Cardinality(D \ seen) - 1
    BY <1>1, FS_RemoveElement
  <2> QED
    BY <2>1, <2>2 DEF Unmet
<1>3. Unmet(D, seen) = Cardinality(D \ seen)
  BY DEF Unmet
<1>4. Unmet(D, seen) \in Nat /\ Unmet(D, seen) < Cardinality(D) + 1 /\ Cardinality(D) \in Nat
  <2> DEFINE a == Cardinality(D \ seen)
             b == Cardinality(D)
  <2>1. a \in Nat /\ b \in Nat /\ a <= b
    BY <1>1
  <2> HIDE DEF a, b
  <2>2. a < b + 1
    BY <2>1
  <2> QED
    BY <1>3, <2>1, <2>2 DEF a, b
<1> QED
  BY <1>2, <1>4

LEMMA LongestExists ==
    ASSUME NEW D, IsFiniteSet(D), NEW succ \in [D -> SUBSET D], NEW weight \in [D -> Nat]
    PROVE  \E v : v = Lengthened(v, D, succ, weight)
<1> DEFINE n == Cardinality(D) + 1
           E == D \X SUBSET D
           G == [E -> Nat]
           A == [x \in (1..(n + 1)) \X G |-> Lengthened(x[2], D, succ, weight)]
           start == [x \in E |-> 0]
<1>1. n \in Nat /\ n + 1 \in Nat /\ \A seen \in SUBSET D : Unmet(D, seen) \in Nat /\ Unmet(D, seen) < n
  <2>1. Cardinality(D) \in Nat
    BY FS_CardinalityType
  <2>2. \A seen \in SUBSET D : Unmet(D, seen) \in Nat /\ Unmet(D, seen) < Cardinality(D) + 1
    BY UnmetIs
  <2> QED
    BY <2>1, <2>2
<1>2. start \in G
  OBVIOUS
<1>3. ASSUME NEW k \in 1..(n + 1), NEW v \in G PROVE A[<<k, v>>] \in G /\ A[<<k, v>>] = Lengthened(v, D, succ, weight)
  <2>1. A[<<k, v>>] = Lengthened(v, D, succ, weight)
    <3> HIDE DEF G, n
    <3> QED
      OBVIOUS
  <2>2. Lengthened(v, D, succ, weight) \in G
    BY LengthenedIn
  <2> QED
    BY <2>1, <2>2
<1> HIDE DEF A, G, start
<1>4. StaysIn(A, 1..(n + 1), G)
  BY <1>3 DEF StaysIn
<1>5. PICK h : Chain(h, A, start, n + 1, G)
  <2> HIDE DEF n
  <2> QED
    BY <1>1, <1>2, <1>4, Recursion
<1>6. ASSUME NEW k \in 0..n PROVE h[k] \in G /\ h[k + 1] \in G /\ h[k + 1] = Lengthened(h[k], D, succ, weight)
  <2> HIDE DEF n
  <2>1. k + 1 \in 1..(n + 1) /\ (k + 1) - 1 = k /\ k \in 0..(n + 1) /\ k + 1 \in 0..(n + 1)
    BY <1>1
  <2>2. h[k + 1] = A[<<k + 1, h[k]>>] /\ h[k] \in G /\ h[k + 1] \in G
    BY <1>5, <2>1 DEF Chain
  <2> QED
    BY <1>3, <2>1, <2>2
<1> DEFINE Agree(k) == \A i \in D, seen \in SUBSET D : Unmet(D, seen) < k => h[k][<<i, seen>>] = h[k + 1][<<i, seen>>]
           B == {k \in 0..n : Agree(k)}
<1>7. 0 \in B
  <2>1. \A seen \in SUBSET D : ~(Unmet(D, seen) < 0)
    BY <1>1
  <2> QED
    BY <1>1, <2>1
<1>8. ASSUME NEW k \in 1..n, k - 1 \in B PROVE k \in B
  <2>0. Agree(k - 1)
    BY <1>8
  <2> HIDE DEF n, B
  <2>1. k - 1 \in 0..n /\ (k - 1) + 1 = k /\ k \in 0..n /\ k - 1 \in Nat
    BY <1>1
  <2>2. h[k] = Lengthened(h[k - 1], D, succ, weight) /\ h[k + 1] = Lengthened(h[k], D, succ, weight)
    BY <1>6, <2>1
  <2>3. ASSUME NEW i \in D, NEW seen \in SUBSET D, Unmet(D, seen) < k
        PROVE  h[k][<<i, seen>>] = h[k + 1][<<i, seen>>]
    <3> DEFINE M == succ[i] \ seen
    <3>1. ASSUME NEW j \in M PROVE h[k - 1][<<j, seen \cup {j}>>] = h[k][<<j, seen \cup {j}>>]
      <4>1. j \in D \ seen /\ seen \cup {j} \in SUBSET D
        OBVIOUS
      <4>2. Unmet(D, seen \cup {j}) = Unmet(D, seen) - 1 /\ Unmet(D, seen) \in Nat
        BY <4>1, UnmetIs
      <4>3. Unmet(D, seen \cup {j}) < k - 1
        BY <2>1, <2>3, <4>2
      <4> QED
        BY <2>0, <2>1, <4>1, <4>3
    <3>2. Ahead(h[k - 1], succ, i, seen) = Ahead(h[k], succ, i, seen)
      BY <3>1 DEF Ahead
    <3>3. Lengthened(h[k - 1], D, succ, weight)[<<i, seen>>] = weight[i] + Greatest(Ahead(h[k - 1], succ, i, seen), 0)
      BY LengthenedAt
    <3>4. Lengthened(h[k], D, succ, weight)[<<i, seen>>] = weight[i] + Greatest(Ahead(h[k], succ, i, seen), 0)
      BY LengthenedAt
    <3> QED
      BY <2>2, <3>2, <3>3, <3>4
  <2> QED
    BY <2>1, <2>3 DEF B
<1>9. \A k \in 0..n : k \in B
  <2> HIDE DEF B, n
  <2> QED
    BY <1>1, <1>7, <1>8, Upwards
<1>10. n \in 0..n
  BY <1>1
<1>11. Agree(n)
  BY <1>9, <1>10
<1> DEFINE a == h[n]
           b == h[n + 1]
<1>12. a \in [E -> Nat] /\ b \in [E -> Nat]
  BY <1>6, <1>10 DEF G
<1>13. \A i \in D, seen \in SUBSET D : a[<<i, seen>>] = b[<<i, seen>>]
  BY <1>1, <1>11
<1>14. b = Lengthened(a, D, succ, weight)
  BY <1>6, <1>10
<1> HIDE DEF a, b
<1>15. \A x \in E : a[x] = b[x]
  BY <1>13
<1>16. a = b
  BY <1>12, <1>15
<1> QED
  BY <1>14, <1>16

(* Where nothing lies behind itself, what was seen is no hindrance: the     *)
(* longest chain from a set is what its depth counts.                      *)
LEMMA LongestIs ==
    ASSUME NEW S \in Seq(SimSets), NEW d \in [DOMAIN S -> Nat],
           \A j \in DOMAIN S : d[j] = Weighted(S)[j] + Greatest({d[k] : k \in Waiting(S, j)}, 0),
           Sinks(WaitingFor(S), DOMAIN S)
    PROVE  \A i \in DOMAIN S : Longest(S, i) = d[i]
<1> DEFINE D == DOMAIN S
           succ == WaitingFor(S)
           weight == Weighted(S)
           R == [i \in D |-> Downstream(S, i)]
           L == CHOOSE v : v = Lengthened(v, D, succ, weight)
<1>1. IsFiniteSet(D) /\ succ \in [D -> SUBSET D] /\ weight \in [D -> Nat]
  BY WaitingIs, FS_Interval DEF Weighted
<1>2. \A i \in D : succ[i] = Waiting(S, i) /\ weight[i] = IF S[i].done THEN 0 ELSE 1
  BY DEF WaitingFor, Weighted
<1>3. \A i \in D : Behind(succ, D, i, R[i])
  BY DownstreamIs
<1>4. R \in [D -> SUBSET D]
  BY <1>3 DEF Behind
<1>5. \A i \in D : Longest(S, i) = L[<<i, {i}>>]
  <2> DEFINE Body(v) == [x \in D \X SUBSET D |->
                (IF S[x[1]].done THEN 0 ELSE 1)
                  + Greatest({v[<<j, x[2] \cup {j}>>] : j \in Waiting(S, x[1]) \ x[2]}, 0)]
  <2>1. ASSUME NEW v PROVE Body(v) = Lengthened(v, D, succ, weight)
    <3>1. \A x \in D \X SUBSET D : x[1] \in D
      OBVIOUS
    <3>2. \A x \in D \X SUBSET D : succ[x[1]] = Waiting(S, x[1]) /\ weight[x[1]] = IF S[x[1]].done THEN 0 ELSE 1
      BY <1>2, <3>1
    <3> HIDE DEF D, succ, weight
    <3> QED
      BY <3>2 DEF Lengthened, Ahead
  <2>2. \A i \in D : Longest(S, i) = (CHOOSE v : v = Body(v))[<<i, {i}>>]
    BY DEF Longest
  <2>3. \A v : (v = Body(v)) <=> (v = Lengthened(v, D, succ, weight))
    BY <2>1
  <2> HIDE DEF Body, D, succ, weight
  <2>4. (CHOOSE v : v = Body(v)) = CHOOSE v : v = Lengthened(v, D, succ, weight)
    BY <2>3
  <2> QED
    BY <2>2, <2>4
<1>6. L = Lengthened(L, D, succ, weight)
  <2> HIDE DEF D, succ, weight, L
  <2>1. \E v : v = Lengthened(v, D, succ, weight)
    BY <1>1, LongestExists
  <2> QED
    BY <2>1 DEF L
<1>7. \A j \in D : d[j] = weight[j] + Greatest({d[k] : k \in succ[j]}, 0)
  BY <1>2
<1>8. Sinks(succ, D)
  OBVIOUS
<1> HIDE DEF D, succ, weight, R, L
<1>9. \A i \in D : i \notin R[i]
  BY <1>1, <1>3, <1>4, <1>8, SinksApart
<1> DEFINE Ok(i) == \A seen \in SUBSET D : R[i] \cap seen = {} => L[<<i, seen>>] = d[i]
           X == {i \in D : ~Ok(i)}
<1>10. X = {}
  <2> SUFFICES ASSUME X # {} PROVE FALSE
    OBVIOUS
  <2>1. PICK x \in X : succ[x] \cap X = {}
    <3>1. X \in SUBSET D
      OBVIOUS
    <3> HIDE DEF X
    <3> QED
      BY <1>8, <3>1 DEF Sinks
  <2>2. x \in D /\ ~Ok(x)
    BY <2>1
  <2>3. \A k \in succ[x] : k \in D /\ Ok(k)
    BY <1>1, <2>1, <2>2
  <2>4. ASSUME NEW seen \in SUBSET D, R[x] \cap seen = {} PROVE L[<<x, seen>>] = d[x]
    <3>1. succ[x] \subseteq R[x] /\ Closed(succ, R[x])
      BY <1>3, <2>2 DEF Behind
    <3>2. succ[x] \ seen = succ[x]
      BY <2>4, <3>1
    <3>3. ASSUME NEW k \in succ[x] PROVE L[<<k, seen \cup {k}>>] = d[k]
      <4>1. k \in D /\ Ok(k)
        BY <2>3
      <4>2. R[k] \subseteq R[x]
        <5>1. R[x] \in SUBSET D /\ succ[k] \subseteq R[x]
          BY <1>4, <2>2, <3>1 DEF Closed
        <5> QED
          BY <1>3, <3>1, <4>1, <5>1 DEF Behind
      <4>3. k \notin R[k]
        BY <1>9, <4>1
      <4>4. seen \cup {k} \in SUBSET D /\ R[k] \cap (seen \cup {k}) = {}
        BY <2>4, <4>1, <4>2, <4>3
      <4> QED
        BY <4>1, <4>4
    <3>4. Ahead(L, succ, x, seen) = {d[k] : k \in succ[x]}
      BY <3>2, <3>3 DEF Ahead
    <3> HIDE DEF Ok, X
    <3>5. Lengthened(L, D, succ, weight)[<<x, seen>>] = weight[x] + Greatest(Ahead(L, succ, x, seen), 0)
      BY <2>2, LengthenedAt
    <3>6. L[<<x, seen>>] = Lengthened(L, D, succ, weight)[<<x, seen>>]
      BY <1>6
    <3>7. L[<<x, seen>>] = weight[x] + Greatest({d[k] : k \in succ[x]}, 0)
      BY <3>4, <3>5, <3>6
    <3> QED
      BY <1>7, <2>2, <3>7
  <2> QED
    BY <2>2, <2>4
<1>11. ASSUME NEW i \in D PROVE Longest(S, i) = d[i]
  <2>1. Ok(i)
    BY <1>10
  <2>2. {i} \in SUBSET D /\ R[i] \cap {i} = {}
    BY <1>9
  <2> QED
    BY <1>5, <2>1, <2>2
<1> QED
  BY <1>11 DEF D

(* What the search of compute_depths promises of a table. *)
LEMMA DepthsCounted ==
    ASSUME NEW S \in Seq(SimSets), NEW groups \in Seq(Groups),
           \A i \in DOMAIN S : KindOf(groups, S[i]) = "elim"
    PROVE  LET found  == Searched(S, groups)
               cyclic == \E i \in DOMAIN S : i \in Downstream(S, i)
           IN  /\ cyclic <=> found.cycles # {}
               /\ cyclic \/ \A i \in DOMAIN S \ Excluded(S) : found.depth[i] = Longest(S, i)
<1> DEFINE D == DOMAIN S
           succ == WaitingFor(S)
           R == [i \in D |-> Downstream(S, i)]
           found == Searched(S, groups)
           cyclic == \E i \in D : i \in Downstream(S, i)
<1>1. /\ succ \in [D -> SUBSET D] /\ Joins(succ, DownOf(S), D)
      /\ \A i \in D : R[i] = Downstream(S, i) /\ Behind(succ, D, i, R[i])
  BY WaitingIs, DownstreamIs
<1>2. R \in [D -> SUBSET D] /\ Encloses(R, succ, D)
  <2> HIDE DEF succ
  <2> QED
    BY <1>1 DEF Behind, Encloses
<1>3. /\ \A x \in found.cycles : x \in R[x] /\ x \in D
      /\ found.cycles = {} =>
            \E d \in [D -> Nat] :
               /\ \A j \in D : d[j] = Weighted(S)[j] + Greatest({d[k] : k \in succ[j]}, 0)
               /\ Sinks(succ, D)
               /\ found.depth = [i \in D |-> IF i \in Excluded(S) THEN 0 ELSE d[i]]
  <2>1. Joins(succ, DownOf(S), DOMAIN S) /\ Encloses(R, succ, DOMAIN S)
    BY <1>1, <1>2
  <2> HIDE DEF succ, R
  <2>2. Answers(Searched(S, groups), S, succ, R)
    BY <2>1, ElimSearch
  <2> QED
    BY <2>2 DEF Answers
<1>4. \A j \in D : succ[j] = Waiting(S, j)
  BY DEF WaitingFor
<1>5. ASSUME found.cycles # {} PROVE cyclic
  <2> HIDE DEF R, succ, found
  <2>1. PICK x \in found.cycles : x \in R[x] /\ x \in D
    BY <1>3, <1>5
  <2> QED
    BY <1>1, <2>1
<1>6. ASSUME found.cycles = {}
      PROVE  ~cyclic /\ \A i \in D \ Excluded(S) : found.depth[i] = Longest(S, i)
  <2>1. PICK d \in [D -> Nat] :
               /\ \A j \in D : d[j] = Weighted(S)[j] + Greatest({d[k] : k \in succ[j]}, 0)
               /\ Sinks(succ, D)
               /\ found.depth = [i \in D |-> IF i \in Excluded(S) THEN 0 ELSE d[i]]
    <3> HIDE DEF R, succ, found, D
    <3> QED
      BY <1>3, <1>6
  <2>2. \A j \in D : d[j] = Weighted(S)[j] + Greatest({d[k] : k \in Waiting(S, j)}, 0)
    BY <1>4, <2>1
  <2>3. \A i \in D : Longest(S, i) = d[i]
    BY <2>1, <2>2, LongestIs
  <2> HIDE DEF R, succ, found, D
  <2>4. \A i \in D : i \notin R[i]
    <3>1. IsFiniteSet(D)
      BY FS_Interval DEF D
    <3> QED
      BY <1>1, <1>2, <2>1, <3>1, SinksApart
  <2>5. \A i \in D \ Excluded(S) : found.depth[i] = d[i]
    BY <2>1
  <2> QED
    BY <1>1, <2>3, <2>4, <2>5
<1> HIDE DEF found, cyclic
<1>7. /\ cyclic <=> found.cycles # {}
      /\ cyclic \/ \A i \in D \ Excluded(S) : found.depth[i] = Longest(S, i)
  BY <1>5, <1>6
<1> QED
  BY <1>7 DEF found, cyclic

(* The depths that rank (compute_depths, elimination_depth): in whatever    *)
(* state a projection brings the tables, a set's depth is the length of the *)
(* longest chain of open sets that wait for it, and a cycle is reported     *)
(* exactly when there is one.                                              *)
THEOREM DepthsAreTrue == PSpec => []DepthsAreLongest
<1>1. RunInv => DepthsAreLongest
  <2> SUFFICES ASSUME RunInv, NEW b \in Brackets,
                      \A g \in DOMAIN world.groups[b] : world.groups[b][g].kind = "elim"
               PROVE  LET found  == Searched(tables[b], world.groups[b])
                          cyclic == \E i \in DOMAIN tables[b] : i \in Downstream(tables[b], i)
                      IN  /\ cyclic <=> found.cycles # {}
                          /\ cyclic \/ \A i \in DOMAIN tables[b] \ Excluded(tables[b]) :
                                          found.depth[i] = Longest(tables[b], i)
    BY DEF DepthsAreLongest
  <2> DEFINE S == tables[b]
             groups == world.groups[b]
  <2>1. S \in Seq(SimSets) /\ groups \in Seq(Groups)
    BY DEF RunInv, ApartInv, IsWorld, Tables
  <2>2. ASSUME NEW i \in DOMAIN S PROVE KindOf(groups, S[i]) = "elim"
    <3> DEFINE id == GroupOf(S[i])
               G == GroupIndex(groups, id)
    <3>1. CASE G = {}
      BY <3>1 DEF KindOf
    <3>2. CASE G # {}
      <4>1. Greatest(G, 0) \in DOMAIN groups
        BY <2>1, <3>2, GroupOfIs
      <4> HIDE DEF G
      <4>2. groups[Greatest(G, 0)].kind = "elim"
        BY <4>1
      <4> QED
        BY <3>2, <4>2 DEF KindOf, G
    <3> QED
      BY <3>1, <3>2
  <2> HIDE DEF S, groups
  <2>3. LET found  == Searched(S, groups)
            cyclic == \E i \in DOMAIN S : i \in Downstream(S, i)
        IN  /\ cyclic <=> found.cycles # {}
            /\ cyclic \/ \A i \in DOMAIN S \ Excluded(S) : found.depth[i] = Longest(S, i)
    BY <2>1, <2>2, DepthsCounted
  <2> QED
    BY <2>3 DEF S, groups
<1> QED
  BY <1>1, RunsBegin, RunsGoOn, PTL DEF PSpec
=============================================================================
