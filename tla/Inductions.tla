------------------------------ MODULE Inductions ------------------------------
(***************************************************************************)
(* Facts about numbers, lists and folds that the proofs of several         *)
(* components need.  What a fold over a list returns is an induction over  *)
(* the list; the induction theorems of the library take an operator, so    *)
(* the inductions here go by the least place at which something fails      *)
(* (FirstOf), over the chain of values that a fold goes through.           *)
(***************************************************************************)
EXTENDS Integers, FiniteSets, Sequences, SequencesExt, FiniteSetTheorems, WellFoundedInduction, TLAPS

(* Of several numbers, one is the first. *)
LEMMA FirstOf ==
  ASSUME NEW S \in SUBSET Nat, S # {}
  PROVE  \E i \in S : \A j \in S : i <= j
<1>1. PICK i \in S : \A j \in S : <<j, i>> \notin OpToRel(<, Nat)
  BY WFMin, NatLessThanWellFounded, Zenon
<1>2. \A j \in S : ~(j < i)
  BY <1>1 DEF OpToRel
<1> QED
  BY <1>2

(* What holds at 0 and goes on holding up to n holds up to n. *)
LEMMA Upwards ==
  ASSUME NEW n \in Nat, NEW B, 0 \in B, \A k \in 1..n : k - 1 \in B => k \in B
  PROVE  \A k \in 0..n : k \in B
<1> DEFINE bad == {k \in 0..n : k \notin B}
<1> SUFFICES ASSUME bad # {} PROVE FALSE
  OBVIOUS
<1>0. bad \in SUBSET Nat
  OBVIOUS
<1>1. PICK k \in bad : \A j \in bad : k <= j
  <2> HIDE DEF bad
  <2> QED
    BY <1>0, FirstOf
<1>2. k \in 1..n /\ k - 1 \in 0..n /\ k - 1 \notin bad
  BY <1>1
<1> QED
  BY <1>1, <1>2

(* A function defined step by step exists. *)
StaysIn(F, K, V) == \A k \in K, v \in V : F[<<k, v>>] \in V
Chain(f, F, base, n, V) ==
    f \in [0..n -> V] /\ f[0] = base /\ \A k \in 1..n : f[k] = F[<<k, f[k - 1]>>]
LEMMA Recursion ==
  ASSUME NEW V, NEW base \in V, NEW n \in Nat, NEW F, StaysIn(F, 1..n, V)
  PROVE  \E f : Chain(f, F, base, n, V)
<1> USE DEF StaysIn, Chain
<1> DEFINE Upto(m) == \E f \in [0..m -> V] : f[0] = base /\ \A k \in 1..m : f[k] = F[<<k, f[k - 1]>>]
           B == {m \in 0..n : Upto(m)}
<1>1. 0 \in B
  <2> DEFINE f == [k \in 0..0 |-> base]
  <2>1. f \in [0..0 -> V] /\ f[0] = base
    OBVIOUS
  <2>2. \A k \in 1..0 : FALSE
    OBVIOUS
  <2>3. Upto(0)
    <3> HIDE DEF f
    <3> QED
      BY <2>1, <2>2
  <2> QED
    BY <2>3
<1>2. ASSUME NEW m \in 1..n, m - 1 \in B PROVE m \in B
  <2>1. PICK f \in [0..(m - 1) -> V] : f[0] = base /\ \A k \in 1..(m - 1) : f[k] = F[<<k, f[k - 1]>>]
    BY <1>2
  <2> DEFINE g == [k \in 0..m |-> IF k = m THEN F[<<m, f[m - 1]>>] ELSE f[k]]
  <2>2. g \in [0..m -> V] /\ g[0] = base
    BY <2>1
  <2>3. ASSUME NEW k \in 1..m PROVE g[k] = F[<<k, g[k - 1]>>]
    <3>1. k - 1 \in 0..m /\ k - 1 # m
      OBVIOUS
    <3>2. g[k - 1] = f[k - 1]
      BY <3>1
    <3>3. CASE k = m
      <4>1. g[m] = F[<<m, f[m - 1]>>]
        OBVIOUS
      <4> QED
        BY <3>2, <3>3, <4>1
    <3>4. CASE k # m
      <4>1. k \in 1..(m - 1)
        BY <3>4
      <4>2. g[k] = f[k]
        BY <3>4
      <4> QED
        BY <2>1, <3>2, <4>1, <4>2
    <3> QED
      BY <3>3, <3>4
  <2>4. Upto(m)
    <3> HIDE DEF g
    <3> QED
      BY <2>2, <2>3
  <2> QED
    BY <2>4
<1>3. n \in B
  <2> HIDE DEF B
  <2> QED
    BY <1>1, <1>2, Upwards
<1> QED
  BY <1>3

Sized(S, n, pick) ==
    \A s \in SUBSET S :
        /\ Cardinality(s) \in 0..n /\ (Cardinality(s) = 0 => s = {})
        /\ s # {} => Cardinality(s \ {pick[s]}) = Cardinality(s) - 1
Refolds(g, h, F, base, S, pick) ==
    \A s \in SUBSET S : g[s] = IF s = {} THEN base ELSE F[<<pick[s], h[s \ {pick[s]}]>>]

(* Iterated as often as a set has elements, the fold of it has settled. *)
LEMMA FoldSettles ==
  ASSUME NEW S, NEW n \in Nat, NEW pick, Sized(S, n, pick),
         NEW base, NEW F, NEW h, \A s \in SUBSET S : h[0][s] = base,
         \A k \in 0..n : Refolds(h[k + 1], h[k], F, base, S, pick)
  PROVE  Refolds(h[n], h[n], F, base, S, pick)
<1> USE DEF Sized, Refolds
<1> DEFINE Settled(k) == \A s \in SUBSET S : Cardinality(s) <= k => h[k][s] = h[k + 1][s]
           B == {k \in 0..n : Settled(k)}
<1>1. 0 \in B
  <2>1. ASSUME NEW s \in SUBSET S, Cardinality(s) <= 0 PROVE h[0][s] = h[1][s]
    <3>1. s = {}
      <4>1. Cardinality(s) \in 0..n /\ (Cardinality(s) = 0 => s = {})
        BY DEF Sized
      <4> QED
        BY <2>1, <4>1
    <3>2. 0 \in 0..n /\ 0 + 1 = 1
      OBVIOUS
    <3>3. h[0 + 1][s] = IF s = {} THEN base ELSE F[<<pick[s], h[0][s \ {pick[s]}]>>]
      BY <3>2
    <3> QED
      BY <3>1, <3>2, <3>3
  <2>2. Settled(0)
    BY <2>1
  <2> QED
    BY <2>2
<1>2. ASSUME NEW k \in 1..n, k - 1 \in B PROVE k \in B
  <2>1. ASSUME NEW s \in SUBSET S, Cardinality(s) <= k PROVE h[k][s] = h[k + 1][s]
    <3>1. k \in 0..n /\ k - 1 \in 0..n /\ (k - 1) + 1 = k
      OBVIOUS
    <3>2. h[k + 1][s] = IF s = {} THEN base ELSE F[<<pick[s], h[k][s \ {pick[s]}]>>]
      BY <3>1
    <3>3. h[(k - 1) + 1][s] = IF s = {} THEN base ELSE F[<<pick[s], h[k - 1][s \ {pick[s]}]>>]
      BY <3>1
    <3>4. CASE s # {}
      <4>1. s \ {pick[s]} \in SUBSET S
        OBVIOUS
      <4>2. Cardinality(s \ {pick[s]}) <= k - 1
        BY <2>1, <3>4
      <4>3. Settled(k - 1)
        BY <1>2
      <4>4. h[k - 1][s \ {pick[s]}] = h[(k - 1) + 1][s \ {pick[s]}]
        BY <4>1, <4>2, <4>3
      <4> QED
        BY <3>1, <3>2, <3>3, <3>4, <4>4
    <3> QED
      BY <3>1, <3>2, <3>3, <3>4
  <2>2. Settled(k)
    BY <2>1
  <2> QED
    BY <2>2
<1>3. n \in 0..n /\ \A k \in 0..n : k \in B
  <2> HIDE DEF B
  <2> QED
    BY <1>1, <1>2, Upwards
<1>4. Settled(n)
  BY <1>3
<1>5. \A s \in SUBSET S : h[n][s] = h[n + 1][s]
  <2> TAKE s \in SUBSET S
  <2>1. Cardinality(s) \in 0..n
    BY DEF Sized
  <2>2. Cardinality(s) <= n
    BY <2>1
  <2> QED
    BY <1>4, <2>2
<1>6. Refolds(h[n + 1], h[n], F, base, S, pick)
  BY <1>3
<1> HIDE DEF Settled, B
<1> QED
  BY <1>5, <1>6

Picking(pick, S) == \A s \in SUBSET S : s # {} => pick[s] \in s
FoldOver(g, F, base, S, pick, V) ==
    g \in [SUBSET S -> V] /\ g = [s \in SUBSET S |-> IF s = {} THEN base ELSE F[<<pick[s], g[s \ {pick[s]}]>>]]

(* The fold of a finite set exists, whichever element it picks first. *)
LEMMA FoldExists ==
  ASSUME NEW S, IsFiniteSet(S), NEW pick, Picking(pick, S),
         NEW V, NEW base \in V, NEW F, StaysIn(F, S, V)
  PROVE  \E g : FoldOver(g, F, base, S, pick, V)
<1> USE DEF FoldOver, Picking
<1> DEFINE G == [SUBSET S -> V]
           Again(g) == [s \in SUBSET S |-> IF s = {} THEN base ELSE F[<<pick[s], g[s \ {pick[s]}]>>]]
           start == [s \in SUBSET S |-> base]
<1> USE DEF StaysIn
<1>1. PICK n \in Nat : n = Cardinality(S)
  BY FS_CardinalityType
<1>2. \A g \in G : Again(g) \in G
  <2> TAKE g \in G
  <2>1. ASSUME NEW s \in SUBSET S, s # {} PROVE F[<<pick[s], g[s \ {pick[s]}]>>] \in V
    <3>1. pick[s] \in S /\ s \ {pick[s]} \in SUBSET S
      BY <2>1
    <3> QED
      BY <3>1
  <2> QED
    BY <2>1
<1> DEFINE A == [x \in (1..(n + 1)) \X G |-> Again(x[2])]
<1>3. ASSUME NEW k \in 1..(n + 1), NEW g \in G PROVE A[<<k, g>>] \in G /\ A[<<k, g>>] = Again(g)
  <2>1. A[<<k, g>>] = Again(g)
    <3> HIDE DEF Again, G
    <3> QED
      OBVIOUS
  <2> QED
    BY <1>2, <2>1
<1>4. start \in G
  OBVIOUS
<1>5. n + 1 \in Nat
  OBVIOUS
<1> HIDE DEF A, G, start
<1>6. \A k \in 1..(n + 1), g \in G : A[<<k, g>>] \in G
  BY <1>3
<1>7. PICK h : Chain(h, A, start, n + 1, G)
  <2>1. StaysIn(A, 1..(n + 1), G)
    BY <1>6 DEF StaysIn
  <2> HIDE DEF Again
  <2> QED
    BY <1>4, <1>5, <2>1, Recursion
<1> USE DEF Chain
<1>8. ASSUME NEW k \in 0..n, NEW s \in SUBSET S
      PROVE  h[k + 1][s] = IF s = {} THEN base ELSE F[<<pick[s], h[k][s \ {pick[s]}]>>]
  <2>1. k + 1 \in 1..(n + 1) /\ (k + 1) - 1 = k /\ k \in 0..(n + 1)
    OBVIOUS
  <2>2. h[k + 1] = A[<<k + 1, h[k]>>] /\ h[k] \in G
    BY <1>7, <2>1
  <2>3. h[k + 1] = Again(h[k])
    <3> HIDE DEF Again
    <3> QED
      BY <1>3, <2>1, <2>2
  <2> QED
    BY <2>3
<1>9. \A s \in SUBSET S : h[0][s] = base
  BY <1>7 DEF start
<1>10. \A s \in SUBSET S : IsFiniteSet(s) /\ Cardinality(s) \in 0..n
  BY <1>1, FS_Subset, FS_CardinalityType
<1>11. \A s \in SUBSET S : Cardinality(s) = 0 => s = {}
  BY <1>10, FS_EmptySet
<1>12. ASSUME NEW s \in SUBSET S, s # {} PROVE Cardinality(s \ {pick[s]}) = Cardinality(s) - 1
  <2>1. pick[s] \in s /\ IsFiniteSet(s)
    BY <1>10, <1>12
  <2> QED
    BY <2>1, FS_RemoveElement
<1>13. Refolds(h[n], h[n], F, base, S, pick)
  <2>1. \A k \in 0..n : Refolds(h[k + 1], h[k], F, base, S, pick)
    BY <1>8 DEF Refolds
  <2>2. Sized(S, n, pick)
    BY <1>10, <1>11, <1>12 DEF Sized
  <2> HIDE DEF Again, Chain
  <2> QED
    BY <1>9, <2>1, <2>2, FoldSettles
<1>14. h[n] \in [SUBSET S -> V]
  <2>1. n \in 0..(n + 1)
    OBVIOUS
  <2>2. h[n] \in G
    BY <1>7, <2>1
  <2> QED
    BY <2>2 DEF G
<1>15. h[n] = [s \in SUBSET S |-> IF s = {} THEN base ELSE F[<<pick[s], h[n][s \ {pick[s]}]>>]]
  BY <1>13, <1>14 DEF Refolds
<1> QED
  BY <1>14, <1>15

(* What a fold over 1..n from the left computes, step by step. *)
Tops(n) == [s \in SUBSET (1..n) |-> Max(s)]
LEMMA TopsPick ==
  ASSUME NEW n \in Nat
  PROVE  /\ IsFiniteSet(1..n)
         /\ \A s \in SUBSET (1..n) : s # {} => Tops(n)[s] \in s
         /\ \A k \in 1..n : Tops(n)[1..k] = k /\ (1..k) \ {k} = 1..(k - 1)
<1>1. IsFiniteSet(1..n)
  BY FS_Interval
<1>2. ASSUME NEW s \in SUBSET (1..n), s # {} PROVE \E m \in s : \A k \in s : m >= k
  <2> DEFINE below == {n - k : k \in s}
  <2>1. below \in SUBSET Nat /\ below # {}
    <3>1. \A k \in s : n - k \in Nat
      <4> TAKE k \in s
      <4>1. k \in 1..n
        OBVIOUS
      <4> QED
        BY <4>1
    <3> QED
      BY <1>2, <3>1
  <2>2. PICK d \in below : \A e \in below : d <= e
    <3> HIDE DEF below
    <3> QED
      BY <2>1, FirstOf
  <2>3. PICK m \in s : d = n - m
    BY <2>2
  <2>4. \A k \in s : m >= k
    <3> TAKE k \in s
    <3>1. n - k \in below
      OBVIOUS
    <3> QED
      BY <2>2, <2>3, <3>1
  <2> QED
    BY <2>4
<1>3. ASSUME NEW s \in SUBSET (1..n), s # {} PROVE Tops(n)[s] \in s /\ \A k \in s : Tops(n)[s] >= k
  BY <1>2, <1>3 DEF Tops, Max
<1>4. ASSUME NEW k \in 1..n PROVE Tops(n)[1..k] = k /\ (1..k) \ {k} = 1..(k - 1)
  <2>1. (1..k) \in SUBSET (1..n) /\ k \in 1..k
    OBVIOUS
  <2>2. Tops(n)[1..k] \in 1..k /\ Tops(n)[1..k] >= k
    BY <1>3, <2>1
  <2> QED
    BY <2>2
<1> QED
  BY <1>1, <1>3, <1>4

(* So does the fold of F from the left. *)
LEMMA LeftFold ==
  ASSUME NEW V, NEW base \in V, NEW n \in Nat, NEW F, StaysIn(F, 1..n, V)
  PROVE  \E g : FoldOver(g, F, base, 1..n, Tops(n), V)
<1>1. IsFiniteSet(1..n) /\ Picking(Tops(n), 1..n)
  BY TopsPick DEF Picking
<1> DEFINE S == 1..n
           pick == Tops(n)
<1>2. IsFiniteSet(S) /\ Picking(pick, S) /\ StaysIn(F, S, V)
  BY <1>1
<1>3. \E g : FoldOver(g, F, base, S, pick, V)
  <2> HIDE DEF S, pick
  <2> QED
    BY <1>2, FoldExists
<1> QED
  BY <1>3

(* Which elements it takes, one after another. *)
LEMMA Uptos ==
  ASSUME NEW n \in Nat, NEW k \in 1..n
  PROVE  (1..k) \in SUBSET (1..n) /\ 1..k # {} /\ Max(1..k) = k /\ (1..k) \ {k} = 1..(k - 1)
<1>1. (1..k) \in SUBSET (1..n) /\ k \in 1..k
  OBVIOUS
<1> QED
  BY <1>1, TopsPick DEF Tops

LEMMA ListIn ==
    ASSUME NEW s, NEW n \in Nat, s = [i \in 1..n |-> s[i]], NEW X, \A i \in 1..n : s[i] \in X
    PROVE  s \in Seq(X) /\ Len(s) = n
<1>1. s \in [1..n -> X]
  OBVIOUS
<1> QED
  BY <1>1

(* The elements at or before each one in an order number them. *)
LEMMA Ranks ==
    ASSUME NEW S, IsFiniteSet(S), NEW upto \in [S -> SUBSET S],
           \A i \in S : i \in upto[i],
           \A i, j \in S : i # j => \/ upto[i] \subseteq upto[j] /\ j \notin upto[i]
                                    \/ upto[j] \subseteq upto[i] /\ i \notin upto[j]
    PROVE  /\ \A i, j \in S : Cardinality(upto[i]) = Cardinality(upto[j]) => i = j
           /\ \A k \in 1..Cardinality(S) : \E i \in S : Cardinality(upto[i]) = k
<1> DEFINE n    == Cardinality(S)
           rank == [i \in S |-> Cardinality(upto[i])]
<1>1. n \in Nat
  BY FS_CardinalityType
<1>2. ASSUME NEW i \in S
      PROVE  IsFiniteSet(upto[i]) /\ rank[i] \in 1..n
  <2>1. IsFiniteSet(upto[i]) /\ Cardinality(upto[i]) <= n
    BY FS_Subset
  <2>2. Cardinality(upto[i]) \in Nat /\ Cardinality(upto[i]) # 0
    BY <2>1, FS_CardinalityType, FS_EmptySet
  <2> QED
    BY <1>1, <2>1, <2>2
<1>3. ASSUME NEW i \in S, NEW j \in S, rank[i] = rank[j]
      PROVE  i = j
  <2>1. ASSUME NEW x \in S, NEW y \in S, upto[x] \subseteq upto[y], y \notin upto[x],
               Cardinality(upto[x]) = Cardinality(upto[y])
        PROVE  FALSE
    <3>1. IsFiniteSet(upto[y]) /\ upto[x] \in SUBSET upto[y]
      BY <1>2, <2>1
    <3>2. upto[y] = upto[x]
      BY <2>1, <3>1, FS_Subset
    <3> QED
      BY <2>1, <3>2
  <2> QED
    BY <1>3, <2>1
<1>4. rank \in Injection(S, 1..n)
  BY <1>2, <1>3 DEF Injection, IsInjective
<1>5. IsFiniteSet(1..n) /\ Cardinality(1..n) = n
  BY <1>1, FS_Interval
<1>6. rank \in Surjection(S, 1..n)
  BY <1>4, <1>5, FS_Injection
<1>7. \A k \in 1..n : \E i \in S : rank[i] = k
  BY <1>6 DEF Surjection
<1> QED
  BY <1>3, <1>7

(* The places of a list, from the first on: each has its number.           *)
LEMMA Places ==
    ASSUME NEW S, \A i \in S : i \in Nat, IsFiniteSet(S)
    PROVE  \A k \in 1..Cardinality(S) : \E i \in S : Cardinality({j \in S : j <= i}) = k
<1> DEFINE upto == [i \in S |-> {j \in S : j <= i}]
<1>1. upto \in [S -> SUBSET S]
  OBVIOUS
<1>5. \A i \in S : upto[i] = {j \in S : j <= i}
  OBVIOUS
<1>2. \A i \in S : i \in upto[i]
  OBVIOUS
<1>3. \A i, j \in S : i # j => \/ upto[i] \subseteq upto[j] /\ j \notin upto[i]
                               \/ upto[j] \subseteq upto[i] /\ i \notin upto[j]
  <2> HIDE DEF upto
  <2>1. ASSUME NEW i \in S, NEW j \in S, i < j
        PROVE  upto[i] \subseteq upto[j] /\ j \notin upto[i]
    BY <1>5, <2>1
  <2>2. \A i, j \in S : i # j => i < j \/ j < i
    OBVIOUS
  <2> QED
    BY <2>1, <2>2
<1> HIDE DEF upto
<1>4. \A k \in 1..Cardinality(S) : \E i \in S : Cardinality(upto[i]) = k
  BY <1>1, <1>2, <1>3, Ranks
<1> QED
  BY <1>4, <1>5

(* Of several places, one is the last. *)
LEMMA LastOf ==
    ASSUME NEW S, \A i \in S : i \in Nat, IsFiniteSet(S), S # {}
    PROVE  Max(S) \in S /\ \A i \in S : i <= Max(S)
<1>1. Cardinality(S) \in Nat /\ Cardinality(S) # 0
  BY FS_CardinalityType, FS_EmptySet
<1>5. Cardinality(S) \in 1..Cardinality(S)
  BY <1>1
<1>2. PICK m \in S : Cardinality({j \in S : j <= m}) = Cardinality(S)
  BY <1>5, Places
<1>3. {j \in S : j <= m} = S
  BY <1>2, FS_Subset
<1>4. \A j \in S : m >= j
  BY <1>3
<1> QED
  BY <1>4 DEF Max

(* A finite set as a sequence: every element once. *)
LEMMA ListedOnce ==
    ASSUME NEW S, IsFiniteSet(S)
    PROVE  /\ \A i \in DOMAIN SetToSeq(S) : SetToSeq(S)[i] \in S
           /\ \A i, j \in DOMAIN SetToSeq(S) : SetToSeq(S)[i] = SetToSeq(S)[j] => i = j
<1> DEFINE n == Cardinality(S)
           P(f) == f \in [1..n -> S] /\ IsInjective(f)
<1>1. n \in Nat
  BY FS_CardinalityType
<1>2. PICK f : f \in Bijection(1..n, S)
  BY FS_CardinalityType DEF ExistsBijection
<1>3. f \in [1..n -> S] /\ \A i, j \in DOMAIN f : f[i] = f[j] => i = j
  BY <1>2 DEF Bijection, Injection, Surjection, IsInjective
<1>4. P(f)
  BY <1>3 DEF IsInjective
<1>5. SetToSeq(S) = CHOOSE g : P(g)
  BY DEF SetToSeq
<1>6. P(SetToSeq(S))
  <2> HIDE DEF P
  <2> QED
    BY <1>4, <1>5
<1> QED
  BY <1>6 DEF IsInjective

(* A finite set as a sequence: nothing is left out. *)
LEMMA Enumerated ==
    ASSUME NEW S, IsFiniteSet(S)
    PROVE  SetToSeq(S) \in Seq(S) /\ \A x \in S : \E i \in DOMAIN SetToSeq(S) : SetToSeq(S)[i] = x
<1> DEFINE n == Cardinality(S)
           P(f) == f \in [1..n -> S] /\ IsInjective(f)
           s == SetToSeq(S)
<1>1. n \in Nat
  BY FS_CardinalityType
<1>2. PICK f : f \in Bijection(1..n, S)
  BY FS_CardinalityType DEF ExistsBijection
<1>3. f \in [1..n -> S] /\ \A i, j \in DOMAIN f : f[i] = f[j] => i = j
  BY <1>2 DEF Bijection, Injection, Surjection, IsInjective
<1>4. P(f)
  BY <1>3 DEF IsInjective
<1>5. s = CHOOSE g : P(g)
  BY DEF SetToSeq
<1>6. P(s)
  <2> HIDE DEF P, s
  <2> QED
    BY <1>4, <1>5
<1>7. s \in Injection(1..n, S)
  BY <1>6 DEF Injection
<1>8. s \in Surjection(1..n, S)
  BY <1>1, <1>7, FS_Interval, FS_CardinalityType, FS_Injection
<1>9. \A x \in S : \E i \in 1..n : s[i] = x
  BY <1>8 DEF Surjection
<1> HIDE DEF s
<1>10. DOMAIN s = 1..n /\ s \in Seq(S)
  BY <1>1, <1>6
<1> QED
  BY <1>9, <1>10 DEF s

(* Lists put one after another. *)
LEMMA FlattenSteps ==
    ASSUME NEW X, NEW seqs \in Seq(Seq(X)), Len(seqs) # 0
    PROVE  \E c : /\ FlattenSeq(seqs) = c[Len(seqs)]
                 /\ \A k \in 1..Len(seqs) : /\ c[k] \in Seq(X)
                                            /\ c[k] = IF k = 1 THEN seqs[k] ELSE c[k - 1] \o seqs[k]
<1> DEFINE n == Len(seqs)
           V == Seq(X)
           F == [x \in (1..n) \X V |-> x[2] \o seqs[x[1]]]
           Body(f) == [i \in 1..n |-> IF i = 1 THEN seqs[i] ELSE f[i - 1] \o seqs[i]]
<1>1. n \in Nat /\ \A i \in 1..n : seqs[i] \in V
  OBVIOUS
<1>2. n # 0
  OBVIOUS
<1>3. <<>> \in V /\ StaysIn(F, 1..n, V)
  <2>1. ASSUME NEW k \in 1..n, NEW v \in V PROVE F[<<k, v>>] \in V
    <3>1. F[<<k, v>>] = v \o seqs[k] /\ seqs[k] \in V
      BY <1>1
    <3> QED
      BY <3>1
  <2>2. <<>> \in V
    OBVIOUS
  <2> HIDE DEF V, F
  <2> QED
    BY <2>1, <2>2 DEF StaysIn
<1>4. PICK g : Chain(g, F, <<>>, n, V)
  <2> HIDE DEF V, F
  <2> QED
    BY <1>1, <1>3, Recursion
<1> DEFINE h == [i \in 1..n |-> g[i]]
<1>5. \A i \in 1..n : g[i - 1] \in V /\ g[i] \in V /\ g[i] = g[i - 1] \o seqs[i]
  <2> TAKE i \in 1..n
  <2>1. i - 1 \in 0..n /\ i \in 0..n
    OBVIOUS
  <2>2. g[i - 1] \in V /\ g[i] \in V /\ g[i] = F[<<i, g[i - 1]>>]
    <3> HIDE DEF F, V
    <3> QED
      BY <1>4, <2>1 DEF Chain
  <2> QED
    BY <2>2
<1>6. g[1] = seqs[1]
  <2>1. 1 \in 1..n /\ g[0] = <<>>
    BY <1>1, <1>2, <1>4 DEF Chain
  <2>3. 1 - 1 = 0
    OBVIOUS
  <2>2. g[1] = <<>> \o seqs[1] /\ seqs[1] \in V
    <3>1. g[1] = g[1 - 1] \o seqs[1]
      BY <1>5, <2>1
    <3> QED
      BY <1>1, <2>1, <2>3, <3>1
  <2> QED
    BY <2>2
<1>7. h = Body(h)
  <2>1. ASSUME NEW i \in 1..n, i # 1 PROVE h[i] = h[i - 1] \o seqs[i]
    <3>1. i - 1 \in 1..n
      BY <2>1
    <3> QED
      BY <1>5, <3>1
  <2>2. ASSUME NEW i \in 1..n PROVE h[i] = IF i = 1 THEN seqs[i] ELSE h[i - 1] \o seqs[i]
    <3>1. CASE i = 1
      BY <1>6, <3>1
    <3>2. CASE i # 1
      BY <2>1, <3>2
    <3> QED
      BY <3>1, <3>2
  <2>3. h = [i \in 1..n |-> h[i]]
    OBVIOUS
  <2> HIDE DEF h
  <2> QED
    BY <2>2, <2>3
<1> DEFINE c == CHOOSE f : f = Body(f)
<1>8. c = Body(c)
  <2> HIDE DEF Body
  <2> QED
    BY <1>7
<1>9. FlattenSeq(seqs) = c[n]
  BY <1>2 DEF FlattenSeq
<1> HIDE DEF c
<1> DEFINE B == {k \in 0..n : k # 0 => c[k] \in V}
<1>10. ASSUME NEW k \in 1..n, k - 1 \in B PROVE k \in B
  <2>1. c[k] = IF k = 1 THEN seqs[k] ELSE c[k - 1] \o seqs[k]
    BY <1>8
  <2>2. CASE k = 1
    BY <1>1, <2>1, <2>2
  <2>3. CASE k # 1
    <3>1. c[k - 1] \in V /\ seqs[k] \in V
      BY <1>1, <1>10, <2>3
    <3>2. c[k] = c[k - 1] \o seqs[k]
      BY <2>1, <2>3
    <3>3. c[k] \in V
      BY <3>1, <3>2
    <3> QED
      BY <3>3
  <2> QED
    BY <2>2, <2>3
<1>11. 0 \in B
  BY <1>1
<1>12. \A k \in 0..n : k \in B
  <2> HIDE DEF B
  <2>1. \A k \in 1..n : k - 1 \in B => k \in B
    BY <1>10
  <2> HIDE DEF n
  <2> QED
    BY <1>1, <1>11, <2>1, Upwards
<1>13. \A k \in 1..n : c[k] \in V /\ c[k] = IF k = 1 THEN seqs[k] ELSE c[k - 1] \o seqs[k]
  <2> TAKE k \in 1..n
  <2>1. c[k] \in V
    BY <1>12
  <2>2. c[k] = IF k = 1 THEN seqs[k] ELSE c[k - 1] \o seqs[k]
    BY <1>8
  <2> QED
    BY <2>1, <2>2
<1> QED
  BY <1>9, <1>13

LEMMA FlattenIn ==
    ASSUME NEW X, NEW seqs \in Seq(Seq(X))
    PROVE  FlattenSeq(seqs) \in Seq(X)
<1>1. CASE Len(seqs) = 0
  BY <1>1 DEF FlattenSeq
<1>2. CASE Len(seqs) # 0
  <2>1. PICK c : FlattenSeq(seqs) = c[Len(seqs)] /\ \A k \in 1..Len(seqs) : c[k] \in Seq(X)
    BY <1>2, FlattenSteps
  <2>2. Len(seqs) \in 1..Len(seqs)
    BY <1>2
  <2> QED
    BY <2>1, <2>2
<1> QED
  BY <1>1, <1>2

LEMMA FlattenHolds ==
    ASSUME NEW X, NEW seqs \in Seq(Seq(X)), NEW i \in DOMAIN seqs, NEW j \in DOMAIN seqs[i]
    PROVE  \E m \in DOMAIN FlattenSeq(seqs) : FlattenSeq(seqs)[m] = seqs[i][j]
<1> DEFINE n == Len(seqs)
<1>1. n \in Nat /\ i \in 1..n /\ n # 0 /\ \A k \in 1..n : seqs[k] \in Seq(X)
  OBVIOUS
<1>2. PICK c : /\ FlattenSeq(seqs) = c[n]
               /\ \A k \in 1..n : /\ c[k] \in Seq(X)
                                  /\ c[k] = IF k = 1 THEN seqs[k] ELSE c[k - 1] \o seqs[k]
  BY <1>1, FlattenSteps
<1> DEFINE Has(k) == \E m \in DOMAIN c[k] : c[k][m] = seqs[i][j]
           B == {k \in 0..n : k >= i => Has(k)}
<1>3. 0 \in B
  BY <1>1
<1>4. ASSUME NEW k \in 1..n, k - 1 \in B PROVE k \in B
  <2>0. k \in 0..n /\ (k # 1 => k - 1 \in 1..n)
    BY <1>1
  <2>1. c[k] \in Seq(X) /\ seqs[k] \in Seq(X) /\ (k # 1 => c[k - 1] \in Seq(X))
    BY <1>1, <1>2, <2>0
  <2>2. CASE k = i
    <3>1. CASE k = 1
      <4>1. c[k] = seqs[i]
        BY <1>2, <2>2, <3>1
      <4> QED
        BY <2>0, <4>1
    <3>2. CASE k # 1
      <4> DEFINE a == c[k - 1]
                 m == Len(a) + j
      <4>1. c[k] = a \o seqs[i] /\ a \in Seq(X) /\ seqs[i] \in Seq(X)
        BY <1>1, <1>2, <2>1, <2>2, <3>2
      <4> HIDE DEF a, n
      <4>2. m \in DOMAIN (a \o seqs[i]) /\ (a \o seqs[i])[m] = seqs[i][j]
        BY <4>1
      <4> QED
        BY <2>0, <4>1, <4>2
    <3> QED
      BY <3>1, <3>2
  <2>3. CASE k > i
    <3>1. k # 1 /\ k - 1 >= i
      BY <1>1, <2>3
    <3>2. PICK m \in DOMAIN c[k - 1] : c[k - 1][m] = seqs[i][j]
      BY <1>4, <3>1
    <3> DEFINE a == c[k - 1]
               b == seqs[k]
    <3>3. c[k] = a \o b /\ a \in Seq(X) /\ b \in Seq(X) /\ m \in DOMAIN a /\ a[m] = seqs[i][j]
      BY <1>2, <2>1, <3>1, <3>2
    <3> HIDE DEF a, b, n
    <3>4. m \in DOMAIN (a \o b) /\ (a \o b)[m] = a[m]
      BY <3>3
    <3> QED
      BY <2>0, <3>3, <3>4
  <2> HIDE DEF Has
  <2>4. CASE k < i
    BY <1>1, <2>0, <2>4
  <2> QED
    BY <1>1, <2>2, <2>3, <2>4
<1>5. n \in B
  <2> HIDE DEF B, n
  <2>1. n \in 0..n
    BY <1>1
  <2> QED
    BY <1>1, <1>3, <1>4, <2>1, Upwards
<1> QED
  BY <1>1, <1>2, <1>5
=============================================================================
