---------------------------- MODULE OrderFacts ----------------------------
(***************************************************************************)
(* Facts about orders that the proofs of several components use: least and *)
(* greatest elements, which stand in for induction, and the rank of an     *)
(* element of a finite set, by which the ring is sorted and walked.        *)
(***************************************************************************)
EXTENDS Integers, FiniteSets, FiniteSetTheorems, WellFoundedInduction, TLAPS

\* A set of naturals that is not empty has a least element.
LEMMA LeastNat ==
    ASSUME NEW S \in SUBSET Nat, S # {}
    PROVE  \E m \in S : \A x \in S : m <= x
<1> DEFINE R == OpToRel(<, Nat)
<1>1. PICK m \in S : \A x \in S : ~(<<x, m>> \in R)
  BY NatLessThanWellFounded, WFMin
<1>2. ASSUME NEW x \in S PROVE m <= x
  <2>1. x < m => <<x, m>> \in R
    BY DEF OpToRel
  <2> HIDE DEF R
  <2>2. ~(x < m)
    BY <1>1, <2>1
  <2> QED BY <2>2
<1> QED BY <1>1, <1>2

\* One that is bounded has a greatest element.
LEMMA GreatestNat ==
    ASSUME NEW k \in Nat, NEW S \in SUBSET (1 .. k), S # {}
    PROVE  \E m \in S : \A x \in S : x <= m
<1> DEFINE T == {k - x : x \in S}
<1>1. T \in SUBSET Nat /\ T # {}
  <2>1. \A x \in S : k - x \in Nat
    OBVIOUS
  <2>2. PICK x : x \in S
    OBVIOUS
  <2>3. k - x \in T
    BY <2>2
  <2> QED BY <2>1, <2>3
<1>2. PICK t \in T : \A u \in T : t <= u
  <2> HIDE DEF T
  <2> QED BY <1>1, LeastNat
<1>3. PICK m \in S : t = k - m
  BY <1>2
<1>4. ASSUME NEW x \in S PROVE x <= m
  <2>1. t <= k - x
    BY <1>2
  <2> QED BY <1>3, <2>1
<1> QED BY <1>4

\* A finite set with a strict order has a maximal element: one with the fewest above it.
LEMMA MaximalExists ==
    ASSUME NEW S, IsFiniteSet(S), S # {}, NEW R,
           \A x \in S : <<x, x>> \notin R,
           \A x, y, z \in S : <<x, y>> \in R /\ <<y, z>> \in R => <<x, z>> \in R
    PROVE  \E m \in S : \A x \in S : <<m, x>> \notin R
<1> DEFINE Above(x) == {y \in S : <<x, y>> \in R}
           C == {Cardinality(Above(x)) : x \in S}
<1>1. ASSUME NEW x \in S PROVE IsFiniteSet(Above(x)) /\ Cardinality(Above(x)) \in Nat
  <2>1. Above(x) \in SUBSET S
    OBVIOUS
  <2> HIDE DEF Above
  <2> QED BY <2>1, FS_Subset, FS_CardinalityType
<1>2. C \in SUBSET Nat /\ C # {}
  <2> HIDE DEF Above
  <2> QED BY <1>1
<1>3. PICK c \in C : \A d \in C : c <= d
  <2> HIDE DEF C
  <2> QED BY <1>2, LeastNat
<1>4. PICK m \in S : c = Cardinality(Above(m))
  BY <1>3
<1>5. ASSUME NEW x \in S, <<m, x>> \in R PROVE FALSE
  <2>1. x \in Above(m) /\ x \notin Above(x)
    BY <1>5
  <2>2. Above(x) \in SUBSET Above(m)
    BY <1>5
  <2>3. Cardinality(Above(x)) \in C
    OBVIOUS
  <2> HIDE DEF Above, C
  <2>4. Cardinality(Above(m)) <= Cardinality(Above(x))
    BY <1>3, <1>4, <2>3
  <2>5. /\ Cardinality(Above(x)) <= Cardinality(Above(m))
        /\ Cardinality(Above(m)) = Cardinality(Above(x)) => Above(m) = Above(x)
    BY <1>1, <2>2, FS_Subset
  <2>6. Cardinality(Above(m)) \in Nat /\ Cardinality(Above(x)) \in Nat
    BY <1>1
  <2> QED BY <2>1, <2>4, <2>5, <2>6
<1> QED BY <1>5

\* R orders D totally; it is given as the set of pairs <<x, y>> with x at most y.
TotalOrder(R, D) ==
    /\ \A x \in D : <<x, x>> \in R
    /\ \A x, y \in D : <<x, y>> \in R \/ <<y, x>> \in R
    /\ \A x, y \in D : <<x, y>> \in R /\ <<y, x>> \in R => x = y
    /\ \A x, y, z \in D : <<x, y>> \in R /\ <<y, z>> \in R => <<x, z>> \in R

\* How many elements of D are at most x.
RankIn(R, D, x) == Cardinality({y \in D : <<y, x>> \in R})

\* The rank grows with the element.
LEMMA RankGrows ==
    ASSUME NEW D, IsFiniteSet(D), NEW R, TotalOrder(R, D)
    PROVE  /\ \A x \in D : RankIn(R, D, x) \in 1 .. Cardinality(D)
           /\ \A x, y \in D : <<x, y>> \in R /\ x # y => RankIn(R, D, x) < RankIn(R, D, y)
<1> DEFINE Upto(x) == {y \in D : <<y, x>> \in R}
<1>1. ASSUME NEW x \in D
      PROVE  /\ Upto(x) \in SUBSET D /\ x \in Upto(x)
             /\ IsFiniteSet(Upto(x)) /\ Cardinality(Upto(x)) \in Nat
             /\ Cardinality(Upto(x)) <= Cardinality(D)
  <2>1. Upto(x) \in SUBSET D /\ x \in Upto(x)
    BY DEF TotalOrder
  <2> HIDE DEF Upto
  <2> QED BY <2>1, FS_Subset, FS_CardinalityType
<1>2. ASSUME NEW x \in D PROVE Cardinality(Upto(x)) >= 1
  <2> HIDE DEF Upto
  <2>1. {x} \in SUBSET Upto(x)
    BY <1>1
  <2>2. Cardinality({x}) <= Cardinality(Upto(x)) /\ Cardinality({x}) = 1
    BY <1>1, <2>1, FS_Subset, FS_Singleton
  <2> QED BY <1>1, <2>2
<1>3. ASSUME NEW x \in D, NEW y \in D, <<x, y>> \in R, x # y
      PROVE  Cardinality(Upto(x)) < Cardinality(Upto(y))
  <2>1. Upto(x) \in SUBSET Upto(y) /\ y \notin Upto(x) /\ y \in Upto(y)
    BY <1>3 DEF TotalOrder
  <2> HIDE DEF Upto
  <2>2. /\ Cardinality(Upto(x)) <= Cardinality(Upto(y))
        /\ Cardinality(Upto(y)) = Cardinality(Upto(x)) => Upto(y) = Upto(x)
    BY <1>1, <2>1, FS_Subset
  <2> QED BY <1>1, <2>1, <2>2
<1>4. Cardinality(D) \in Nat
  BY FS_CardinalityType
<1>5. \A x \in D : RankIn(R, D, x) = Cardinality(Upto(x))
  BY DEF RankIn
<1> HIDE DEF Upto
<1> QED BY <1>1, <1>2, <1>3, <1>4, <1>5

\* Every number up to the size of the set is the rank of an element.
LEMMA RankHits ==
    ASSUME NEW D, IsFiniteSet(D), NEW R, TotalOrder(R, D), NEW k \in 1 .. Cardinality(D)
    PROVE  \E x \in D : RankIn(R, D, x) = k
<1> SUFFICES ASSUME \A x \in D : RankIn(R, D, x) # k PROVE FALSE
  OBVIOUS
<1> DEFINE N == Cardinality(D)
           T == (1 .. N) \ {k}
           f == [x \in D |-> RankIn(R, D, x)]
<1>1. N \in Nat /\ IsFiniteSet(1 .. N) /\ Cardinality(1 .. N) = N
  <2>1. N \in Nat
    BY FS_CardinalityType
  <2> HIDE DEF N
  <2>2. IsFiniteSet(1 .. N) /\ Cardinality(1 .. N) = IF 1 > N THEN 0 ELSE N - 1 + 1
    BY <2>1, FS_Interval
  <2> QED BY <2>1, <2>2
<1>2. IsFiniteSet(T) /\ Cardinality(T) = N - 1
  <2> HIDE DEF N
  <2> QED BY <1>1, FS_RemoveElement DEF N
<1>3. f \in [D -> T]
  BY RankGrows
<1>4. Cardinality(T) < Cardinality(D)
  <2> HIDE DEF T
  <2> QED BY <1>1, <1>2
<1>5. PICK x \in D, y \in D : x # y /\ f[x] = f[y]
  <2> HIDE DEF T, f, N
  <2> QED BY <1>2, <1>3, <1>4, FS_PigeonHole
<1>6. RankIn(R, D, x) = RankIn(R, D, y)
  BY <1>5
<1>7. /\ RankIn(R, D, x) \in Nat /\ RankIn(R, D, y) \in Nat
      /\ RankIn(R, D, x) < RankIn(R, D, y) \/ RankIn(R, D, y) < RankIn(R, D, x)
  <2>1. <<x, y>> \in R \/ <<y, x>> \in R
    BY DEF TotalOrder
  <2>2. RankIn(R, D, x) \in 1 .. N /\ RankIn(R, D, y) \in 1 .. N
    BY RankGrows
  <2>3. RankIn(R, D, x) < RankIn(R, D, y) \/ RankIn(R, D, y) < RankIn(R, D, x)
    BY <1>5, <2>1, RankGrows
  <2> HIDE DEF N
  <2> QED BY <1>1, <2>2, <2>3
<1> QED BY <1>6, <1>7
=============================================================================
