-------------------------- MODULE VersioningProofs --------------------------
(***************************************************************************)
(* Proofs about Versioning: clocks order two versions exactly as they were *)
(* made, and Detect loses no write, for any set of nodes, any number of    *)
(* versions and any list of answers.                                       *)
(***************************************************************************)
EXTENDS Versioning, OrderFacts, NaturalsInduction

-----------------------------------------------------------------------------
(***************************************************************************)
(* The order of clocks                                                     *)
(***************************************************************************)

\* No counter of vc is above that of other.
AtMost(vc, other) == \A n \in Nodes : vc[n] <= other[n]

\* What Compare calls "Before".
Less(vc, other) == AtMost(vc, other) /\ \E n \in Nodes : vc[n] < other[n]

\* Compare answers with the product order of the counters.
LEMMA CompareIsOrder ==
    ASSUME NEW vc \in VectorClock, NEW other \in VectorClock
    PROVE  /\ Compare(vc, other) \in {"Equal", "Before", "After", "Concurrent"}
           /\ Compare(vc, other) = "Before" <=> Less(vc, other)
           /\ Compare(vc, other) = "After" <=> Less(other, vc)
<1> DEFINE L == \E n \in Nodes : vc[n] < other[n]
           G == \E n \in Nodes : other[n] < vc[n]
<1>1. \A n \in Nodes : vc[n] \in Nat /\ other[n] \in Nat
  BY DEF VectorClock
<1>2. AtMost(vc, other) <=> ~G
  BY <1>1 DEF AtMost
<1>3. AtMost(other, vc) <=> ~L
  BY <1>1 DEF AtMost
<1>4. Less(vc, other) <=> L /\ ~G
  BY <1>2 DEF Less
<1>5. Less(other, vc) <=> G /\ ~L
  BY <1>3 DEF Less
<1>6. Compare(vc, other) = CASE ~L /\ ~G -> "Equal"
                             [] L /\ ~G  -> "Before"
                             [] ~L /\ G  -> "After"
                             [] OTHER -> "Concurrent"
  BY DEF Compare
<1> HIDE DEF L, G
<1> QED BY <1>4, <1>5, <1>6

\* The order is transitive, with either side weak, and irreflexive.
LEMMA LessIsStrict ==
    ASSUME NEW a \in VectorClock, NEW b \in VectorClock, NEW c \in VectorClock
    PROVE  /\ ~Less(a, a)
           /\ AtMost(a, b) /\ AtMost(b, c) => AtMost(a, c)
           /\ Less(a, b) /\ AtMost(b, c) => Less(a, c)
           /\ AtMost(a, b) /\ Less(b, c) => Less(a, c)
<1>1. \A n \in Nodes : a[n] \in Nat /\ b[n] \in Nat /\ c[n] \in Nat
  BY DEF VectorClock
<1> QED BY <1>1 DEF Less, AtMost

\* A merged clock is a clock, at or after both, and no counter of it is new.
LEMMA MergeProps ==
    ASSUME NEW vc \in VectorClock, NEW other \in VectorClock
    PROVE  /\ Merge(vc, other) \in VectorClock
           /\ AtMost(vc, Merge(vc, other)) /\ AtMost(other, Merge(vc, other))
           /\ \A n \in Nodes : Merge(vc, other)[n] \in {vc[n], other[n]}
<1>1. \A n \in Nodes : vc[n] \in Nat /\ other[n] \in Nat
  BY DEF VectorClock
<1> QED BY <1>1 DEF Merge, VectorClock, AtMost

\* An incremented clock is after the clock, by one counter.
LEMMA IncrementProps ==
    ASSUME NEW vc \in VectorClock, NEW n \in Nodes
    PROVE  /\ Increment(vc, n) \in VectorClock
           /\ Less(vc, Increment(vc, n))
           /\ Increment(vc, n)[n] = vc[n] + 1
           /\ \A m \in Nodes \ {n} : Increment(vc, n)[m] = vc[m]
<1>1. \A m \in Nodes : vc[m] \in Nat
  BY DEF VectorClock
<1>2. vc = [m \in Nodes |-> vc[m]]
  BY DEF VectorClock
<1> QED BY <1>1, <1>2 DEF Increment, VectorClock, AtMost, Less

-----------------------------------------------------------------------------
(***************************************************************************)
(* The inductive invariant                                                 *)
(***************************************************************************)

Clk(i) == versions[i].VectorClock

\* Every count in a version's clock is the write of some version: of the version
\* itself or of one that it was made from.
CountsAreWrites ==
    \A j \in DOMAIN versions, n \in Nodes : \A c \in 1 .. Clk(j)[n] :
        \E k \in past[j] \cup {j} : Dot(k) = <<n, c>>

\* A version's clock is above those it was made from, as an order of counters.
PastBelow == \A j \in DOMAIN versions : \A i \in past[j] : Less(Clk(i), Clk(j))

IInv == TypeOK /\ CountsAreWrites /\ PastBelow

\* The clock a writer starts from, and what it has read.
ClockOf(k) == IF k = 0 THEN New ELSE Clk(k)

LEMMA ClockOfType ==
    ASSUME TypeOK, NEW k \in 0 .. Len(versions)
    PROVE  ClockOf(k) \in VectorClock
<1>1. New \in VectorClock
  BY DEF New, VectorClock
<1>2. ASSUME k # 0 PROVE Clk(k) \in VectorClock
  <2>1. k \in 1 .. Len(versions)
    BY <1>2
  <2>2. versions[k] \in VersionedValue
    BY <2>1 DEF TypeOK
  <2> QED BY <2>2 DEF VersionedValue, Clk
<1> QED BY <1>1, <1>2 DEF ClockOf

LEMMA ClkType ==
    ASSUME TypeOK, NEW i \in DOMAIN versions
    PROVE  /\ Clk(i) \in VectorClock
           /\ versions[i].NodeID \in Nodes
           /\ versions[i].Timestamp \in Nat
           /\ past[i] \subseteq 1 .. i - 1
           /\ past[i] \subseteq DOMAIN versions
<1>1. versions[i] \in VersionedValue
  BY DEF TypeOK
<1>2. i \in DOMAIN past /\ i \in 1 .. Len(versions) /\ Len(versions) \in Nat
  BY DEF TypeOK
<1>3. past[i] \subseteq 1 .. i - 1
  BY <1>2 DEF TypeOK
<1>4. 1 .. i - 1 \subseteq 1 .. Len(versions)
  BY <1>2
<1>5. DOMAIN versions = 1 .. Len(versions)
  BY DEF TypeOK
<1> QED BY <1>1, <1>3, <1>4, <1>5 DEF VersionedValue, Clk

LEMMA InitHolds == Init => IInv
<1> SUFFICES ASSUME Init PROVE IInv
  OBVIOUS
<1>1. versions = <<>> /\ past = <<>>
  BY DEF Init
<1>2. DOMAIN versions = {} /\ DOMAIN past = {}
  BY <1>1
<1>3. versions \in Seq(VersionedValue) /\ past \in Seq(SUBSET Nat) /\ Len(past) = Len(versions)
  BY <1>1
<1> QED BY <1>2, <1>3 DEF IInv, TypeOK, CountsAreWrites, PastBelow

\* What a step does: one version is added, from versions that were there.
LEMMA WriteStep ==
    ASSUME IInv,
           NEW n \in Nodes, NEW i \in 0 .. Len(versions), NEW j \in 0 .. i, NEW ts \in Nat,
           Write(n, i, j, ts)
    PROVE  IInv'
<1> PICK N : N = Len(versions) + 1
  OBVIOUS
<1> DEFINE merged == Merge(ClockOf(i), ClockOf(j))
           clk == Increment(merged, n)
           new == [VectorClock |-> clk, Timestamp |-> ts, NodeID |-> n]
           Read == {i, j} \ {0}
           known == Read \cup UNION {past[k] : k \in Read}
<1>0. TypeOK /\ CountsAreWrites /\ PastBelow
  BY DEF IInv
<1>1. versions' = Append(versions, new) /\ past' = Append(past, known)
  BY DEF Write, ClockOf, Clk
<1>2. /\ Len(versions) \in Nat /\ versions \in Seq(VersionedValue)
      /\ past \in Seq(SUBSET Nat) /\ Len(past) = Len(versions)
      /\ DOMAIN versions = 1 .. Len(versions) /\ DOMAIN past = 1 .. Len(versions)
  BY <1>0 DEF TypeOK
<1>3. i \in 0 .. Len(versions) /\ j \in 0 .. Len(versions) /\ Read \subseteq DOMAIN versions
  BY <1>2
<1>4. /\ ClockOf(i) \in VectorClock /\ ClockOf(j) \in VectorClock
      /\ merged \in VectorClock /\ clk \in VectorClock
  BY <1>0, <1>3, ClockOfType, MergeProps, IncrementProps
<1>5. new \in VersionedValue
  BY <1>4 DEF VersionedValue
<1>6. known \in SUBSET DOMAIN versions
  BY <1>0, <1>3, ClkType
<1>7. /\ versions' \in Seq(VersionedValue) /\ past' \in Seq(SUBSET Nat)
      /\ Len(versions') = N /\ Len(past') = N
      /\ DOMAIN versions' = 1 .. N /\ DOMAIN past' = 1 .. N
  <2>1. known \in SUBSET Nat
    BY <1>2, <1>6
  <2> HIDE DEF new, known
  <2> QED BY <1>1, <1>2, <1>5, <2>1
<1>8. /\ versions'[N] = new /\ past'[N] = known
      /\ \A k \in DOMAIN versions : versions'[k] = versions[k] /\ past'[k] = past[k]
  <2> HIDE DEF new, known
  <2> QED BY <1>1, <1>2
<1>9. /\ N \in DOMAIN versions' /\ N \notin DOMAIN versions
      /\ \A k \in DOMAIN versions' : k \in DOMAIN versions \/ k = N
      /\ DOMAIN versions \subseteq DOMAIN versions'
  BY <1>2, <1>7
<1>10. /\ Clk(N)' = clk
       /\ \A k \in DOMAIN versions : Clk(k)' = Clk(k) /\ Dot(k)' = Dot(k)
       /\ Dot(N)' = <<n, clk[n]>>
  BY <1>8 DEF Clk, Dot
<1> HIDE DEF clk, merged, new, known
<1>11. /\ AtMost(ClockOf(i), merged) /\ AtMost(ClockOf(j), merged) /\ Less(merged, clk)
       /\ clk[n] = merged[n] + 1 /\ \A m \in Nodes \ {n} : clk[m] = merged[m]
       /\ \A m \in Nodes : merged[m] \in {ClockOf(i)[m], ClockOf(j)[m]}
  BY <1>4, MergeProps, IncrementProps DEF merged, clk
<1>12. \A m \in Nodes : merged[m] \in Nat /\ clk[m] \in Nat
  BY <1>4 DEF VectorClock
<1>13. TypeOK'
  <2>1. ASSUME NEW k \in DOMAIN past' PROVE past'[k] \subseteq 1 .. k - 1
    <3>1. CASE k \in DOMAIN versions
      BY <1>0, <1>8, <3>1, ClkType
    <3>2. CASE k = N
      BY <1>2, <1>6, <1>8, <3>2
    <3> QED BY <1>7, <1>9, <3>1, <3>2
  <2>2. clk[n] > 0
    BY <1>11, <1>12
  <2>3. ASSUME NEW k \in DOMAIN versions'
        PROVE  versions'[k].VectorClock[versions'[k].NodeID] > 0
    <3>1. CASE k \in DOMAIN versions
      BY <1>0, <1>8, <3>1 DEF TypeOK
    <3>2. CASE k = N
      BY <1>8, <2>2, <3>2 DEF new
    <3> QED BY <1>9, <3>1, <3>2
  <2> QED BY <1>7, <2>1, <2>3 DEF TypeOK
<1>14. PastBelow'
  <2>1. ASSUME NEW k \in Read PROVE Less(Clk(k), clk)
    <3>1. k \in DOMAIN versions /\ Clk(k) = ClockOf(k) /\ k \in {i, j}
      BY <1>2, <1>3 DEF ClockOf
    <3>2. AtMost(Clk(k), merged) /\ Clk(k) \in VectorClock
      BY <1>4, <1>11, <3>1
    <3> QED BY <1>4, <1>11, <3>2, LessIsStrict
  <2>2. ASSUME NEW k \in known PROVE Less(Clk(k), clk) /\ k \in DOMAIN versions
    <3>1. CASE k \in Read
      BY <1>3, <2>1, <3>1
    <3>2. CASE k \notin Read
      <4>1. PICK r \in Read : k \in past[r]
        BY <3>2 DEF known
      <4>2. r \in DOMAIN versions /\ k \in DOMAIN versions
        BY <1>0, <1>3, <4>1, ClkType
      <4>3. Less(Clk(k), Clk(r)) /\ Less(Clk(r), clk)
        BY <1>0, <2>1, <4>1, <4>2 DEF PastBelow
      <4>4. Clk(k) \in VectorClock /\ Clk(r) \in VectorClock
        BY <1>0, <4>2, ClkType
      <4> QED BY <1>4, <4>2, <4>3, <4>4, LessIsStrict DEF Less
    <3> QED BY <3>1, <3>2
  <2>3. ASSUME NEW m \in DOMAIN versions', NEW k \in past'[m] PROVE Less(Clk(k)', Clk(m)')
    <3>1. CASE m \in DOMAIN versions
      <4>1. k \in past[m] /\ k \in DOMAIN versions
        BY <1>0, <1>8, <3>1, ClkType
      <4> QED BY <1>0, <1>10, <3>1, <4>1 DEF PastBelow
    <3>2. CASE m = N
      BY <1>8, <1>10, <2>2, <3>2
    <3> QED BY <1>9, <3>1, <3>2
  <2> QED BY <2>3 DEF PastBelow, Less, AtMost
<1>15. CountsAreWrites'
  <2>1. ASSUME NEW r \in {i, j}, NEW m \in Nodes, NEW c \in 1 .. ClockOf(r)[m]
        PROVE  \E k \in known : k \in DOMAIN versions /\ Dot(k) = <<m, c>>
    <3>1. r # 0
      BY DEF ClockOf, New
    <3>2. r \in Read /\ r \in DOMAIN versions /\ ClockOf(r) = Clk(r)
      BY <1>3, <3>1 DEF ClockOf
    <3>3. PICK k \in past[r] \cup {r} : Dot(k) = <<m, c>>
      BY <1>0, <3>2 DEF CountsAreWrites
    <3>4. k \in known
      BY <3>2, <3>3 DEF known
    <3> QED BY <1>6, <3>3, <3>4
  <2>2. ASSUME NEW m \in Nodes, NEW c \in 1 .. merged[m]
        PROVE  \E k \in known : k \in DOMAIN versions /\ Dot(k) = <<m, c>>
    BY <1>11, <2>1
  <2>3. ASSUME NEW m \in Nodes, NEW c \in 1 .. clk[m]
        PROVE  \E k \in known \cup {N} : Dot(k)' = <<m, c>>
    <3>1. CASE m = n /\ c = clk[n]
      BY <1>10, <3>1
    <3>2. CASE ~(m = n /\ c = clk[n])
      <4>1. c \in 1 .. merged[m]
        BY <1>11, <1>12, <3>2
      <4> QED BY <1>10, <2>2, <4>1
    <3> QED BY <3>1, <3>2
  <2>4. ASSUME NEW l \in DOMAIN versions', NEW m \in Nodes, NEW c \in 1 .. Clk(l)'[m]
        PROVE  \E k \in past'[l] \cup {l} : Dot(k)' = <<m, c>>
    <3>1. CASE l \in DOMAIN versions
      <4>1. PICK k \in past[l] \cup {l} : Dot(k) = <<m, c>>
        BY <1>0, <1>10, <3>1 DEF CountsAreWrites
      <4>2. k \in DOMAIN versions /\ k \in past'[l] \cup {l}
        BY <1>0, <1>8, <3>1, <4>1, ClkType
      <4> QED BY <1>10, <4>1, <4>2
    <3>2. CASE l = N
      BY <1>8, <1>10, <2>3, <3>2
    <3> QED BY <1>9, <3>1, <3>2
  <2> QED BY <2>4 DEF CountsAreWrites
<1> QED BY <1>13, <1>14, <1>15 DEF IInv

LEMMA NextHolds == IInv /\ [Next]_vars => IInv'
<1> SUFFICES ASSUME IInv, [Next]_vars PROVE IInv'
  OBVIOUS
<1>1. CASE Next
  <2>1. PICK n \in Nodes, i \in 0 .. Len(versions), ts \in 1 .. MaxTime :
            \E j \in 0 .. i : Write(n, i, j, ts)
    BY <1>1 DEF Next
  <2>2. ts \in Nat
    BY <2>1, VersionBounds
  <2> QED BY <2>1, <2>2, WriteStep
<1>2. CASE UNCHANGED vars
  BY <1>2 DEF vars, IInv, TypeOK, CountsAreWrites, PastBelow, Clk, Dot, Less,
              AtMost
<1> QED BY <1>1, <1>2

\* Whatever the versions are made from, the invariant holds of them.
THEOREM VersionInvariance == Spec => []IInv
BY InitHolds, NextHolds, PTL DEF Spec

-----------------------------------------------------------------------------
(***************************************************************************)
(* What the invariant says of clocks                                       *)
(***************************************************************************)

LEMMA OrderingIsLess ==
    ASSUME TypeOK, NEW i \in DOMAIN versions, NEW j \in DOMAIN versions
    PROVE  /\ Ordering(i, j) \in {"Equal", "Before", "After", "Concurrent"}
           /\ Ordering(i, j) = "Before" <=> Less(Clk(i), Clk(j))
           /\ Ordering(i, j) = "After" <=> Less(Clk(j), Clk(i))
BY ClkType, CompareIsOrder DEF Ordering, Clk

LEMMA DescendantsLemma == IInv => DescendantsAfter
<1> SUFFICES ASSUME IInv, NEW j \in DOMAIN past, NEW i \in past[j]
             PROVE  Ordering(i, j) = "Before"
  BY DEF DescendantsAfter
<1>1. TypeOK /\ j \in DOMAIN versions
  BY DEF IInv, TypeOK
<1>2. i \in DOMAIN versions
  BY <1>1, ClkType
<1> QED BY <1>1, <1>2, OrderingIsLess DEF IInv, PastBelow

\* A version below another is one that it was made from, or shares its dot with one.
LEMMA OnlyDescendantsLemma == IInv => OnlyDescendantsAfter
<1> SUFFICES ASSUME IInv, NEW i \in DOMAIN versions, NEW j \in DOMAIN versions,
                    Ordering(i, j) = "Before"
             PROVE  i \in past[j] \/ Reused(i)
  BY DEF OnlyDescendantsAfter
<1> DEFINE n == versions[i].NodeID
           c == Clk(i)[n]
<1>0. TypeOK /\ CountsAreWrites
  BY DEF IInv
<1>1. Less(Clk(i), Clk(j)) /\ n \in Nodes /\ Clk(i) \in VectorClock /\ Clk(j) \in VectorClock
  BY <1>0, OrderingIsLess, ClkType
<1>2. c \in Nat /\ c > 0 /\ c <= Clk(j)[n] /\ Clk(j)[n] \in Nat
  <2>1. c > 0
    BY <1>0 DEF TypeOK, Clk
  <2> QED BY <1>1, <2>1 DEF Less, AtMost, VectorClock
<1>3. PICK k \in past[j] \cup {j} : Dot(k) = <<n, c>>
  BY <1>0, <1>1, <1>2 DEF CountsAreWrites
<1>4. Dot(k) = Dot(i)
  BY <1>3 DEF Dot, Clk
<1>5. k \in DOMAIN versions
  BY <1>0, <1>3, ClkType
<1>6. CASE k = i
  <2>1. i # j
    BY <1>1, LessIsStrict
  <2> QED BY <1>3, <1>6, <2>1
<1>7. CASE k # i
  BY <1>4, <1>5, <1>7 DEF Reused
<1> QED BY <1>6, <1>7

\* Every variable has its type (NewVersionedValue, Increment and Merge make clocks of
\* the nodes), a version is made from earlier ones and counts its own write.
THEOREM VersionTypes == Spec => []TypeOK
BY VersionInvariance, PTL DEF IInv

\* Compare puts a version after all the versions it was made from, through any number
\* of Merges and Increments.
THEOREM MadeFromIsBefore == Spec => []DescendantsAfter
<1>1. IInv => DescendantsAfter
  BY DescendantsLemma
<1> QED BY <1>1, VersionInvariance, PTL

\* Compare orders two versions only if one was made from the other, unless a node
\* gave the same counter to two of its writes.
THEOREM BeforeIsMadeFrom == Spec => []OnlyDescendantsAfter
<1>1. IInv => OnlyDescendantsAfter
  BY OnlyDescendantsLemma
<1> QED BY <1>1, VersionInvariance, PTL
-----------------------------------------------------------------------------
(***************************************************************************)
(* Detect                                                                  *)
(***************************************************************************)

\* Every answer is a head or is before one.
LEMMA BelowHead ==
    ASSUME TypeOK, NEW k \in Nat, NEW list \in [1 .. k -> DOMAIN versions], NEW p \in 1 .. k,
           p \notin heads(list)
    PROVE  \E q \in heads(list) : Ordering(list[p], list[q]) = "Before"
<1> DEFINE S == {q \in 1 .. k : Less(Clk(list[p]), Clk(list[q]))}
           R == {z \in (1 .. k) \X (1 .. k) : Less(Clk(list[z[1]]), Clk(list[z[2]]))}
<1>1. \A x \in 1 .. k : list[x] \in DOMAIN versions /\ Clk(list[x]) \in VectorClock
  BY ClkType
<1>2. \A x, y \in 1 .. k : Ordering(list[x], list[y]) = "Before" <=> Less(Clk(list[x]), Clk(list[y]))
  BY <1>1, OrderingIsLess
<1>3. \A x, y \in 1 .. k : <<x, y>> \in R <=> Less(Clk(list[x]), Clk(list[y]))
  OBVIOUS
<1>4. DOMAIN list = 1 .. k
  OBVIOUS
<1>5. PICK q \in 1 .. k : Ordering(list[p], list[q]) = "Before"
  BY <1>4 DEF heads
<1>6. q \in S
  BY <1>2, <1>5
<1>7. IsFiniteSet(S)
  <2>1. S \in SUBSET (1 .. k) /\ IsFiniteSet(1 .. k)
    BY FS_Interval
  <2> HIDE DEF S
  <2> QED BY <2>1, FS_Subset
<1>8. \A x \in 1 .. k : ~Less(Clk(list[x]), Clk(list[x]))
  BY <1>1, LessIsStrict
<1>9. \A x, y, z \in 1 .. k :
          Less(Clk(list[x]), Clk(list[y])) /\ Less(Clk(list[y]), Clk(list[z]))
          => Less(Clk(list[x]), Clk(list[z]))
  <2> SUFFICES ASSUME NEW x \in 1 .. k, NEW y \in 1 .. k, NEW z \in 1 .. k,
                      Less(Clk(list[x]), Clk(list[y])), Less(Clk(list[y]), Clk(list[z]))
               PROVE  Less(Clk(list[x]), Clk(list[z]))
    OBVIOUS
  <2>1. AtMost(Clk(list[x]), Clk(list[y]))
    BY DEF Less
  <2> QED BY <1>1, <2>1, LessIsStrict
<1>10. S \subseteq 1 .. k
  OBVIOUS
<1>11. PICK m \in S : \A x \in S : <<m, x>> \notin R
  <2>1. \A x \in S : <<x, x>> \notin R
    BY <1>3, <1>8, <1>10
  <2>2. \A x, y, z \in S : <<x, y>> \in R /\ <<y, z>> \in R => <<x, z>> \in R
    BY <1>3, <1>9, <1>10
  <2>3. S # {}
    BY <1>6
  <2> HIDE DEF S, R
  <2> QED BY <1>7, <2>1, <2>2, <2>3, MaximalExists
<1>12. m \in 1 .. k /\ Less(Clk(list[p]), Clk(list[m]))
  BY <1>11
<1>13. ASSUME NEW x \in 1 .. k, Less(Clk(list[m]), Clk(list[x])) PROVE FALSE
  <2>1. Less(Clk(list[p]), Clk(list[x]))
    BY <1>9, <1>12, <1>13
  <2>2. x \in S
    BY <2>1
  <2> QED BY <1>3, <1>11, <1>12, <1>13, <2>2
<1>14. m \in heads(list)
  <2>1. ASSUME NEW x \in DOMAIN list \ {m} PROVE Ordering(list[m], list[x]) # "Before"
    BY <1>2, <1>4, <1>12, <1>13
  <2> QED BY <1>4, <1>12, <2>1 DEF heads
<1> QED BY <1>2, <1>12, <1>14

\* Some answer is a head, and lwwResolve's choice is one of them.
LEMMA WinnerIsHead ==
    ASSUME TypeOK, NEW k \in Nat \ {0}, NEW list \in [1 .. k -> DOMAIN versions]
    PROVE  lwwResolve(list, heads(list)) \in heads(list)
<1> DEFINE H == heads(list)
           TS(p) == versions[list[p]].Timestamp
           R == {z \in H \X H : TS(z[1]) < TS(z[2]) \/ (TS(z[1]) = TS(z[2]) /\ z[2] < z[1])}
<1>1. H \subseteq 1 .. k /\ IsFiniteSet(H)
  <2>1. H \in SUBSET (1 .. k) /\ IsFiniteSet(1 .. k)
    BY FS_Interval DEF heads
  <2> HIDE DEF H
  <2> QED BY <2>1, FS_Subset
<1>2. H # {}
  <2>1. 1 \in 1 .. k
    OBVIOUS
  <2> QED BY <2>1, BelowHead
<1>3. \A x \in H : x \in Nat /\ TS(x) \in Nat
  BY <1>1, ClkType
<1> HIDE DEF H, TS
<1>4. \A x \in H : <<x, x>> \notin R
  BY <1>3
<1>5. \A x, y, z \in H : <<x, y>> \in R /\ <<y, z>> \in R => <<x, z>> \in R
  BY <1>3
<1>6. PICK m \in H : \A x \in H : <<m, x>> \notin R
  <2> HIDE DEF R
  <2> QED BY <1>1, <1>2, <1>4, <1>5, MaximalExists
<1>7. \A q \in H : TS(q) <= TS(m) /\ (TS(q) = TS(m) => m <= q)
  <2> SUFFICES ASSUME NEW q \in H PROVE TS(q) <= TS(m) /\ (TS(q) = TS(m) => m <= q)
    OBVIOUS
  <2>1. ~(TS(m) < TS(q) \/ (TS(m) = TS(q) /\ q < m))
    BY <1>6
  <2> QED BY <1>3, <2>1
<1>8. lwwResolve(list, H) = CHOOSE p \in H : \A q \in H : TS(q) <= TS(p) /\ (TS(q) = TS(p) => p <= q)
  BY DEF lwwResolve, TS
<1> QED BY <1>7, <1>8 DEF H

\* Detect keeps the heads, and they are the answers that no other answer is after.
LEMMA DetectLemma == IInv => DetectKeepsEveryWrite
<1> SUFFICES ASSUME IInv, NEW list \in Answers
             PROVE  LET d == Detect(list)
                        kept == {d.winner} \cup d.siblings
                    IN /\ \A p \in DOMAIN list \ kept :
                             Reused(list[p]) \/ \E q \in kept : list[p] \in past[list[q]]
                       /\ \A p, q \in kept : Ordering(list[p], list[q]) \notin {"Before", "After"}
                       /\ \A p, q \in DOMAIN list :
                             list[p] = list[q] => (p \in kept <=> q \in kept)
  BY DEF DetectKeepsEveryWrite
<1> DEFINE kept == {Detect(list).winner} \cup Detect(list).siblings
<1>0. TypeOK /\ OnlyDescendantsAfter
  BY OnlyDescendantsLemma DEF IInv
<1>1. PICK k \in 1 .. MaxAnswers : list \in [1 .. k -> DOMAIN versions]
  BY DEF Answers
<1>2. k \in Nat \ {0}
  BY <1>1, VersionBounds
<1>3. lwwResolve(list, heads(list)) \in heads(list)
  BY <1>0, <1>1, <1>2, WinnerIsHead
<1>4. kept = heads(list)
  BY <1>3 DEF Detect
<1>5. DOMAIN list = 1 .. k /\ heads(list) \subseteq 1 .. k /\ \A p \in 1 .. k : list[p] \in DOMAIN versions
  BY <1>1 DEF heads
<1>6. ASSUME NEW p \in DOMAIN list \ heads(list)
      PROVE  Reused(list[p]) \/ \E q \in heads(list) : list[p] \in past[list[q]]
  <2>1. PICK q \in heads(list) : Ordering(list[p], list[q]) = "Before"
    BY <1>0, <1>1, <1>2, <1>5, BelowHead
  <2> QED BY <1>0, <1>5, <2>1 DEF OnlyDescendantsAfter
<1>7. ASSUME NEW p \in heads(list), NEW q \in heads(list)
      PROVE  Ordering(list[p], list[q]) \notin {"Before", "After"}
  <2>1. p \in 1 .. k /\ q \in 1 .. k /\ list[p] \in DOMAIN versions /\ list[q] \in DOMAIN versions
    BY <1>5
  <2>2. CASE p = q
    <3>1. ~Less(Clk(list[p]), Clk(list[p]))
      BY <1>0, <2>1, ClkType, LessIsStrict
    <3> QED BY <1>0, <2>1, <2>2, <3>1, OrderingIsLess
  <2>3. CASE p # q
    <3>1. Ordering(list[p], list[q]) # "Before" /\ Ordering(list[q], list[p]) # "Before"
      BY <1>5, <2>1, <2>3 DEF heads
    <3> QED BY <1>0, <2>1, <3>1, OrderingIsLess
  <2> QED BY <2>2, <2>3
<1>8. ASSUME NEW p \in heads(list), NEW q \in DOMAIN list, list[p] = list[q]
      PROVE  q \in heads(list)
  <2>1. ~Less(Clk(list[p]), Clk(list[p])) /\ p \in DOMAIN list
    BY <1>0, <1>5, ClkType, LessIsStrict
  <2>2. Ordering(list[p], list[p]) # "Before"
    BY <1>0, <1>5, <2>1, OrderingIsLess
  <2>3. ASSUME NEW x \in DOMAIN list \ {q} PROVE Ordering(list[q], list[x]) # "Before"
    BY <1>8, <2>2 DEF heads
  <2> QED BY <2>3 DEF heads
<1> HIDE DEF kept
<1>9. /\ \A p \in DOMAIN list \ kept :
           Reused(list[p]) \/ \E q \in kept : list[p] \in past[list[q]]
      /\ \A p, q \in kept : Ordering(list[p], list[q]) \notin {"Before", "After"}
      /\ \A p, q \in DOMAIN list : list[p] = list[q] => (p \in kept <=> q \in kept)
  BY <1>4, <1>6, <1>7, <1>8
<1> QED BY <1>9 DEF kept

\* Detect drops an answer only if one it keeps was made from it (or a counter was
\* reused), returns no two answers of which one is after the other, and treats the
\* copies of one version alike, for lists of any length and whatever the timestamps are.
THEOREM DetectLosesNothing == Spec => []DetectKeepsEveryWrite
<1>1. IInv => DetectKeepsEveryWrite
  BY DetectLemma
<1> QED BY <1>1, VersionInvariance, PTL
=============================================================================
