----------------------------- MODULE RingProofs -----------------------------
(***************************************************************************)
(* Proofs about Ring: its three parts stay in step, the channel tells the  *)
(* members as long as nothing is dropped, and lookups return the nearest   *)
(* members, for any cluster, any placement of the virtual nodes in which   *)
(* every node has a position of its own, and any order of events.          *)
(***************************************************************************)
EXTENDS Ring, OrderFacts, SequenceTheorems

-----------------------------------------------------------------------------
(***************************************************************************)
(* Lists                                                                   *)
(***************************************************************************)

\* The k-th smallest number of a finite set exists, and grows with k.
LEMMA NthProps ==
    ASSUME NEW S \in SUBSET Int, IsFiniteSet(S)
    PROVE  /\ \A k \in 1 .. Cardinality(S) : Nth(S, k) \in S
           /\ \A k, l \in 1 .. Cardinality(S) : k < l => Nth(S, k) < Nth(S, l)
           /\ \A i \in S : \E k \in 1 .. Cardinality(S) : Nth(S, k) = i
<1> DEFINE R == {z \in S \X S : z[1] <= z[2]}
           rank(i) == Cardinality({j \in S : j <= i})
<1>1. TotalOrder(R, S)
  BY DEF TotalOrder
<1>2. ASSUME NEW i \in S PROVE RankIn(R, S, i) = rank(i)
  <2>1. {j \in S : <<j, i>> \in R} = {j \in S : j <= i}
    OBVIOUS
  <2> QED BY <2>1 DEF RankIn
<1>3. \A i, j \in S : i <= j => <<i, j>> \in R
  OBVIOUS
<1>4. Cardinality(S) \in Nat
  BY FS_CardinalityType
<1> HIDE DEF R, rank
<1>5. ASSUME NEW i \in S PROVE rank(i) \in 1 .. Cardinality(S) /\ rank(i) \in Nat
  <2>1. RankIn(R, S, i) \in 1 .. Cardinality(S)
    BY <1>1, RankGrows
  <2> QED BY <1>2, <1>4, <2>1
<1>6. ASSUME NEW i \in S, NEW j \in S, i <= j, i # j PROVE rank(i) < rank(j)
  BY <1>1, <1>2, <1>3, <1>6, RankGrows
<1>7. ASSUME NEW k \in 1 .. Cardinality(S) PROVE Nth(S, k) \in S /\ rank(Nth(S, k)) = k
  <2>1. PICK i \in S : RankIn(R, S, i) = k
    <3>1. PICK T : T = S
      OBVIOUS
    <3>2. IsFiniteSet(T) /\ TotalOrder(R, T) /\ k \in 1 .. Cardinality(T)
      BY <1>1, <3>1
    <3>3. \E i \in T : RankIn(R, T, i) = k
      BY <3>2, RankHits
    <3> QED BY <3>1, <3>3
  <2>2. rank(i) = k
    BY <1>2, <2>1
  <2> QED BY <2>2 DEF Nth, rank
<1>8. ASSUME NEW k \in 1 .. Cardinality(S), NEW l \in 1 .. Cardinality(S), k < l
      PROVE  Nth(S, k) < Nth(S, l)
  <2>1. PICK a \in S, b \in S : a = Nth(S, k) /\ b = Nth(S, l) /\ rank(a) = k /\ rank(b) = l
    BY <1>7
  <2>2. a \in Int /\ b \in Int
    OBVIOUS
  <2>3. k \in Nat /\ l \in Nat
    BY <1>4
  <2>4. ~(b <= a)
    <3>1. b <= a /\ b # a => rank(b) < rank(a)
      BY <1>6
    <3>2. a # b
      BY <1>8, <2>1, <2>3
    <3> QED BY <1>8, <2>1, <2>3, <3>1, <3>2
  <2>5. a < b
    BY <2>2, <2>4
  <2> QED BY <2>1, <2>5
<1>9. ASSUME NEW i \in S PROVE \E k \in 1 .. Cardinality(S) : Nth(S, k) = i
  <2>1. PICK k \in 1 .. Cardinality(S) : k = rank(i)
    BY <1>5
  <2>2. PICK a \in S : a = Nth(S, k) /\ rank(a) = k
    BY <1>7
  <2>3. a \in Int /\ i \in Int /\ rank(a) = rank(i) /\ rank(a) \in Nat
    BY <1>5, <2>1, <2>2
  <2>4. ~(a <= i /\ a # i) /\ ~(i <= a /\ i # a)
    BY <1>6, <2>3
  <2>5. a = i
    BY <2>3, <2>4
  <2> QED BY <2>2, <2>5
<1> QED BY <1>7, <1>8, <1>9

Ascending(s) == \A i, j \in DOMAIN s : i < j => s[i] <= s[j]

\* Sorted(s) is s in ascending order.
LEMMA SortedProps ==
    ASSUME NEW s \in Seq(Position)
    PROVE  /\ Sorted(s) \in Seq(Position)
           /\ Elements(Sorted(s)) = Elements(s)
           /\ Ascending(Sorted(s))
<1> DEFINE D == DOMAIN s
           R == {z \in D \X D : s[z[1]] < s[z[2]] \/ (s[z[1]] = s[z[2]] /\ z[1] <= z[2])}
           at(r) == CHOOSE i \in D : Rank(s, i) = r
           n == Len(s)
<1>1. D = 1 .. n /\ n \in Nat /\ \A i \in D : s[i] \in Position /\ s[i] \in Int
  BY CircleAssumption DEF Position
<1>2. IsFiniteSet(D) /\ Cardinality(D) = n
  <2> HIDE DEF D, n
  <2>1. IsFiniteSet(1 .. n) /\ Cardinality(1 .. n) = IF 1 > n THEN 0 ELSE n - 1 + 1
    BY <1>1, FS_Interval
  <2> QED BY <1>1, <2>1
<1>3. \A i, j \in D : <<i, j>> \in R <=> (s[i] < s[j] \/ (s[i] = s[j] /\ i <= j))
  OBVIOUS
<1>4. TotalOrder(R, D)
  <2>1. \A i \in D : i \in Int /\ s[i] \in Int
    BY <1>1
  <2> HIDE DEF D, R
  <2> QED BY <1>3, <2>1 DEF TotalOrder
<1>5. ASSUME NEW i \in D PROVE RankIn(R, D, i) = Rank(s, i)
  <2>1. {j \in D : <<j, i>> \in R} = {j \in DOMAIN s : s[j] < s[i] \/ (s[j] = s[i] /\ j <= i)}
    BY <1>3
  <2> QED BY <2>1 DEF RankIn, Rank
<1>6. \A r \in D : \E i \in D : Rank(s, i) = r
  <2> HIDE DEF D, R, n
  <2> QED BY <1>1, <1>2, <1>4, <1>5, RankHits
<1>7. ASSUME NEW r \in D PROVE at(r) \in D /\ Rank(s, at(r)) = r
  BY <1>6
<1>8. Sorted(s) = [r \in D |-> s[at(r)]]
  BY DEF Sorted
<1>9. \A i \in D : Rank(s, i) \in D
  <2> HIDE DEF D, R, n
  <2> QED BY <1>1, <1>2, <1>4, <1>5, RankGrows
<1>10. \A i, j \in D : <<i, j>> \in R /\ i # j => Rank(s, i) < Rank(s, j)
  <2> HIDE DEF D, R
  <2> QED BY <1>2, <1>4, <1>5, RankGrows
<1> HIDE DEF at
<1>11. Sorted(s) \in Seq(Position) /\ DOMAIN Sorted(s) = D
  <2>1. Sorted(s) \in [1 .. n -> Position]
    BY <1>1, <1>7, <1>8
  <2> HIDE DEF D, n
  <2> QED BY <1>1, <1>8, <2>1, SeqDef
<1>12. \A r \in D : Sorted(s)[r] = s[at(r)]
  BY <1>8
<1>13. ASSUME NEW q \in D, NEW r \in D, q < r PROVE Sorted(s)[q] <= Sorted(s)[r]
  <2>1. PICK i \in D, j \in D : i = at(q) /\ j = at(r) /\ Rank(s, i) = q /\ Rank(s, j) = r
    BY <1>7
  <2>2. q \in Int /\ r \in Int /\ s[i] \in Int /\ s[j] \in Int /\ i \in Int /\ j \in Int
    BY <1>1
  <2>3. i # j
    BY <1>13, <2>1, <2>2
  <2>4. ~(<<j, i>> \in R)
    <3> HIDE DEF R, D
    <3>1. <<j, i>> \in R => r < q
      BY <1>10, <2>1, <2>3
    <3> QED BY <1>13, <2>2, <3>1
  <2>5. ~(s[j] < s[i])
    <3> HIDE DEF R
    <3> QED BY <1>3, <2>4
  <2>6. s[i] <= s[j]
    BY <2>2, <2>5
  <2> QED BY <1>12, <2>1, <2>6
<1>14. Elements(Sorted(s)) \subseteq Elements(s)
  BY <1>7, <1>11, <1>12 DEF Elements
<1>15. ASSUME NEW i \in D PROVE \E r \in D : Sorted(s)[r] = s[i]
  <2>1. PICK r \in D : r = Rank(s, i)
    BY <1>9
  <2>2. PICK j \in D : j = at(r) /\ Rank(s, j) = r
    BY <1>7
  <2>3. i = j
    <3> HIDE DEF R, D
    <3>1. <<i, j>> \in R \/ <<j, i>> \in R
      BY <1>4 DEF TotalOrder
    <3>2. r \in Int
      BY <1>1
    <3>3. ~(r < r)
      BY <3>2
    <3> QED BY <1>10, <2>1, <2>2, <3>1, <3>3
  <2> QED BY <1>12, <2>2, <2>3
<1>16. Elements(s) \subseteq Elements(Sorted(s))
  BY <1>11, <1>15 DEF Elements
<1>17. Ascending(Sorted(s))
  BY <1>11, <1>13 DEF Ascending
<1> QED BY <1>11, <1>14, <1>16, <1>17

\* Filtered(s, P) is s without P, still in order.
LEMMA FilteredProps ==
    ASSUME NEW s \in Seq(Position), Ascending(s), NEW P
    PROVE  /\ Filtered(s, P) \in Seq(Position)
           /\ Elements(Filtered(s, P)) = Elements(s) \ P
           /\ Ascending(Filtered(s, P))
<1> DEFINE Kept == {i \in DOMAIN s : s[i] \notin P}
           c == Cardinality(Kept)
<1>1. /\ DOMAIN s = 1 .. Len(s) /\ Len(s) \in Nat /\ \A i \in DOMAIN s : s[i] \in Position
  OBVIOUS
<1>2. Kept \in SUBSET Int /\ IsFiniteSet(Kept) /\ c \in Nat
  <2>1. Kept \in SUBSET (1 .. Len(s)) /\ IsFiniteSet(1 .. Len(s))
    BY <1>1, FS_Interval
  <2> HIDE DEF Kept
  <2>2. IsFiniteSet(Kept)
    BY <2>1, FS_Subset
  <2>3. c \in Nat
    BY <2>2, FS_CardinalityType
  <2>4. Kept \in SUBSET Int
    BY <1>1, <2>1
  <2> QED BY <2>2, <2>3, <2>4
<1>3. Filtered(s, P) = [k \in 1 .. c |-> s[Nth(Kept, k)]]
  BY DEF Filtered
<1>4. /\ \A k \in 1 .. c : Nth(Kept, k) \in Kept
      /\ \A k, l \in 1 .. c : k < l => Nth(Kept, k) < Nth(Kept, l)
      /\ \A i \in Kept : \E k \in 1 .. c : Nth(Kept, k) = i
  <2> HIDE DEF Kept
  <2> QED BY <1>2, NthProps
<1>5. \A i \in Kept : i \in DOMAIN s /\ s[i] \notin P /\ s[i] \in Position
  BY <1>1
<1>6. \A i \in DOMAIN s : s[i] \notin P => i \in Kept
  OBVIOUS
<1> HIDE DEF Kept, c
<1>7. Filtered(s, P) \in Seq(Position) /\ DOMAIN Filtered(s, P) = 1 .. c
  <2>1. Filtered(s, P) \in [1 .. c -> Position]
    BY <1>3, <1>4, <1>5
  <2> QED BY <1>2, <1>3, <2>1, SeqDef
<1>8. \A k \in 1 .. c : Filtered(s, P)[k] = s[Nth(Kept, k)]
  BY <1>3
<1>9. Elements(Filtered(s, P)) \subseteq Elements(s) \ P
  BY <1>4, <1>5, <1>7, <1>8 DEF Elements
<1>10. Elements(s) \ P \subseteq Elements(Filtered(s, P))
  BY <1>4, <1>6, <1>7, <1>8 DEF Elements
<1>11. Ascending(Filtered(s, P))
  BY <1>4, <1>5, <1>7, <1>8 DEF Ascending
<1> QED BY <1>7, <1>9, <1>10, <1>11

LEMMA ElementsConcat ==
    ASSUME NEW s \in Seq(Position), NEW t \in Seq(Position)
    PROVE  s \o t \in Seq(Position) /\ Elements(s \o t) = Elements(s) \cup Elements(t)
<1>1. /\ s \o t \in Seq(Position) /\ Len(s \o t) = Len(s) + Len(t)
      /\ \A i \in 1 .. Len(s) + Len(t) : (s \o t)[i] = IF i <= Len(s) THEN s[i] ELSE t[i - Len(s)]
  BY ConcatProperties
<1>2. /\ DOMAIN s = 1 .. Len(s) /\ DOMAIN t = 1 .. Len(t) /\ Len(s) \in Nat /\ Len(t) \in Nat
      /\ DOMAIN (s \o t) = 1 .. Len(s) + Len(t)
  BY <1>1
<1>3. ASSUME NEW i \in 1 .. Len(s) + Len(t) PROVE (s \o t)[i] \in Elements(s) \cup Elements(t)
  <2>1. CASE i <= Len(s)
    <3>1. i \in DOMAIN s /\ (s \o t)[i] = s[i]
      BY <1>1, <1>2, <2>1
    <3> QED BY <3>1 DEF Elements
  <2>2. CASE ~(i <= Len(s))
    <3>1. i - Len(s) \in DOMAIN t /\ (s \o t)[i] = t[i - Len(s)]
      BY <1>1, <1>2, <2>2
    <3> QED BY <3>1 DEF Elements
  <2> QED BY <2>1, <2>2
<1>4. ASSUME NEW i \in DOMAIN s PROVE s[i] \in Elements(s \o t)
  <2>1. i \in DOMAIN (s \o t) /\ (s \o t)[i] = s[i]
    BY <1>1, <1>2
  <2> QED BY <2>1 DEF Elements
<1>5. ASSUME NEW i \in DOMAIN t PROVE t[i] \in Elements(s \o t)
  <2>1. /\ Len(s) + i \in 1 .. Len(s) + Len(t) /\ ~(Len(s) + i <= Len(s))
        /\ (Len(s) + i) - Len(s) = i
    BY <1>2
  <2>2. (s \o t)[Len(s) + i] = t[i]
    BY <1>1, <2>1
  <2> QED BY <1>2, <2>1, <2>2 DEF Elements
<1>6. Elements(s \o t) \subseteq Elements(s) \cup Elements(t)
  BY <1>2, <1>3 DEF Elements
<1>7. Elements(s) \subseteq Elements(s \o t) /\ Elements(t) \subseteq Elements(s \o t)
  BY <1>4, <1>5 DEF Elements
<1> QED BY <1>1, <1>6, <1>7

-----------------------------------------------------------------------------
(***************************************************************************)
(* The parts of the ring                                                   *)
(***************************************************************************)

\* The positions of a node are on the circle, and its list holds no others.
LEMMA PositionsProps ==
    ASSUME NEW m \in Nodes
    PROVE  /\ VirtualNodes[m] \in Seq(Position) /\ Elements(VirtualNodes[m]) = Positions(m)
           /\ Positions(m) \subseteq Position
           /\ Private(m) \subseteq Positions(m) /\ Private(m) # {}
           /\ \A q \in Nodes : q # m => Private(m) \cap Positions(q) = {}
<1>1. VirtualNodes[m] \in Seq(Position)
  BY VirtualAssumption DEF Position
<1>2. Elements(VirtualNodes[m]) = Positions(m)
  BY DEF Elements, Positions
<1>3. Positions(m) \subseteq Position
  BY <1>1 DEF Positions
<1> QED BY <1>1, <1>2, <1>3, PrivateAssumption DEF Private

ListOK == ring \in Seq(Position) /\ Ascending(ring)

PartsOK ==
    /\ DOMAIN owners \subseteq Position /\ \A p \in DOMAIN owners : owners[p] \in Node
    /\ DOMAIN nodes \subseteq Nodes /\ \A m \in DOMAIN nodes : nodes[m] \in Node

\* What holds of the list, the owners and the members, and is kept by AddNode and RemoveNode.
RingOK == ListOK /\ PartsOK /\ RingMatchesMembers

LEMMA AddNodeOK ==
    ASSUME RingOK, NEW m \in Nodes, NEW address \in Addresses, AddNode(m, address),
           alive' = alive \cup {m},
           m \in alive => nodes[m].address = address
    PROVE  RingOK'
<1> DEFINE node == [id |-> m, address |-> address]
<1>n. node \in Node /\ node.id = m
  BY DEF Node
<1>a. /\ nodes' = Mapping(nodes, {m}, node)
      /\ ring' = Sorted(ring \o VirtualNodes[m])
      /\ owners' = Mapping(owners, Positions(m), node)
  BY DEF AddNode
<1>p. /\ VirtualNodes[m] \in Seq(Position) /\ Elements(VirtualNodes[m]) = Positions(m)
      /\ Positions(m) \subseteq Position
  BY PositionsProps
<1>r. /\ ring \in Seq(Position)
      /\ DOMAIN owners \subseteq Position /\ \A p \in DOMAIN owners : owners[p] \in Node
      /\ DOMAIN nodes \subseteq Nodes /\ \A q \in DOMAIN nodes : nodes[q] \in Node
      /\ DOMAIN nodes = alive /\ Elements(ring) = DOMAIN owners
      /\ \A p \in DOMAIN owners : /\ owners[p].id \in alive /\ p \in Positions(owners[p].id)
                                  /\ owners[p] = nodes[owners[p].id]
      /\ \A q \in alive : \A p \in Private(q) : p \in DOMAIN owners /\ owners[p].id = q
  BY DEF RingOK, ListOK, PartsOK, RingMatchesMembers
<1>m. /\ DOMAIN nodes' = alive \cup {m}
      /\ nodes'[m] = node /\ \A q \in alive : q # m => nodes'[q] = nodes[q]
  BY <1>a, <1>r DEF Mapping
<1>o. /\ DOMAIN owners' = DOMAIN owners \cup Positions(m)
      /\ \A p \in Positions(m) : owners'[p] = node
      /\ \A p \in DOMAIN owners : p \notin Positions(m) => owners'[p] = owners[p]
  BY <1>a DEF Mapping
<1> HIDE DEF node
<1>1. ListOK' /\ Elements(ring') = DOMAIN owners \cup Positions(m)
  <2> DEFINE s == ring \o VirtualNodes[m]
  <2>1. s \in Seq(Position) /\ Elements(s) = DOMAIN owners \cup Positions(m)
    BY <1>p, <1>r, ElementsConcat
  <2>2. ring' = Sorted(s)
    BY <1>a
  <2> HIDE DEF s
  <2>3. ring' \in Seq(Position) /\ Elements(ring') = Elements(s) /\ Ascending(ring')
    BY <2>1, <2>2, SortedProps
  <2> QED BY <2>1, <2>3 DEF ListOK
<1>2. PartsOK'
  <2>1. DOMAIN owners' \subseteq Position /\ \A p \in DOMAIN owners' : owners'[p] \in Node
    BY <1>n, <1>o, <1>p, <1>r
  <2>2. DOMAIN nodes' \subseteq Nodes /\ \A q \in DOMAIN nodes' : nodes'[q] \in Node
    BY <1>n, <1>m, <1>r
  <2> QED BY <2>1, <2>2 DEF PartsOK
<1>3. ASSUME NEW p \in DOMAIN owners'
      PROVE  /\ owners'[p].id \in alive' /\ p \in Positions(owners'[p].id)
             /\ owners'[p] = nodes'[owners'[p].id]
  <2>1. CASE p \in Positions(m)
    BY <1>m, <1>n, <1>o, <2>1
  <2>2. CASE p \notin Positions(m)
    <3>1. p \in DOMAIN owners /\ owners'[p] = owners[p] /\ owners[p].id # m
      BY <1>o, <1>r, <2>2
    <3> QED BY <1>m, <1>r, <3>1
  <2> QED BY <2>1, <2>2
<1>4. ASSUME NEW q \in alive', NEW p \in Private(q) PROVE p \in DOMAIN owners' /\ owners'[p].id = q
  <2>1. CASE q = m
    BY <1>n, <1>o, <2>1, PositionsProps
  <2>2. CASE q # m
    <3>1. q \in alive /\ q \in Nodes /\ p \notin Positions(m)
      BY <1>r, <2>2, PositionsProps
    <3> QED BY <1>o, <1>r, <3>1
  <2> QED BY <2>1, <2>2
<1>5. RingMatchesMembers'
  BY <1>1, <1>3, <1>4, <1>m, <1>o DEF RingMatchesMembers, Positions, Private, Elements
<1> QED BY <1>1, <1>2, <1>5 DEF RingOK

LEMMA RemoveNodeOK ==
    ASSUME RingOK, NEW m \in alive, RemoveNode(m), alive' = alive \ {m}
    PROVE  RingOK'
<1>r. /\ ring \in Seq(Position) /\ Ascending(ring)
      /\ DOMAIN owners \subseteq Position /\ \A p \in DOMAIN owners : owners[p] \in Node
      /\ DOMAIN nodes \subseteq Nodes /\ \A q \in DOMAIN nodes : nodes[q] \in Node
      /\ DOMAIN nodes = alive /\ Elements(ring) = DOMAIN owners
      /\ \A p \in DOMAIN owners : /\ owners[p].id \in alive /\ p \in Positions(owners[p].id)
                                  /\ owners[p] = nodes[owners[p].id]
      /\ \A q \in alive : \A p \in Private(q) : p \in DOMAIN owners /\ owners[p].id = q
  BY DEF RingOK, ListOK, PartsOK, RingMatchesMembers
<1>a. /\ ring' = Filtered(ring, Positions(m))
      /\ owners' = Without(owners, Positions(m))
      /\ nodes' = Without(nodes, {m})
  BY <1>r DEF RemoveNode
<1>m. DOMAIN nodes' = alive \ {m} /\ \A q \in alive \ {m} : nodes'[q] = nodes[q]
  BY <1>a, <1>r DEF Without
<1>o. /\ DOMAIN owners' = DOMAIN owners \ Positions(m)
      /\ \A p \in DOMAIN owners \ Positions(m) : owners'[p] = owners[p]
  BY <1>a DEF Without
<1>1. ListOK' /\ Elements(ring') = DOMAIN owners \ Positions(m)
  BY <1>a, <1>r, FilteredProps DEF ListOK
<1>2. PartsOK'
  BY <1>m, <1>o, <1>r DEF PartsOK
<1>3. ASSUME NEW p \in DOMAIN owners'
      PROVE  /\ owners'[p].id \in alive' /\ p \in Positions(owners'[p].id)
             /\ owners'[p] = nodes'[owners'[p].id]
  <2>1. p \in DOMAIN owners /\ owners'[p] = owners[p] /\ owners[p].id # m
    BY <1>o, <1>r
  <2> QED BY <1>m, <1>r, <2>1
<1>4. ASSUME NEW q \in alive', NEW p \in Private(q) PROVE p \in DOMAIN owners' /\ owners'[p].id = q
  <2>1. q \in alive /\ q # m /\ q \in Nodes /\ m \in Nodes
    BY <1>r
  <2>2. p \notin Positions(m)
    BY <2>1, PositionsProps
  <2> QED BY <1>o, <1>r, <2>1, <2>2
<1>5. RingMatchesMembers'
  BY <1>1, <1>3, <1>4, <1>m, <1>o DEF RingMatchesMembers, Positions, Private, Elements
<1> QED BY <1>1, <1>2, <1>5 DEF RingOK

-----------------------------------------------------------------------------
(***************************************************************************)
(* The channel                                                             *)
(***************************************************************************)

Event == {"join", "leave"} \X Nodes

\* A new event decides about its node and about no other.
LEMMA TellsAppend ==
    ASSUME NEW ch \in Seq(Event), NEW t \in {"join", "leave"}, NEW m \in Nodes
    PROVE  /\ TellsJoin(Append(ch, <<t, m>>), m) <=> t = "join"
           /\ \A q \in Nodes : q # m => (TellsJoin(Append(ch, <<t, m>>), q) <=> TellsJoin(ch, q))
<1> DEFINE new == Append(ch, <<t, m>>)
           n == Len(ch)
<1>1. /\ n \in Nat /\ DOMAIN ch = 1 .. n /\ Len(new) = n + 1 /\ DOMAIN new = 1 .. n + 1
      /\ \A i \in 1 .. n : new[i] = ch[i]
      /\ new[n + 1] = <<t, m>>
  <2>1. <<t, m>> \in Event
    BY DEF Event
  <2>2. /\ new \in Seq(Event) /\ Len(new) = n + 1 /\ new[n + 1] = <<t, m>>
        /\ \A i \in 1 .. n : new[i] = ch[i]
    BY <2>1, AppendProperties
  <2> HIDE DEF new
  <2> QED BY <2>2
<1> HIDE DEF new, n
<1>2. new[n + 1][1] = t /\ new[n + 1][2] = m
  BY <1>1
<1>3. TellsJoin(new, m) <=> t = "join"
  <2>1. ASSUME t = "join" PROVE TellsJoin(new, m)
    <3>1. n + 1 \in DOMAIN new /\ (n + 1) + 1 .. Len(new) = {}
      BY <1>1
    <3> QED BY <1>1, <2>1, <3>1 DEF TellsJoin
  <2>2. ASSUME TellsJoin(new, m) PROVE t = "join"
    <3>1. PICK i \in DOMAIN new : /\ new[i] = <<"join", m>>
                                  /\ \A j \in i + 1 .. Len(new) : new[j][2] # m
      BY <2>2 DEF TellsJoin
    <3>2. ~(n + 1 \in i + 1 .. Len(new))
      BY <1>2, <3>1
    <3>3. i = n + 1
      BY <1>1, <3>2
    <3> QED BY <1>2, <3>1, <3>3
  <2> QED BY <2>1, <2>2
<1>4. ASSUME NEW q \in Nodes, q # m PROVE TellsJoin(new, q) <=> TellsJoin(ch, q)
  <2>1. ASSUME TellsJoin(new, q) PROVE TellsJoin(ch, q)
    <3>1. PICK i \in DOMAIN new : /\ new[i] = <<"join", q>>
                                  /\ \A j \in i + 1 .. Len(new) : new[j][2] # q
      BY <2>1 DEF TellsJoin
    <3>2. i # n + 1
      BY <1>2, <1>4, <3>1
    <3>3. i \in 1 .. n
      BY <1>1, <3>2
    <3>4. \A j \in i + 1 .. n : ch[j][2] # q
      BY <1>1, <3>1, <3>3
    <3> QED BY <1>1, <3>1, <3>3, <3>4 DEF TellsJoin, n
  <2>2. ASSUME TellsJoin(ch, q) PROVE TellsJoin(new, q)
    <3>1. PICK i \in DOMAIN ch : /\ ch[i] = <<"join", q>>
                                 /\ \A j \in i + 1 .. n : ch[j][2] # q
      BY <2>2 DEF TellsJoin, n
    <3>2. i \in DOMAIN new /\ new[i] = ch[i]
      BY <1>1
    <3>3. ASSUME NEW j \in i + 1 .. Len(new) PROVE new[j][2] # q
      <4>1. CASE j = n + 1
        BY <1>2, <1>4, <4>1
      <4>2. CASE j # n + 1
        <5>1. j \in i + 1 .. n /\ j \in 1 .. n
          BY <1>1, <4>2
        <5> QED BY <1>1, <3>1, <5>1
      <4> QED BY <4>1, <4>2
    <3> QED BY <3>1, <3>2, <3>3 DEF TellsJoin
  <2> QED BY <2>1, <2>2
<1> QED BY <1>3, <1>4 DEF new

\* The channel holds no more events than there were, so that none is dropped while
\* there were no more than it has room for.
ChannelOK ==
    /\ EventCh \in Seq(Event) /\ events \in Nat /\ Len(EventCh) <= events
    /\ ChannelTellsMembers

LEMMA EmitOK ==
    ASSUME ChannelOK, NEW t \in {"join", "leave"}, NEW m \in Nodes, emit(t, m),
           events' = events + 1, DOMAIN nodes \subseteq Nodes,
           DOMAIN nodes' = IF t = "join" THEN DOMAIN nodes \cup {m} ELSE DOMAIN nodes \ {m}
    PROVE  ChannelOK'
<1>1. EventCh \in Seq(Event) /\ events \in Nat /\ Len(EventCh) <= events /\ Len(EventCh) \in Nat
  BY DEF ChannelOK
<1>2. /\ Append(EventCh, <<t, m>>) \in Seq(Event)
      /\ Len(Append(EventCh, <<t, m>>)) = Len(EventCh) + 1
  <2>1. <<t, m>> \in Event
    BY DEF Event
  <2> QED BY <1>1, <2>1, AppendProperties
<1>3. EventCh' = IF Len(EventCh) < ChannelCap THEN Append(EventCh, <<t, m>>) ELSE EventCh
  BY DEF emit
<1>4. EventCh' \in Seq(Event) /\ events' \in Nat /\ Len(EventCh') <= events'
  BY <1>1, <1>2, <1>3
<1>5. ASSUME events' <= ChannelCap PROVE {q \in Nodes : TellsJoin(EventCh', q)} = DOMAIN nodes'
  <2>1. events <= ChannelCap /\ Len(EventCh) < ChannelCap
    BY <1>1, <1>5, CircleAssumption
  <2>2. EventCh' = Append(EventCh, <<t, m>>)
    BY <1>3, <2>1
  <2>3. {q \in Nodes : TellsJoin(EventCh, q)} = DOMAIN nodes
    BY <2>1 DEF ChannelOK, ChannelTellsMembers
  <2>4. /\ TellsJoin(EventCh', m) <=> t = "join"
        /\ \A q \in Nodes : q # m => (TellsJoin(EventCh', q) <=> TellsJoin(EventCh, q))
    BY <1>1, <2>2, TellsAppend
  <2> QED BY <2>3, <2>4
<1>6. ChannelTellsMembers'
  BY <1>5 DEF ChannelTellsMembers
<1> QED BY <1>4, <1>6 DEF ChannelOK

-----------------------------------------------------------------------------
(***************************************************************************)
(* The invariant.  The node itself is a member until NewManager has added  *)
(* it again, which therefore changes no membership.                        *)
(***************************************************************************)

IInv ==
    /\ RingOK /\ ChannelOK
    /\ alive \subseteq Nodes /\ started \in BOOLEAN
    /\ ~started => Self \in alive

LEMMA InitOK == Init => IInv
<1> SUFFICES ASSUME Init PROVE IInv
  OBVIOUS
<1>1. PICK a \in Addresses :
         /\ nodes = [m \in {Self} |-> [id |-> Self, address |-> a]]
         /\ owners = [p \in Positions(Self) |-> [id |-> Self, address |-> a]]
  BY DEF Init
<1> DEFINE node == [id |-> Self, address |-> a]
<1>2. node \in Node /\ node.id = Self
  BY SelfAssumption DEF Node
<1>3. /\ DOMAIN nodes = {Self} /\ nodes[Self] = node
      /\ DOMAIN owners = Positions(Self) /\ \A p \in Positions(Self) : owners[p] = node
  BY <1>1
<1> HIDE DEF node
<1>4. /\ VirtualNodes[Self] \in Seq(Position) /\ Elements(VirtualNodes[Self]) = Positions(Self)
      /\ Positions(Self) \subseteq Position /\ Private(Self) \subseteq Positions(Self)
  BY SelfAssumption, PositionsProps
<1>5. ListOK /\ Elements(ring) = Positions(Self)
  BY <1>4, SortedProps DEF Init, ListOK
<1>6. alive = {Self} /\ started = FALSE /\ EventCh = <<<<"join", Self>>>> /\ events = 1
  BY DEF Init
<1>7. PartsOK
  BY <1>2, <1>3, <1>4, SelfAssumption DEF PartsOK
<1>8. RingMatchesMembers
  BY <1>2, <1>3, <1>4, <1>5, <1>6 DEF RingMatchesMembers
<1>9. ChannelOK
  <2>1. <<"join", Self>> \in Event
    BY SelfAssumption DEF Event
  <2>2. EventCh \in Seq(Event) /\ Len(EventCh) = 1 /\ EventCh[1] = <<"join", Self>>
    BY <1>6, <2>1
  <2>3. ASSUME NEW m \in Nodes PROVE TellsJoin(EventCh, m) <=> m = Self
    <3>1. DOMAIN EventCh = {1} /\ 1 + 1 .. Len(EventCh) = {}
      BY <2>2
    <3>2. TellsJoin(EventCh, m) <=> EventCh[1] = <<"join", m>>
      BY <3>1 DEF TellsJoin
    <3> QED BY <2>2, <3>2
  <2>4. {m \in Nodes : TellsJoin(EventCh, m)} = {Self}
    BY <2>3, SelfAssumption
  <2> QED BY <1>3, <1>6, <2>2, <2>4 DEF ChannelOK, ChannelTellsMembers
<1> QED BY <1>5, <1>6, <1>7, <1>8, <1>9, SelfAssumption DEF IInv, RingOK

LEMMA NewManagerOK ==
    ASSUME IInv, NewManager
    PROVE  IInv'
<1>1. Self \in alive /\ Self \in Nodes /\ DOMAIN nodes = alive /\ nodes[Self] \in Node
  BY SelfAssumption DEF IInv, NewManager, RingOK, PartsOK, RingMatchesMembers
<1>2. PICK a : a = nodes[Self].address
  OBVIOUS
<1>3. a \in Addresses /\ AddNode(Self, a) /\ alive' = alive \cup {Self}
  BY <1>1, <1>2 DEF NewManager, Node
<1>4. RingOK'
  BY <1>1, <1>2, <1>3, AddNodeOK DEF IInv
<1>5. DOMAIN nodes' = DOMAIN nodes
  BY <1>1, <1>4 DEF RingOK, RingMatchesMembers, NewManager
<1>6. ChannelOK'
  BY <1>5 DEF IInv, ChannelOK, ChannelTellsMembers, NewManager
<1> QED BY <1>4, <1>6 DEF IInv, NewManager

LEMMA NotifyJoinOK ==
    ASSUME IInv, NEW m \in Nodes, NEW address \in Addresses, NotifyJoin(m, address)
    PROVE  IInv'
<1>1. /\ events' = events + 1 /\ m \notin alive /\ alive' = alive \cup {m}
      /\ AddNode(m, address) /\ emit("join", m) /\ started' = started
  BY DEF NotifyJoin
<1>2. RingOK'
  BY <1>1, AddNodeOK DEF IInv
<1>3. DOMAIN nodes \subseteq Nodes /\ DOMAIN nodes' = DOMAIN nodes \cup {m}
  BY <1>1, <1>2 DEF IInv, RingOK, RingMatchesMembers
<1>4. ChannelOK'
  BY <1>1, <1>3, EmitOK DEF IInv
<1> QED BY <1>1, <1>2, <1>4 DEF IInv

LEMMA NotifyLeaveOK ==
    ASSUME IInv, NEW m \in Nodes, NotifyLeave(m)
    PROVE  IInv'
<1>1. /\ events' = events + 1 /\ m \in alive /\ alive' = alive \ {m} /\ (m = Self => started)
      /\ RemoveNode(m) /\ emit("leave", m) /\ started' = started
  BY DEF NotifyLeave
<1>2. RingOK'
  BY <1>1, RemoveNodeOK DEF IInv
<1>3. DOMAIN nodes \subseteq Nodes /\ DOMAIN nodes' = DOMAIN nodes \ {m}
  BY <1>1, <1>2 DEF IInv, RingOK, RingMatchesMembers
<1>4. ChannelOK'
  BY <1>1, <1>3, EmitOK DEF IInv
<1> QED BY <1>1, <1>2, <1>4 DEF IInv

LEMMA NextOK == IInv /\ [Next]_vars => IInv'
<1> SUFFICES ASSUME IInv, [Next]_vars PROVE IInv'
  OBVIOUS
<1>1. CASE UNCHANGED vars
  BY <1>1 DEF vars, IInv, RingOK, ListOK, PartsOK, RingMatchesMembers, ChannelOK,
              ChannelTellsMembers
<1> QED BY <1>1, NewManagerOK, NotifyJoinOK, NotifyLeaveOK DEF Next

\* The invariant holds however nodes come, go, rejoin and share positions.
THEOREM RingInvariance == Spec => []IInv
BY InitOK, NextOK, PTL DEF Spec

\* Every variable has its type, and the list stays sorted.
THEOREM RingTypes == Spec => []TypeOK
<1>1. IInv => TypeOK
  BY DEF IInv, RingOK, ListOK, PartsOK, ChannelOK, Ascending, Event, TypeOK
<1> QED BY <1>1, RingInvariance, PTL

\* List, owners and members agree: no lookup meets a node that has left or a stale address.
THEOREM RingStaysInStep == Spec => []RingMatchesMembers
<1>1. IInv => RingMatchesMembers
  BY DEF IInv, RingOK
<1> QED BY <1>1, RingInvariance, PTL

\* Replaying the channel gives the members while nothing was dropped.
THEOREM ChannelIsComplete == Spec => []ChannelTellsMembers
<1>1. IInv => ChannelTellsMembers
  BY DEF IInv, ChannelOK
<1> QED BY <1>1, RingInvariance, PTL

-----------------------------------------------------------------------------
(***************************************************************************)
(* Lookups.  The walk of GetNSuccessors meets the positions in the order   *)
(* of their distance from the key, hence every member first at its nearest *)
(* position, and the members in the order of their distance.               *)
(***************************************************************************)

\* How far a position is from h, clockwise.
Gap(h, p) == (p - h) % Circle

LEMMA GapProps ==
    ASSUME NEW h \in Position, NEW p \in Position
    PROVE  /\ Gap(h, p) = IF p >= h THEN p - h ELSE p - h + Circle
           /\ Gap(h, p) \in Nat
<1>1. Circle \in Nat \ {0} /\ h \in Int /\ p \in Int /\ 0 <= h /\ h < Circle /\ 0 <= p /\ p < Circle
  BY CircleAssumption DEF Position
<1>2. CASE p >= h
  <2>1. p - h >= 0 /\ p - h < Circle /\ p - h \in Int
    BY <1>1, <1>2
  <2>2. (p - h) % Circle = p - h
    BY <1>1, <2>1
  <2> QED BY <1>2, <2>1, <2>2 DEF Gap
<1>3. CASE ~(p >= h)
  <2>1. p - h < 0 /\ p - h >= -Circle /\ p - h \in Int /\ p - h + Circle \in Nat
    BY <1>1, <1>3
  <2>2. (p - h) % Circle = p - h + Circle
    BY <1>1, <2>1
  <2> QED BY <1>3, <2>1, <2>2 DEF Gap
<1> QED BY <1>2, <1>3

\* Positions at the same distance are the same.
LEMMA GapInjective ==
    ASSUME NEW h \in Position, NEW p \in Position, NEW q \in Position, Gap(h, p) = Gap(h, q)
    PROVE  p = q
<1>1. Circle \in Nat /\ h \in 0 .. Circle - 1 /\ p \in 0 .. Circle - 1 /\ q \in 0 .. Circle - 1
  BY CircleAssumption DEF Position
<1> QED BY <1>1, GapProps

\* search finds the first position at or after h, or else the first of all.
LEMMA SearchProps ==
    ASSUME ListOK, Len(ring) > 0, NEW h \in Position
    PROVE  /\ search(h) \in DOMAIN ring
           /\ \/ /\ ring[search(h)] >= h
                 /\ \A j \in 1 .. search(h) - 1 : ring[j] < h
              \/ search(h) = 1 /\ \A j \in DOMAIN ring : ring[j] < h
<1>1. /\ DOMAIN ring = 1 .. Len(ring) /\ Len(ring) \in Nat /\ h \in Int
      /\ \A i \in DOMAIN ring : ring[i] \in Int
  BY CircleAssumption DEF ListOK, Position
<1>2. CASE \E i \in DOMAIN ring : ring[i] >= h
  <2> DEFINE S == {i \in DOMAIN ring : ring[i] >= h}
             Found(i) == ring[i] >= h /\ \A j \in 1 .. i - 1 : ring[j] < h
  <2>1. S \in SUBSET Nat /\ S # {}
    BY <1>1, <1>2
  <2>2. PICK i \in S : \A j \in S : i <= j
    <3> HIDE DEF S
    <3> QED BY <2>1, LeastNat
  <2>3. Found(i) /\ i \in DOMAIN ring
    BY <1>1, <2>2
  <2>4. search(h) = CHOOSE k \in DOMAIN ring : Found(k)
    BY <1>2 DEF search
  <2> HIDE DEF Found
  <2>5. search(h) \in DOMAIN ring /\ Found(search(h))
    BY <2>3, <2>4
  <2> QED BY <2>5 DEF Found
<1>3. CASE ~\E i \in DOMAIN ring : ring[i] >= h
  <2>1. search(h) = 1
    BY <1>3 DEF search
  <2>2. \A j \in DOMAIN ring : ring[j] < h
    BY <1>1, <1>3
  <2> QED BY <1>1, <2>1, <2>2
<1> QED BY <1>2, <1>3

\* The index at which the walk from h is after i steps.
At(h, i) == ((search(h) + i - 2) % Len(ring)) + 1

LEMMA AtProps ==
    ASSUME ListOK, Len(ring) > 0, NEW h \in Position
    PROVE  /\ \A i \in 1 .. Len(ring) :
                /\ At(h, i) \in DOMAIN ring
                /\ At(h, i) = IF search(h) + i - 1 <= Len(ring) THEN search(h) + i - 1
                              ELSE search(h) + i - 1 - Len(ring)
           /\ \A k \in DOMAIN ring : \E i \in 1 .. Len(ring) : At(h, i) = k
           /\ At(h, 1) = search(h)
<1>1. PICK L, s : L = Len(ring) /\ s = search(h)
  OBVIOUS
<1>2. L \in Nat \ {0} /\ s \in 1 .. L /\ DOMAIN ring = 1 .. L
  BY <1>1, SearchProps DEF ListOK
<1>3. ASSUME NEW i \in 1 .. L
      PROVE  /\ At(h, i) \in 1 .. L
             /\ At(h, i) = IF s + i - 1 <= L THEN s + i - 1 ELSE s + i - 1 - L
  <2>1. At(h, i) = ((s + i - 2) % L) + 1
    BY <1>1 DEF At
  <2>2. CASE s + i - 1 <= L
    <3>1. s + i - 2 \in Int /\ s + i - 2 >= 0 /\ s + i - 2 < L
      BY <1>2, <2>2
    <3>2. (s + i - 2) % L = s + i - 2
      BY <1>2, <3>1
    <3> QED BY <1>2, <2>1, <2>2, <3>2
  <2>3. CASE ~(s + i - 1 <= L)
    <3>1. s + i - 2 \in Int /\ s + i - 2 >= L /\ s + i - 2 < 2 * L
      BY <1>2, <2>3
    <3>2. (s + i - 2) % L = s + i - 2 - L
      BY <1>2, <3>1
    <3> QED BY <1>2, <2>1, <2>3, <3>1, <3>2
  <2> QED BY <2>2, <2>3
<1>4. ASSUME NEW k \in 1 .. L PROVE \E i \in 1 .. L : At(h, i) = k
  <2>1. CASE k >= s
    <3>1. k - s + 1 \in 1 .. L /\ s + (k - s + 1) - 1 = k /\ k <= L
      BY <1>2, <2>1
    <3>2. At(h, k - s + 1) = k
      BY <1>3, <3>1
    <3> QED BY <3>1, <3>2
  <2>2. CASE ~(k >= s)
    <3>1. PICK i : i = k - s + 1 + L
      OBVIOUS
    <3>2. i \in 1 .. L /\ ~(s + i - 1 <= L) /\ s + i - 1 - L = k
      BY <1>2, <2>2, <3>1
    <3>3. At(h, i) = k
      BY <1>3, <3>2
    <3> QED BY <3>2, <3>3
  <2> QED BY <2>1, <2>2
<1>5. At(h, 1) = s
  BY <1>2, <1>3
<1> QED BY <1>1, <1>2, <1>3, <1>4, <1>5

\* The walk never comes nearer.
LEMMA WalkGoesOn ==
    ASSUME ListOK, Len(ring) > 0, NEW h \in Position,
           NEW i \in 1 .. Len(ring), NEW j \in 1 .. Len(ring), i < j
    PROVE  Gap(h, ring[At(h, i)]) <= Gap(h, ring[At(h, j)])
<1>1. PICK L, s, a, b : L = Len(ring) /\ s = search(h) /\ a = At(h, i) /\ b = At(h, j)
  OBVIOUS
<1>2. /\ L \in Nat \ {0} /\ s \in 1 .. L /\ DOMAIN ring = 1 .. L
      /\ a \in 1 .. L /\ a = IF s + i - 1 <= L THEN s + i - 1 ELSE s + i - 1 - L
      /\ b \in 1 .. L /\ b = IF s + j - 1 <= L THEN s + j - 1 ELSE s + j - 1 - L
  <2>1. L \in Nat \ {0} /\ DOMAIN ring = 1 .. L
    BY <1>1 DEF ListOK
  <2>2. s \in 1 .. L
    BY <1>1, <2>1, SearchProps
  <2>3. a \in 1 .. L /\ a = IF s + i - 1 <= L THEN s + i - 1 ELSE s + i - 1 - L
    BY <1>1, <2>1, AtProps
  <2>4. b \in 1 .. L /\ b = IF s + j - 1 <= L THEN s + j - 1 ELSE s + j - 1 - L
    BY <1>1, <2>1, AtProps
  <2> QED BY <2>1, <2>2, <2>3, <2>4
<1>3. /\ Circle \in Nat /\ h \in 0 .. Circle - 1
      /\ \A k \in 1 .. L : ring[k] \in 0 .. Circle - 1 /\ ring[k] \in Position
      /\ \A k, l \in 1 .. L : k < l => ring[k] <= ring[l]
  <2>1. Circle \in Nat /\ h \in 0 .. Circle - 1
    BY CircleAssumption DEF Position
  <2>2. \A k \in 1 .. L : ring[k] \in Position
    BY <1>2 DEF ListOK
  <2>3. \A k, l \in 1 .. L : k < l => ring[k] <= ring[l]
    BY <1>2 DEF ListOK, Ascending
  <2> QED BY <2>1, <2>2, <2>3 DEF Position
<1>4. /\ Gap(h, ring[a]) = IF ring[a] >= h THEN ring[a] - h ELSE ring[a] - h + Circle
      /\ Gap(h, ring[b]) = IF ring[b] >= h THEN ring[b] - h ELSE ring[b] - h + Circle
  BY <1>2, <1>3, GapProps
<1>5. PICK x, y, u, v : x = ring[a] /\ y = ring[b] /\ u = Gap(h, x) /\ v = Gap(h, y)
  OBVIOUS
<1>6. /\ Circle \in Nat /\ h \in 0 .. Circle - 1 /\ x \in 0 .. Circle - 1 /\ y \in 0 .. Circle - 1
      /\ u = IF x >= h THEN x - h ELSE x - h + Circle
      /\ v = IF y >= h THEN y - h ELSE y - h + Circle
  BY <1>2, <1>3, <1>4, <1>5
<1> SUFFICES u <= v
  BY <1>1, <1>5
<1>7. CASE \A k \in DOMAIN ring : ring[k] < h /\ s = 1
  <2>1. a < b
    BY <1>1, <1>2, <1>7
  <2>2. x <= y /\ x < h /\ y < h
    BY <1>2, <1>3, <1>5, <1>7, <2>1
  <2> QED BY <1>6, <2>2
<1>8. CASE ring[s] >= h /\ \A k \in 1 .. s - 1 : ring[k] < h
  <2>1. \A k \in s .. L : ring[k] >= h
    <3> SUFFICES ASSUME NEW k \in s .. L PROVE ring[k] >= h
      OBVIOUS
    <3>1. k = s \/ (s < k /\ k \in 1 .. L)
      BY <1>2
    <3>2. ring[k] \in Int /\ ring[s] \in Int /\ h \in Int /\ (k = s \/ ring[s] <= ring[k])
      BY <1>2, <1>3, <3>1
    <3> QED BY <1>8, <3>2
  <2>2. CASE s <= a /\ s <= b
    <3>1. a < b /\ a \in s .. L /\ b \in s .. L
      BY <1>1, <1>2, <2>2, SMTT(30)
    <3>2. x <= y /\ x >= h /\ y >= h
      BY <1>2, <1>3, <1>5, <2>1, <3>1
    <3> QED BY <1>6, <3>2
  <2>3. CASE s <= a /\ b < s
    <3>1. a \in s .. L /\ b \in 1 .. s - 1
      BY <1>2, <2>3
    <3>2. x >= h /\ y < h
      BY <1>5, <1>8, <2>1, <3>1
    <3> QED BY <1>6, <3>2
  <2>4. CASE a < s /\ b < s
    <3>1. a < b /\ a \in 1 .. s - 1 /\ b \in 1 .. s - 1
      BY <1>1, <1>2, <2>4, SMTT(30)
    <3>2. x <= y /\ x < h /\ y < h
      BY <1>2, <1>3, <1>5, <1>8, <3>1
    <3> QED BY <1>6, <3>2
  <2>5. ~(a < s /\ s <= b)
    BY <1>1, <1>2, SMTT(30)
  <2> QED BY <1>2, <2>2, <2>3, <2>4, <2>5
<1> QED BY <1>1, <1>2, <1>7, <1>8, SearchProps

\* Every node has a position of its own, and there are Circle of them.
LEMMA NodesFinite == IsFiniteSet(Nodes)
<1> DEFINE f == [m \in Nodes |-> CHOOSE p \in Private(m) : TRUE]
<1>1. ASSUME NEW m \in Nodes PROVE f[m] \in Private(m)
  BY PositionsProps
<1>2. \A m \in Nodes : f[m] \in Position /\ f[m] \in Private(m)
  BY <1>1, PositionsProps
<1>3. f \in [Nodes -> Position]
  BY <1>2
<1> HIDE DEF f
<1>4. \A a, b \in Nodes : f[a] = f[b] => a = b
  <2> SUFFICES ASSUME NEW a \in Nodes, NEW b \in Nodes, f[a] = f[b], a # b PROVE FALSE
    OBVIOUS
  <2>1. f[a] \in Private(a) /\ f[a] \in Positions(b)
    BY <1>2, PositionsProps
  <2> QED BY <2>1, PositionsProps
<1>5. f \in Injection(Nodes, Position)
  BY <1>3, <1>4 DEF Injection, IsInjective
<1>6. IsFiniteSet(Position)
  BY CircleAssumption, FS_Interval DEF Position
<1> QED BY <1>5, <1>6, FS_Injection

\* What the walk meets: owned positions, whose owners are members.
LEMMA MetProps ==
    ASSUME RingOK, NEW h \in Position, Len(ring) > 0
    PROVE  /\ \A i \in 1 .. Len(ring) :
                /\ ring[At(h, i)] \in DOMAIN owners /\ ring[At(h, i)] \in Position
                /\ Met(h, i) = owners[ring[At(h, i)]].id /\ Met(h, i) \in alive
           /\ \A p \in DOMAIN owners : \E i \in 1 .. Len(ring) : ring[At(h, i)] = p
<1>1. /\ ListOK /\ Elements(ring) = DOMAIN owners /\ DOMAIN owners \subseteq Position
      /\ \A p \in DOMAIN owners : owners[p].id \in alive
  BY DEF RingOK, PartsOK, RingMatchesMembers
<1>2. ASSUME NEW i \in 1 .. Len(ring)
      PROVE  /\ ring[At(h, i)] \in DOMAIN owners /\ ring[At(h, i)] \in Position
             /\ Met(h, i) = owners[ring[At(h, i)]].id /\ Met(h, i) \in alive
  <2>1. At(h, i) \in DOMAIN ring
    BY <1>1, AtProps
  <2>2. ring[At(h, i)] \in DOMAIN owners
    BY <1>1, <2>1 DEF Elements
  <2>3. Met(h, i) = owners[ring[At(h, i)]].id
    BY DEF Met, At
  <2> QED BY <1>1, <2>2, <2>3
<1>3. ASSUME NEW p \in DOMAIN owners PROVE \E i \in 1 .. Len(ring) : ring[At(h, i)] = p
  <2>1. PICK k \in DOMAIN ring : ring[k] = p
    BY <1>1 DEF Elements
  <2>2. PICK i \in 1 .. Len(ring) : At(h, i) = k
    BY <1>1, AtProps
  <2> QED BY <2>1, <2>2
<1> QED BY <1>2, <1>3

\* There is something to walk along if there is a member.
LEMMA MembersHavePositions ==
    ASSUME RingOK
    PROVE  /\ Len(ring) \in Nat
           /\ alive # {} <=> Len(ring) > 0
           /\ \A m \in alive : \E p \in DOMAIN owners : owners[p].id = m
<1>1. /\ ring \in Seq(Position) /\ Elements(ring) = DOMAIN owners
      /\ DOMAIN nodes = alive /\ DOMAIN nodes \subseteq Nodes
      /\ \A p \in DOMAIN owners : owners[p].id \in alive
      /\ \A m \in alive : \A p \in Private(m) : p \in DOMAIN owners /\ owners[p].id = m
  BY DEF RingOK, ListOK, PartsOK, RingMatchesMembers
<1>2. DOMAIN ring = 1 .. Len(ring) /\ Len(ring) \in Nat
  BY <1>1
<1>3. ASSUME NEW m \in alive PROVE \E p \in DOMAIN owners : owners[p].id = m
  <2>1. PICK p : p \in Private(m)
    BY <1>1, PositionsProps
  <2> QED BY <1>1, <2>1
<1>4. ASSUME alive # {} PROVE Len(ring) > 0
  <2>1. PICK p : p \in Elements(ring)
    BY <1>1, <1>3, <1>4
  <2>2. DOMAIN ring # {}
    BY <2>1 DEF Elements
  <2> QED BY <1>2, <2>2
<1>5. ASSUME Len(ring) > 0 PROVE alive # {}
  <2>1. 1 \in DOMAIN ring
    BY <1>2, <1>5
  <2>2. ring[1] \in DOMAIN owners
    BY <1>1, <2>1 DEF Elements
  <2> QED BY <1>1, <2>2
<1> QED BY <1>2, <1>3, <1>4, <1>5

\* The steps of the walk at which a node is met for the first time.
NewSteps(h) == {i \in 1 .. Len(ring) : \A j \in 1 .. i - 1 : Met(h, j) # Met(h, i)}

GapAt(h, i) == Gap(h, ring[At(h, i)])

LEMMA NewStepsDiffer ==
    ASSUME RingOK, NEW h \in Position, NEW i \in NewSteps(h), NEW j \in NewSteps(h), i # j
    PROVE  Met(h, i) # Met(h, j)
<1>1. i \in 1 .. Len(ring) /\ j \in 1 .. Len(ring) /\ Len(ring) \in Nat
  BY MembersHavePositions DEF NewSteps
<1>2. i \in 1 .. j - 1 \/ j \in 1 .. i - 1
  BY <1>1
<1> QED BY <1>2 DEF NewSteps

\* Nodes are met in the order of the distance at which they are met.
LEMMA NewStepsGoOn ==
    ASSUME RingOK, NEW h \in Position, NEW i \in NewSteps(h), NEW j \in NewSteps(h), i < j
    PROVE  GapAt(h, i) < GapAt(h, j)
<1>1. i \in 1 .. Len(ring) /\ j \in 1 .. Len(ring) /\ Len(ring) \in Nat /\ Len(ring) > 0 /\ ListOK
  <2>1. i \in 1 .. Len(ring) /\ j \in 1 .. Len(ring) /\ Len(ring) \in Nat /\ ListOK
    BY MembersHavePositions DEF NewSteps, RingOK
  <2> QED BY <2>1
<1>2. Met(h, i) # Met(h, j)
  <2>1. i # j
    BY <1>1
  <2> QED BY <2>1, NewStepsDiffer
<1>3. /\ Met(h, i) = owners[ring[At(h, i)]].id /\ Met(h, j) = owners[ring[At(h, j)]].id
      /\ ring[At(h, i)] \in Position /\ ring[At(h, j)] \in Position
  BY <1>1, MetProps
<1>4. GapAt(h, i) <= GapAt(h, j)
  BY <1>1, WalkGoesOn DEF GapAt
<1>5. GapAt(h, i) # GapAt(h, j)
  BY <1>2, <1>3, GapInjective DEF GapAt
<1>6. GapAt(h, i) \in Nat /\ GapAt(h, j) \in Nat
  BY <1>3, GapProps DEF GapAt
<1> QED BY <1>4, <1>5, <1>6

\* Every member is met, first at its nearest position.
LEMMA MemberIsMet ==
    ASSUME RingOK, NEW h \in Position, NEW m \in alive
    PROVE  \E i \in NewSteps(h) : Met(h, i) = m /\ Distance(h, m) = GapAt(h, i)
<1> DEFINE Own == {q \in DOMAIN owners : owners[q].id = m}
           far == {(p - h) % Circle : p \in Own}
           T == {i \in 1 .. Len(ring) : Met(h, i) = m}
<1>1. Len(ring) \in Nat /\ Len(ring) > 0 /\ ListOK
  BY MembersHavePositions DEF RingOK
<1>2. /\ \A i \in 1 .. Len(ring) :
            /\ ring[At(h, i)] \in DOMAIN owners /\ ring[At(h, i)] \in Position
            /\ Met(h, i) = owners[ring[At(h, i)]].id
      /\ \A p \in DOMAIN owners : \E i \in 1 .. Len(ring) : ring[At(h, i)] = p
  BY <1>1, MetProps
<1>3. T \in SUBSET Nat /\ T # {}
  <2>1. PICK p \in DOMAIN owners : owners[p].id = m
    BY MembersHavePositions
  <2>2. PICK i \in 1 .. Len(ring) : ring[At(h, i)] = p
    BY <1>2
  <2>3. i \in T
    BY <1>2, <2>1, <2>2
  <2> QED BY <1>1, <2>3
<1>4. PICK i \in T : \A j \in T : i <= j
  <2> HIDE DEF T
  <2> QED BY <1>3, LeastNat
<1>5. i \in 1 .. Len(ring) /\ Met(h, i) = m /\ i \in Nat
  BY <1>1, <1>4
<1>6. i \in NewSteps(h)
  <2>1. ASSUME NEW j \in 1 .. i - 1, Met(h, j) = m PROVE FALSE
    <3>1. j \in 1 .. Len(ring) /\ ~(i <= j)
      BY <1>1, <1>5
    <3> QED BY <1>4, <2>1, <3>1
  <2> QED BY <1>5, <2>1 DEF NewSteps
<1>7. GapAt(h, i) \in far
  <2>1. ring[At(h, i)] \in Own
    BY <1>2, <1>5
  <2> QED BY <2>1 DEF GapAt, Gap
<1>8. ASSUME NEW e \in far PROVE GapAt(h, i) <= e /\ e \in Nat /\ GapAt(h, i) \in Nat
  <2>1. PICK p \in Own : e = Gap(h, p)
    BY DEF Gap
  <2>2. PICK j \in 1 .. Len(ring) : ring[At(h, j)] = p
    BY <1>2
  <2>3. j \in T /\ e = GapAt(h, j)
    BY <1>2, <2>1, <2>2 DEF GapAt
  <2>4. i <= j /\ j \in Nat
    BY <1>1, <1>4, <2>3
  <2>5. GapAt(h, i) \in Nat /\ GapAt(h, j) \in Nat
    BY <1>2, <1>5, GapProps DEF GapAt
  <2>6. i = j \/ i < j
    BY <1>5, <2>4
  <2>7. i < j => GapAt(h, i) <= GapAt(h, j)
    BY <1>1, <1>5, WalkGoesOn DEF GapAt
  <2> QED BY <2>3, <2>5, <2>6, <2>7
<1>9. Distance(h, m) = CHOOSE d \in far : \A e \in far : d <= e
  BY DEF Distance
<1> HIDE DEF far
<1>10. Distance(h, m) \in far /\ \A e \in far : Distance(h, m) <= e
  BY <1>7, <1>8, <1>9
<1>11. Distance(h, m) = GapAt(h, i)
  BY <1>7, <1>8, <1>10
<1> QED BY <1>5, <1>6, <1>11

\* A step that is new has the distance of the member it meets.
LEMMA NewStepDistance ==
    ASSUME RingOK, NEW h \in Position, NEW i \in NewSteps(h)
    PROVE  /\ Met(h, i) \in alive /\ Distance(h, Met(h, i)) = GapAt(h, i)
           /\ GapAt(h, i) \in Nat
<1>1. i \in 1 .. Len(ring) /\ Len(ring) \in Nat
  BY MembersHavePositions DEF NewSteps
<1>2. Len(ring) > 0
  BY <1>1
<1>3. Met(h, i) \in alive /\ ring[At(h, i)] \in Position
  BY <1>1, <1>2, MetProps
<1>4. PICK j \in NewSteps(h) : Met(h, j) = Met(h, i) /\ Distance(h, Met(h, i)) = GapAt(h, j)
  BY <1>3, MemberIsMet
<1>5. i = j
  BY <1>4, NewStepsDiffer
<1>6. GapAt(h, i) \in Nat
  BY <1>3, GapProps DEF GapAt
<1> QED BY <1>3, <1>4, <1>5, <1>6

\* There are as many new steps as members.
LEMMA NewStepsCount ==
    ASSUME RingOK, NEW h \in Position
    PROVE  /\ IsFiniteSet(NewSteps(h)) /\ NewSteps(h) \in SUBSET Int
           /\ Cardinality(NewSteps(h)) = Cardinality(alive)
           /\ IsFiniteSet(alive) /\ Cardinality(alive) \in Nat
<1> DEFINE f == [i \in NewSteps(h) |-> Met(h, i)]
<1>1. alive \in SUBSET Nodes
  BY DEF RingOK, PartsOK, RingMatchesMembers
<1>2. IsFiniteSet(alive)
  BY <1>1, NodesFinite, FS_Subset
<1>3. Cardinality(alive) \in Nat
  BY <1>2, FS_CardinalityType
<1>4. IsFiniteSet(NewSteps(h)) /\ NewSteps(h) \in SUBSET Int
  <2>1. Len(ring) \in Nat
    BY MembersHavePositions
  <2>2. NewSteps(h) \in SUBSET (1 .. Len(ring)) /\ IsFiniteSet(1 .. Len(ring))
    BY <2>1, FS_Interval DEF NewSteps
  <2>3. NewSteps(h) \in SUBSET Int
    BY <2>1, <2>2
  <2> QED BY <2>2, <2>3, FS_Subset
<1>5. f \in [NewSteps(h) -> alive]
  BY NewStepDistance
<1>6. \A i, j \in NewSteps(h) : f[i] = f[j] => i = j
  BY NewStepsDiffer
<1>7. \A m \in alive : \E i \in NewSteps(h) : f[i] = m
  BY MemberIsMet
<1> HIDE DEF f
<1>8. f \in Bijection(NewSteps(h), alive)
  <2>1. f \in Injection(NewSteps(h), alive)
    BY <1>5, <1>6 DEF Injection, IsInjective
  <2>2. f \in Surjection(NewSteps(h), alive)
    BY <1>5, <1>7 DEF Surjection
  <2> QED BY <2>1, <2>2 DEF Bijection
<1>9. ExistsBijection(NewSteps(h), alive)
  BY <1>8 DEF ExistsBijection
<1>10. Cardinality(NewSteps(h)) = Cardinality(alive)
  BY <1>4, <1>9, FS_Bijection
<1> QED BY <1>2, <1>3, <1>4, <1>10

\* How far each member is from h.
Distances(h) == [m \in alive |-> Distance(h, m)]

\* Distances are numbers.
LEMMA DistancesType ==
    ASSUME RingOK, NEW h \in Position
    PROVE  Distances(h) \in [alive -> Nat]
<1>1. ASSUME NEW m \in alive PROVE Distance(h, m) \in Nat
  <2>1. PICK i \in NewSteps(h) : Met(h, i) = m /\ Distance(h, m) = GapAt(h, i)
    BY MemberIsMet
  <2> QED BY <2>1, NewStepDistance
<1> QED BY <1>1 DEF Distances

\* res lists c elements of A in the order of their distance D, and leaves out only
\* elements that are farther than all it lists.
ListsNearest(res, c, A, D) ==
    /\ res \in [1 .. c -> A]
    /\ \A k, l \in 1 .. c : k < l => D[res[k]] < D[res[l]]
    /\ \A m \in A : (\E k \in 1 .. c : res[k] = m) \/ (\A k \in 1 .. c : D[res[k]] < D[m])

LEMMA SuccessorsListNearest ==
    ASSUME RingOK, NEW h \in Position, NEW n \in Nat
    PROVE  /\ Capped(n) \in Nat /\ Capped(n) <= Cardinality(alive)
           /\ Capped(n) = IF n > Cardinality(alive) THEN Cardinality(alive) ELSE n
           /\ ListsNearest(GetNSuccessors(h, n), Capped(n), alive, Distances(h))
<1>1. PICK N, c, C : N = NewSteps(h) /\ c = Capped(n) /\ C = Cardinality(alive)
  OBVIOUS
<1>2. N \in SUBSET Int /\ IsFiniteSet(N) /\ Cardinality(N) = C /\ C \in Nat
  BY <1>1, NewStepsCount
<1>3. c = IF n > C THEN C ELSE n
  BY <1>1 DEF Capped, RingOK, RingMatchesMembers
<1>4. c \in Nat /\ c <= C
  BY <1>2, <1>3
<1>5. /\ \A k \in 1 .. C : Nth(N, k) \in N
      /\ \A k, l \in 1 .. C : k < l => Nth(N, k) < Nth(N, l)
      /\ \A i \in N : \E k \in 1 .. C : Nth(N, k) = i
  BY <1>2, NthProps
<1>6. PICK res : res = GetNSuccessors(h, n)
  OBVIOUS
<1>7. res = [k \in {k \in 1 .. c : k <= Cardinality(N)} |-> Met(h, Nth(N, k))]
  BY <1>1, <1>6 DEF GetNSuccessors, NewSteps
<1>8. {k \in 1 .. c : k <= Cardinality(N)} = 1 .. c
  BY <1>2, <1>4
<1>9. DOMAIN res = 1 .. c /\ \A k \in 1 .. c : res[k] = Met(h, Nth(N, k))
  BY <1>7, <1>8
<1>10. \A k \in 1 .. c : k \in 1 .. C
  BY <1>2, <1>4
<1>11. ASSUME NEW k \in 1 .. c
       PROVE  /\ res[k] \in alive /\ Nth(N, k) \in NewSteps(h)
              /\ Distance(h, res[k]) = GapAt(h, Nth(N, k))
  <2>1. PICK i \in N : i = Nth(N, k)
    BY <1>5, <1>10
  <2>2. res[k] = Met(h, i) /\ i \in NewSteps(h)
    BY <1>1, <1>9, <2>1
  <2> QED BY <2>1, <2>2, NewStepDistance
<1>12. ASSUME NEW k \in 1 .. c, NEW l \in 1 .. c, k < l
       PROVE  Distance(h, res[k]) < Distance(h, res[l])
  <2>1. Nth(N, k) < Nth(N, l)
    BY <1>5, <1>10, <1>12
  <2> QED BY <1>11, <2>1, NewStepsGoOn
<1>13. ASSUME NEW m \in alive, \A k \in 1 .. c : res[k] # m, NEW k \in 1 .. c
       PROVE  Distance(h, res[k]) < Distance(h, m)
  <2>1. PICK i \in NewSteps(h) : Met(h, i) = m /\ Distance(h, m) = GapAt(h, i)
    BY MemberIsMet
  <2>2. PICK l \in 1 .. C : Nth(N, l) = i
    BY <1>1, <1>5, <2>1
  <2>3. l \notin 1 .. c
    BY <1>9, <1>13, <2>1, <2>2
  <2>4. k < l
    BY <1>2, <1>4, <2>3
  <2>5. Nth(N, k) < i
    BY <1>5, <1>10, <2>2, <2>4
  <2> QED BY <1>11, <2>1, <2>5, NewStepsGoOn
<1>14. PICK D : D = Distances(h)
  OBVIOUS
<1>15. \A m \in alive : D[m] = Distance(h, m)
  BY <1>14 DEF Distances
<1>16. res \in [1 .. c -> alive]
  <2>1. res = [k \in 1 .. c |-> Met(h, Nth(N, k))]
    BY <1>7, <1>8
  <2> QED BY <1>9, <1>11, <2>1
<1>17. \A k, l \in 1 .. c : k < l => D[res[k]] < D[res[l]]
  BY <1>11, <1>12, <1>15
<1>18. \A m \in alive : (\E k \in 1 .. c : res[k] = m) \/ (\A k \in 1 .. c : D[res[k]] < D[m])
  BY <1>11, <1>13, <1>15
<1>19. ListsNearest(res, c, alive, D)
  BY <1>16, <1>17, <1>18 DEF ListsNearest
<1> QED BY <1>1, <1>3, <1>4, <1>6, <1>14, <1>19

\* The elements nearer than the k-th of such a list are the k - 1 before it.
LEMMA NearerCount ==
    ASSUME NEW A, NEW D \in [A -> Nat], NEW c \in Nat, NEW res, ListsNearest(res, c, A, D),
           NEW k \in 1 .. c
    PROVE  Cardinality({m \in A : D[m] < D[res[k]]}) = k - 1
<1> DEFINE Nearer == {m \in A : D[m] < D[res[k]]}
           f == [l \in 1 .. k - 1 |-> res[l]]
<1>1. \A l \in 1 .. c : res[l] \in A /\ D[res[l]] \in Nat
  BY DEF ListsNearest
<1>2. \A l, j \in 1 .. c : l < j => D[res[l]] < D[res[j]]
  BY DEF ListsNearest
<1>3. k \in Nat /\ k >= 1 /\ k <= c /\ k - 1 \in Nat /\ \A l \in 1 .. k - 1 : l \in 1 .. c /\ l < k
  OBVIOUS
<1>4. f \in [1 .. k - 1 -> Nearer]
  BY <1>1, <1>2, <1>3
<1>5. \A l, j \in 1 .. k - 1 : f[l] = f[j] => l = j
  <2> SUFFICES ASSUME NEW l \in 1 .. k - 1, NEW j \in 1 .. k - 1, res[l] = res[j] PROVE l = j
    OBVIOUS
  <2>1. l \in 1 .. c /\ j \in 1 .. c /\ l \in Nat /\ j \in Nat
    BY <1>3
  <2>2. D[res[l]] \in Nat /\ D[res[l]] = D[res[j]]
    BY <1>1, <2>1
  <2>3. ~(l < j) /\ ~(j < l)
    BY <1>2, <2>1, <2>2
  <2> QED BY <2>1, <2>3
<1>6. ASSUME NEW m \in Nearer PROVE \E l \in 1 .. k - 1 : f[l] = m
  <2>1. m \in A /\ D[m] < D[res[k]] /\ D[m] \in Nat
    OBVIOUS
  <2>2. ~(D[res[k]] < D[m])
    BY <1>1, <2>1
  <2>3. PICK l \in 1 .. c : res[l] = m
    BY <2>1, <2>2 DEF ListsNearest
  <2>4. ~(k = l) /\ ~(k < l)
    <3>1. k < l => D[res[k]] < D[res[l]]
      BY <1>2
    <3>2. k # l
      BY <1>1, <2>1, <2>3
    <3> QED BY <2>2, <2>3, <3>1, <3>2
  <2>5. l \in 1 .. k - 1
    BY <1>3, <2>4
  <2> QED BY <2>3, <2>5
<1> HIDE DEF f, Nearer
<1>7. f \in Bijection(1 .. k - 1, Nearer)
  <2>1. f \in Injection(1 .. k - 1, Nearer)
    BY <1>4, <1>5 DEF Injection, IsInjective
  <2>2. f \in Surjection(1 .. k - 1, Nearer)
    BY <1>4, <1>6 DEF Surjection
  <2> QED BY <2>1, <2>2 DEF Bijection
<1>8. ExistsBijection(1 .. k - 1, Nearer)
  BY <1>7 DEF ExistsBijection
<1>9. Cardinality(Nearer) = k - 1
  BY <1>3, <1>8, FS_CountingElements
<1> QED BY <1>9 DEF Nearer

\* GetNode meets what the walk meets first.
LEMMA GetNodeIsFirst ==
    ASSUME RingOK, alive # {}, NEW h \in Position, NEW n \in Nat, n >= 1
    PROVE  GetNode(h) = GetNSuccessors(h, n)[1]
<1>1. Len(ring) \in Nat /\ Len(ring) > 0 /\ ListOK
  BY MembersHavePositions DEF RingOK
<1>2. 1 \in NewSteps(h)
  BY <1>1 DEF NewSteps
<1>3. GetNode(h) = Met(h, 1)
  <2>1. At(h, 1) = search(h)
    BY <1>1, AtProps
  <2>2. Met(h, 1) = owners[ring[At(h, 1)]].id
    BY DEF Met, At
  <2> QED BY <2>1, <2>2 DEF GetNode
<1>4. PICK res : res = GetNSuccessors(h, n)
  OBVIOUS
<1>5. PICK m : m = GetNode(h)
  OBVIOUS
<1>6. m \in alive /\ Distance(h, m) = GapAt(h, 1)
  BY <1>2, <1>3, <1>5, NewStepDistance
<1>7. ASSUME NEW q \in alive, q # m PROVE Distance(h, m) < Distance(h, q)
  <2>1. PICK i \in NewSteps(h) : Met(h, i) = q /\ Distance(h, q) = GapAt(h, i)
    BY MemberIsMet
  <2>2. i \in 1 .. Len(ring) /\ i # 1
    BY <1>3, <1>5, <1>7, <2>1 DEF NewSteps
  <2>3. 1 < i
    BY <1>1, <2>2
  <2> QED BY <1>2, <1>6, <2>1, <2>3, NewStepsGoOn
<1>8. PICK c \in Nat : c = Capped(n)
  BY SuccessorsListNearest
<1>9. PICK D : D = Distances(h)
  OBVIOUS
<1>10. /\ D \in [alive -> Nat] /\ \A q \in alive : q # m => D[m] < D[q]
  <2>1. D \in [alive -> Nat]
    BY <1>9, DistancesType
  <2>2. \A q \in alive : D[q] = Distance(h, q)
    BY <1>9 DEF Distances
  <2> QED BY <1>6, <1>7, <2>1, <2>2
<1>11. ListsNearest(res, c, alive, D) /\ c >= 1
  <2>1. Cardinality(alive) \in Nat /\ Cardinality(alive) # 0
    <3>1. IsFiniteSet(alive) /\ Cardinality(alive) \in Nat
      BY NewStepsCount
    <3> QED BY <3>1, FS_EmptySet
  <2>2. c = IF n > Cardinality(alive) THEN Cardinality(alive) ELSE n
    BY <1>8, SuccessorsListNearest
  <2>3. c >= 1
    BY <2>1, <2>2
  <2>4. ListsNearest(res, c, alive, D)
    BY <1>4, <1>8, <1>9, SuccessorsListNearest
  <2> QED BY <2>3, <2>4
<1>12. res[1] \in alive /\ 1 \in 1 .. c
  BY <1>11 DEF ListsNearest
<1>13. ASSUME res[1] # m PROVE FALSE
  <2>1. D[m] < D[res[1]] /\ D[m] \in Nat /\ D[res[1]] \in Nat
    BY <1>6, <1>10, <1>12, <1>13
  <2>2. ~(D[res[1]] < D[m])
    BY <2>1
  <2>3. PICK k \in 1 .. c : res[k] = m
    BY <1>6, <1>11, <1>12, <2>2 DEF ListsNearest
  <2>4. 1 < k
    BY <1>13, <2>3
  <2>5. D[res[1]] < D[res[k]]
    BY <1>11, <1>12, <2>4 DEF ListsNearest
  <2> QED BY <2>2, <2>3, <2>5
<1> QED BY <1>4, <1>5, <1>13

LEMMA SuccessorsLemma == IInv => SuccessorsAreNearest
<1> SUFFICES ASSUME IInv PROVE SuccessorsAreNearest
  OBVIOUS
<1> SUFFICES ASSUME NEW h \in Position, NEW n \in 1 .. Cardinality(Nodes)
             PROVE  LET result == GetNSuccessors(h, n)
                    IN /\ Len(result) = Capped(n)
                       /\ \A i \in DOMAIN result :
                             Cardinality({m \in alive : Distance(h, m) < Distance(h, result[i])}) = i - 1
                       /\ alive # {} => GetNode(h) = result[1]
  BY DEF SuccessorsAreNearest
<1>1. RingOK /\ n \in Nat /\ n >= 1
  <2>1. Cardinality(Nodes) \in Nat
    BY NodesFinite, FS_CardinalityType
  <2> QED BY <2>1 DEF IInv
<1>2. PICK res, c : res = GetNSuccessors(h, n) /\ c = Capped(n)
  OBVIOUS
<1>3. PICK D : D = Distances(h)
  OBVIOUS
<1>4. /\ c \in Nat /\ ListsNearest(res, c, alive, D) /\ D \in [alive -> Nat]
      /\ res \in [1 .. c -> alive]
  <2>1. c \in Nat /\ ListsNearest(res, c, alive, D) /\ D \in [alive -> Nat]
    BY <1>1, <1>2, <1>3, SuccessorsListNearest, DistancesType
  <2> QED BY <2>1 DEF ListsNearest
<1>5. Len(res) = c /\ DOMAIN res = 1 .. c
  <2>1. DOMAIN res = 1 .. c /\ res \in Seq(alive)
    BY <1>4, SeqDef
  <2>2. DOMAIN res = 1 .. Len(res) /\ Len(res) \in Nat
    BY <2>1
  <2>3. Len(res) = c
    BY <1>4, <2>1, <2>2
  <2> QED BY <2>1, <2>3
<1>6. ASSUME NEW i \in 1 .. c
      PROVE  Cardinality({m \in alive : Distance(h, m) < Distance(h, res[i])}) = i - 1
  <2>1. \A m \in alive : D[m] = Distance(h, m)
    BY <1>3 DEF Distances
  <2>2. res[i] \in alive
    BY <1>4
  <2>3. {m \in alive : Distance(h, m) < Distance(h, res[i])} = {m \in alive : D[m] < D[res[i]]}
    BY <2>1, <2>2
  <2>4. PICK A : A = alive
    OBVIOUS
  <2>5. D \in [A -> Nat] /\ ListsNearest(res, c, A, D)
    BY <1>4, <2>4
  <2>6. c \in Nat
    BY <1>4
  <2>7. Cardinality({m \in A : D[m] < D[res[i]]}) = i - 1
    BY <2>5, <2>6, NearerCount
  <2> QED BY <2>3, <2>4, <2>7
<1>7. alive # {} => GetNode(h) = res[1]
  BY <1>1, <1>2, GetNodeIsFirst
<1> QED BY <1>2, <1>5, <1>6, <1>7

\* Lookups return the nearest members, each once and in clockwise order, for every
\* key, every cluster and every number of replicas.
THEOREM LookupsAreNearest == Spec => []SuccessorsAreNearest
BY SuccessorsLemma, RingInvariance, PTL
-----------------------------------------------------------------------------
(***************************************************************************)
(* Minimal movement                                                        *)
(***************************************************************************)

\* A member with fewer than c members nearer than itself is at the place that
\* their number gives.
LEMMA PlaceByCount ==
    ASSUME NEW A, IsFiniteSet(A), NEW D \in [A -> Nat], NEW c \in Nat, NEW res,
           ListsNearest(res, c, A, D), NEW q \in A, NEW r \in Nat, r < c,
           Cardinality({m \in A : D[m] < D[q]}) = r
    PROVE  r + 1 \in 1 .. c /\ res[r + 1] = q
<1>1. r + 1 \in 1 .. c
  OBVIOUS
<1>2. CASE \E k \in 1 .. c : res[k] = q
  <2>1. PICK k \in 1 .. c : res[k] = q
    BY <1>2
  <2>2. Cardinality({m \in A : D[m] < D[res[k]]}) = k - 1
    BY NearerCount
  <2>3. k = r + 1
    BY <2>1, <2>2
  <2> QED BY <1>1, <2>1, <2>3
<1>3. CASE \A k \in 1 .. c : D[res[k]] < D[q]
  <2> DEFINE S == {m \in A : D[m] < D[res[c]]}
             T == {m \in A : D[m] < D[q]}
  <2>1. c \in 1 .. c /\ res[c] \in A
    BY DEF ListsNearest
  <2>2. Cardinality(S) = c - 1
    BY <2>1, NearerCount
  <2>3. D[res[c]] < D[q] /\ D[res[c]] \in Nat /\ D[q] \in Nat /\ \A m \in A : D[m] \in Nat
    BY <1>3, <2>1
  <2>4. IsFiniteSet(S) /\ IsFiniteSet(T)
    <3>1. S \subseteq A /\ T \subseteq A
      OBVIOUS
    <3> QED BY <3>1, FS_Subset
  <2>5. res[c] \notin S /\ S \cup {res[c]} \subseteq T
    BY <2>1, <2>3
  <2> HIDE DEF S
  <2>6. Cardinality(S \cup {res[c]}) = Cardinality(S) + 1
    BY <2>4, <2>5, FS_AddElement
  <2>7. Cardinality(S \cup {res[c]}) <= Cardinality(T)
    <3> HIDE DEF T
    <3> QED BY <2>4, <2>5, FS_Subset
  <2> QED BY <2>2, <2>6, <2>7
<1> QED BY <1>2, <1>3 DEF ListsNearest

\* Distances determine the list.
LEMMA ListIsUnique ==
    ASSUME NEW A, IsFiniteSet(A), NEW D \in [A -> Nat], NEW c \in Nat, NEW s, NEW t,
           ListsNearest(s, c, A, D), ListsNearest(t, c, A, D)
    PROVE  s = t
<1>1. ASSUME NEW i \in 1 .. c PROVE t[i] = s[i]
  <2>1. Cardinality({m \in A : D[m] < D[s[i]]}) = i - 1 /\ s[i] \in A
    <3>1. Cardinality({m \in A : D[m] < D[s[i]]}) = i - 1
      BY NearerCount
    <3> QED BY <3>1 DEF ListsNearest
  <2>2. i - 1 \in Nat /\ i - 1 < c /\ (i - 1) + 1 = i
    OBVIOUS
  <2>3. PICK r \in Nat : r = i - 1
    BY <2>2
  <2>4. t[r + 1] = s[i]
    BY <2>1, <2>2, <2>3, PlaceByCount
  <2> QED BY <2>2, <2>3, <2>4
<1> QED BY <1>1 DEF ListsNearest

\* One member more shifts those behind it by one place.
LEMMA OneMoreShifts ==
    ASSUME NEW A, IsFiniteSet(A), NEW m, m \notin A,
           NEW D \in [A -> Nat], NEW E \in [A \cup {m} -> Nat], \A q \in A : E[q] = D[q],
           NEW n \in Nat, NEW c \in Nat, NEW e \in Nat,
           c = IF n > Cardinality(A) THEN Cardinality(A) ELSE n,
           e = IF n > Cardinality(A \cup {m}) THEN Cardinality(A \cup {m}) ELSE n,
           NEW s, NEW t, ListsNearest(s, e, A \cup {m}, E), ListsNearest(t, c, A, D)
    PROVE  KeepPlaces(s, t, m)
<1> DEFINE B == A \cup {m}
           near(q) == {x \in A : D[x] < D[q]}
<1>1. Cardinality(A) \in Nat /\ Cardinality(B) = Cardinality(A) + 1 /\ IsFiniteSet(B)
  BY FS_CardinalityType, FS_AddElement
<1>2. DOMAIN s = 1 .. e /\ DOMAIN t = 1 .. c
  BY DEF ListsNearest
<1>3. ASSUME NEW i \in 1 .. e, s[i] # m
      PROVE  \E j \in 1 .. c : /\ t[j] = s[i]
                               /\ j = IF m \in {s[k] : k \in 1 .. i - 1} THEN i - 1 ELSE i
  <2>1. s[i] \in A /\ s[i] \in B
    BY <1>3 DEF ListsNearest
  <2>2. PICK q \in A : q = s[i]
    BY <2>1
  <2>3. Cardinality({x \in B : E[x] < E[q]}) = i - 1
    <3>1. E \in [B -> Nat] /\ ListsNearest(s, e, B, E)
      OBVIOUS
    <3> HIDE DEF B
    <3>2. Cardinality({x \in B : E[x] < E[s[i]]}) = i - 1
      BY <3>1, NearerCount
    <3> QED BY <2>2, <3>2
  <2>4. m \in {s[k] : k \in 1 .. i - 1} <=> E[m] < E[q]
    <3>1. ASSUME NEW k \in 1 .. i - 1, s[k] = m PROVE E[m] < E[q]
      <4>1. k \in 1 .. e /\ k < i
        OBVIOUS
      <4>2. E[s[k]] < E[s[i]]
        BY <4>1 DEF ListsNearest
      <4> QED BY <2>2, <3>1, <4>2
    <3>2. ASSUME E[m] < E[q] PROVE \E k \in 1 .. i - 1 : s[k] = m
      <4>1. E[m] \in Nat /\ E[q] \in Nat /\ ~(E[q] < E[m])
        BY <3>2
      <4>2. PICK k \in 1 .. e : s[k] = m
        BY <2>2, <4>1 DEF ListsNearest
      <4>3. \A a, b \in 1 .. e : a < b => E[s[a]] < E[s[b]]
        BY DEF ListsNearest
      <4>4. ~(i < k) /\ i # k
        BY <1>3, <2>2, <4>1, <4>2, <4>3
      <4> QED BY <4>2, <4>4
    <3> QED BY <3>1, <3>2
  <2>5. IsFiniteSet(near(q)) /\ Cardinality(near(q)) \in Nat /\ Cardinality(near(q)) < Cardinality(A)
    <3>1. near(q) \subseteq A /\ q \notin near(q)
      OBVIOUS
    <3>2. near(q) # A
      BY <3>1
    <3> HIDE DEF near
    <3> QED BY <3>1, <3>2, FS_Subset, FS_CardinalityType
  <2>6. m \notin near(q)
    OBVIOUS
  <2>7. {x \in B : E[x] < E[q]} = IF E[m] < E[q] THEN near(q) \cup {m} ELSE near(q)
    OBVIOUS
  <2> HIDE DEF near, B
  <2>8. PICK r \in Nat : r = Cardinality(near(q))
    BY <2>5
  <2>9. i - 1 = IF E[m] < E[q] THEN r + 1 ELSE r
    <3>1. Cardinality(near(q) \cup {m}) = r + 1
      BY <2>5, <2>6, <2>8, FS_AddElement
    <3> QED BY <2>3, <2>7, <2>8, <3>1
  <2>10. r < c
    BY <1>1, <2>5, <2>8, <2>9
  <2>11. r + 1 \in 1 .. c /\ t[r + 1] = q
    BY <2>8, <2>10, PlaceByCount DEF near
  <2>12. r + 1 = IF E[m] < E[q] THEN i - 1 ELSE i
    BY <2>9
  <2> QED BY <2>2, <2>4, <2>11, <2>12
<1> QED BY <1>2, <1>3 DEF KeepPlaces

Owned(m) == {p \in DOMAIN owners : owners[p].id = m}

\* The distance depends on the owned positions only.
LEMMA DistanceFromOwned ==
    ASSUME NEW h, NEW m, Owned(m)' = Owned(m)
    PROVE  Distance(h, m)' = Distance(h, m)
BY DEF Owned, Distance

\* A node whose positions are its own alone takes none from another, if it
\* comes again not even from itself, and gives none up.
LEMMA OthersKeepPositions ==
    ASSUME RingOK, NEW m \in Nodes, Private(m) = Positions(m), NEW q \in Nodes
    PROVE  /\ \A a : AddNode(m, a) /\ (q # m \/ m \in alive) => Owned(q)' = Owned(q)
           /\ RemoveNode(m) /\ q # m => Owned(q)' = Owned(q)
<1>1. \A p \in Owned(q) : q # m => p \notin Positions(m)
  <2>1. \A p \in Owned(q) : p \in Positions(q)
    BY DEF Owned, RingOK, RingMatchesMembers
  <2> QED BY <2>1 DEF Private
<1>2. m \in alive => \A p \in Positions(m) : p \in DOMAIN owners /\ owners[p].id = m
  BY DEF RingOK, RingMatchesMembers
<1>3. ASSUME NEW a, AddNode(m, a), q # m \/ m \in alive PROVE Owned(q)' = Owned(q)
  <2>1. owners' = Mapping(owners, Positions(m), [id |-> m, address |-> a])
    BY <1>3 DEF AddNode
  <2>2. PICK P : P = Positions(m)
    OBVIOUS
  <2>3. /\ DOMAIN owners' = DOMAIN owners \cup P
        /\ \A p \in DOMAIN owners' : owners'[p].id = IF p \in P THEN m ELSE owners[p].id
    BY <2>1, <2>2 DEF Mapping
  <2>4. CASE q # m
    BY <1>1, <2>2, <2>3, <2>4 DEF Owned
  <2>5. CASE q = m
    BY <1>2, <1>3, <2>2, <2>3, <2>5 DEF Owned
  <2> QED BY <2>4, <2>5
<1>4. ASSUME RemoveNode(m), q # m PROVE Owned(q)' = Owned(q)
  <2>1. CASE m \notin DOMAIN nodes
    BY <1>4, <2>1 DEF RemoveNode, Owned
  <2>2. CASE m \in DOMAIN nodes
    <3>1. owners' = Without(owners, Positions(m))
      BY <1>4, <2>2 DEF RemoveNode
    <3>2. PICK P : P = Positions(m)
      OBVIOUS
    <3>3. /\ DOMAIN owners' = DOMAIN owners \ P
          /\ \A p \in DOMAIN owners' : owners'[p] = owners[p]
      BY <3>1, <3>2 DEF Without
    <3> QED BY <1>1, <1>4, <3>2, <3>3 DEF Owned
  <2> QED BY <2>1, <2>2
<1> QED BY <1>3, <1>4

\* What a lookup for n replicas of the key h returns.
LookupOK(h, n) ==
    /\ Distances(h) \in [alive -> Nat]
    /\ Capped(n) \in Nat
    /\ Capped(n) = IF n > Cardinality(alive) THEN Cardinality(alive) ELSE n
    /\ ListsNearest(GetNSuccessors(h, n), Capped(n), alive, Distances(h))

LookupsOK ==
    /\ IsFiniteSet(alive)
    /\ \A h \in Position, n \in 1 .. Cardinality(Nodes) : LookupOK(h, n)

LEMMA LookupsLemma == IInv => LookupsOK
<1> SUFFICES ASSUME IInv PROVE LookupsOK
  OBVIOUS
<1>1. RingOK /\ IsFiniteSet(alive)
  BY NodesFinite, FS_Subset DEF IInv
<1>2. ASSUME NEW h \in Position, NEW n \in 1 .. Cardinality(Nodes) PROVE LookupOK(h, n)
  <2>1. n \in Nat
    BY NodesFinite, FS_CardinalityType
  <2> QED BY <1>1, <2>1, DistancesType, SuccessorsListNearest DEF LookupOK
<1> QED BY <1>1, <1>2 DEF LookupsOK

\* The distances of the members that stay do not change.
LEMMA DistancesKept ==
    ASSUME NEW h, NEW m, \A q \in (alive \cap alive') \ {m} : Owned(q)' = Owned(q)
    PROVE  \A q \in (alive \cap alive') \ {m} : Distances(h)'[q] = Distances(h)[q]
<1>1. ASSUME NEW q \in (alive \cap alive') \ {m} PROVE Distances(h)'[q] = Distances(h)[q]
  <2>1. Distance(h, q)' = Distance(h, q)
    BY DistanceFromOwned
  <2>2. Distances(h)[q] = Distance(h, q)
    BY DEF Distances
  <2>3. Distances(h)'[q] = Distance(h, q)'
    BY DEF Distances
  <2> QED BY <2>1, <2>2, <2>3
<1> QED BY <1>1

LEMMA JoinMoves ==
    ASSUME IInv, LookupsOK, LookupsOK', NEW h \in Position, NEW n \in 1 .. Cardinality(Nodes),
           NEW m \in Nodes, Private(m) = Positions(m), NEW a, NotifyJoin(m, a)
    PROVE  KeepPlaces(GetNSuccessors(h, n)', GetNSuccessors(h, n), m)
<1>1. PICK A, D, c, t : /\ A = alive /\ D = Distances(h) /\ c = Capped(n)
                        /\ t = GetNSuccessors(h, n)
  OBVIOUS
<1>2. PICK E, e, s : E = Distances(h)' /\ e = Capped(n)' /\ s = GetNSuccessors(h, n)'
  OBVIOUS
<1>3. m \notin A /\ alive' = A \cup {m} /\ AddNode(m, a)
  BY <1>1 DEF NotifyJoin
<1>4. /\ IsFiniteSet(A) /\ D \in [A -> Nat] /\ c \in Nat
      /\ c = IF n > Cardinality(A) THEN Cardinality(A) ELSE n
      /\ ListsNearest(t, c, A, D)
  <2>1. LookupOK(h, n) /\ IsFiniteSet(alive)
    BY DEF LookupsOK
  <2> QED BY <1>1, <2>1 DEF LookupOK
<1>5. /\ E \in [A \cup {m} -> Nat] /\ e \in Nat
      /\ e = IF n > Cardinality(A \cup {m}) THEN Cardinality(A \cup {m}) ELSE n
      /\ ListsNearest(s, e, A \cup {m}, E)
  <2>1. LookupOK(h, n)'
    BY DEF LookupsOK
  <2> QED BY <1>2, <1>3, <2>1 DEF LookupOK
<1>6. \A q \in A : E[q] = D[q]
  <2>1. \A q \in A : q \in Nodes /\ q # m
    BY <1>1, <1>3 DEF IInv
  <2>2. \A q \in A : Owned(q)' = Owned(q)
    BY <1>3, <2>1, OthersKeepPositions DEF IInv
  <2>3. (alive \cap alive') \ {m} = A
    BY <1>1, <1>3
  <2>4. \A q \in A : Distances(h)'[q] = Distances(h)[q]
    BY <2>2, <2>3, DistancesKept
  <2> QED BY <1>1, <1>2, <2>4
<1>7. n \in Nat
  BY NodesFinite, FS_CardinalityType
<1>8. KeepPlaces(s, t, m)
  BY <1>3, <1>4, <1>5, <1>6, <1>7, OneMoreShifts
<1> QED BY <1>1, <1>2, <1>8

LEMMA LeaveMoves ==
    ASSUME IInv, LookupsOK, LookupsOK', NEW h \in Position, NEW n \in 1 .. Cardinality(Nodes),
           NEW m \in Nodes, Private(m) = Positions(m), NotifyLeave(m)
    PROVE  KeepPlaces(GetNSuccessors(h, n), GetNSuccessors(h, n)', m)
<1>1. PICK A, D, c, t : /\ A = alive' /\ D = Distances(h)' /\ c = Capped(n)'
                        /\ t = GetNSuccessors(h, n)'
  OBVIOUS
<1>2. PICK E, e, s : E = Distances(h) /\ e = Capped(n) /\ s = GetNSuccessors(h, n)
  OBVIOUS
<1>3. m \notin A /\ alive = A \cup {m} /\ RemoveNode(m)
  BY <1>1 DEF NotifyLeave
<1>4. /\ IsFiniteSet(A) /\ D \in [A -> Nat] /\ c \in Nat
      /\ c = IF n > Cardinality(A) THEN Cardinality(A) ELSE n
      /\ ListsNearest(t, c, A, D)
  <2>1. LookupOK(h, n)' /\ IsFiniteSet(alive')
    BY DEF LookupsOK
  <2> QED BY <1>1, <2>1 DEF LookupOK
<1>5. /\ E \in [A \cup {m} -> Nat] /\ e \in Nat
      /\ e = IF n > Cardinality(A \cup {m}) THEN Cardinality(A \cup {m}) ELSE n
      /\ ListsNearest(s, e, A \cup {m}, E)
  <2>1. LookupOK(h, n)
    BY DEF LookupsOK
  <2> QED BY <1>2, <1>3, <2>1 DEF LookupOK
<1>6. \A q \in A : E[q] = D[q]
  <2>1. \A q \in A : q \in Nodes /\ q # m
    BY <1>3 DEF IInv
  <2>2. \A q \in A : Owned(q)' = Owned(q)
    BY <1>3, <2>1, OthersKeepPositions DEF IInv
  <2>3. (alive \cap alive') \ {m} = A
    BY <1>1, <1>3
  <2>4. \A q \in A : Distances(h)'[q] = Distances(h)[q]
    BY <2>2, <2>3, DistancesKept
  <2> QED BY <1>1, <1>2, <2>4
<1>7. n \in Nat
  BY NodesFinite, FS_CardinalityType
<1>8. KeepPlaces(s, t, m)
  BY <1>3, <1>4, <1>5, <1>6, <1>7, OneMoreShifts
<1> QED BY <1>1, <1>2, <1>8

LEMMA AgainMovesNothing ==
    ASSUME IInv, LookupsOK, LookupsOK', NEW h \in Position, NEW n \in 1 .. Cardinality(Nodes),
           Private(Self) = Positions(Self), NewManager
    PROVE  GetNSuccessors(h, n)' = GetNSuccessors(h, n)
<1>1. PICK A, D, c, t : /\ A = alive /\ D = Distances(h) /\ c = Capped(n)
                        /\ t = GetNSuccessors(h, n)
  OBVIOUS
<1>2. PICK E, e, s : E = Distances(h)' /\ e = Capped(n)' /\ s = GetNSuccessors(h, n)'
  OBVIOUS
<1>3. alive' = A /\ Self \in alive /\ AddNode(Self, nodes[Self].address)
  BY <1>1 DEF NewManager, IInv
<1>4. /\ IsFiniteSet(A) /\ D \in [A -> Nat] /\ c \in Nat
      /\ c = IF n > Cardinality(A) THEN Cardinality(A) ELSE n
      /\ ListsNearest(t, c, A, D)
  <2>1. LookupOK(h, n) /\ IsFiniteSet(alive)
    BY DEF LookupsOK
  <2> QED BY <1>1, <2>1 DEF LookupOK
<1>5. /\ E \in [A -> Nat] /\ e \in Nat
      /\ e = IF n > Cardinality(A) THEN Cardinality(A) ELSE n
      /\ ListsNearest(s, e, A, E)
  <2>1. LookupOK(h, n)'
    BY DEF LookupsOK
  <2> QED BY <1>2, <1>3, <2>1 DEF LookupOK
<1>6. E = D
  <2>1. \A q \in A : q \in Nodes
    BY <1>1 DEF IInv
  <2>2. \A q \in A : Owned(q)' = Owned(q)
    BY <1>3, <2>1, SelfAssumption, OthersKeepPositions DEF IInv
  <2>3. \A q \in A : Distance(h, q)' = Distance(h, q)
    BY <2>2, DistanceFromOwned
  <2>4. \A q \in A : D[q] = Distance(h, q) /\ E[q] = Distance(h, q)'
    BY <1>1, <1>2, <1>3 DEF Distances
  <2> QED BY <1>4, <1>5, <2>3, <2>4
<1>7. s = t
  BY <1>4, <1>5, <1>6, ListIsUnique
<1> QED BY <1>1, <1>2, <1>7

\* The three conjuncts of MinimalMovement for one step.
LEMMA StepMoves ==
    ASSUME IInv, LookupsOK, LookupsOK', [Next]_vars,
           NEW h \in Position, NEW n \in 1 .. Cardinality(Nodes),
           NEW m \in Nodes, Private(m) = Positions(m)
    PROVE  /\ m \in alive' \ alive => KeepPlaces(GetNSuccessors(h, n)', GetNSuccessors(h, n), m)
           /\ m \in alive \ alive' => KeepPlaces(GetNSuccessors(h, n), GetNSuccessors(h, n)', m)
           /\ m = Self /\ alive' = alive => GetNSuccessors(h, n)' = GetNSuccessors(h, n)
<1>1. CASE NewManager
  <2>1. alive' = alive
    BY <1>1 DEF NewManager
  <2> QED BY <1>1, <2>1, AgainMovesNothing
<1>2. ASSUME NEW q \in Nodes \ {Self}, NEW a \in Addresses, NotifyJoin(q, a)
      PROVE  /\ alive' # alive /\ alive \ alive' = {}
             /\ m \in alive' \ alive => KeepPlaces(GetNSuccessors(h, n)', GetNSuccessors(h, n), m)
  <2>1. q \notin alive /\ alive' = alive \cup {q}
    BY <1>2 DEF NotifyJoin
  <2>2. m \in alive' \ alive => m = q
    BY <2>1
  <2> QED BY <1>2, <2>1, <2>2, JoinMoves
<1>3. ASSUME NEW q \in Nodes, NotifyLeave(q)
      PROVE  /\ alive' # alive /\ alive' \ alive = {}
             /\ m \in alive \ alive' => KeepPlaces(GetNSuccessors(h, n), GetNSuccessors(h, n)', m)
  <2>1. q \in alive /\ alive' = alive \ {q}
    BY <1>3 DEF NotifyLeave
  <2>2. m \in alive \ alive' => m = q
    BY <2>1
  <2> QED BY <1>3, <2>1, <2>2, LeaveMoves
<1>4. CASE UNCHANGED vars
  <2>1. alive' = alive /\ GetNSuccessors(h, n)' = GetNSuccessors(h, n)
    BY <1>4 DEF vars, GetNSuccessors, Met, search, Capped, Nth
  <2> QED BY <2>1
<1> QED BY <1>1, <1>2, <1>3, <1>4 DEF Next

LEMMA MovesLemma ==
    IInv /\ LookupsOK /\ LookupsOK' /\ [Next]_vars =>
       \A h \in Position, n \in 1 .. Cardinality(Nodes) :
       \A before \in {GetNSuccessors(h, n)}, after \in {GetNSuccessors(h, n)'} :
       \A m \in {q \in Nodes : Private(q) = Positions(q)} :
            /\ (m \in alive' \ alive) => KeepPlaces(after, before, m)
            /\ (m \in alive \ alive') => KeepPlaces(before, after, m)
            /\ (m = Self /\ alive' = alive) => after = before
BY StepMoves

\* A node that joins, leaves or adds itself again moves the replicas of no key more
\* than it must, for every placement of the nodes and every history.
THEOREM ReplicasMoveLittle == Spec => MinimalMovement
<1>1. Spec => []LookupsOK
  BY LookupsLemma, RingInvariance, PTL
<1> QED BY <1>1, MovesLemma, RingInvariance, PTL DEF Spec, MinimalMovement
=============================================================================
