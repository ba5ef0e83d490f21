------------------------- MODULE AntiEntropyProofs -------------------------
(***************************************************************************)
(* Proofs about AntiEntropy: Build and DiffBuckets, whose recursion is     *)
(* shown to have a solution, list exactly the buckets that differ, and all *)
(* that the sync writes is a value under itself, for any nodes, keys,      *)
(* values and number of buckets that is a power of two.                    *)
(***************************************************************************)
EXTENDS AntiEntropy, OrderFacts, SequenceTheorems

Places == 1 .. 2 * numBuckets - 1

\* What a heap of the hashes of entries is.
IsTree(nodes, entries, from) ==
    nodes = [i \in from .. 2 * numBuckets - 1 |->
                IF i >= numBuckets THEN hashBucket(entries, i - numBuckets)
                ELSE <<nodes[2 * i], nodes[2 * i + 1]>>]

LEMMA BuildIsTree ==
    ASSUME NEW entries
    PROVE  IsTree(Build(entries), entries, 1)
<1> DEFINE S == {m \in 1 .. 2 * numBuckets : \E nodes : IsTree(nodes, entries, m)}
<1>n. numBuckets \in Nat /\ numBuckets >= 1
  BY BucketAssumption
<1>1. 2 * numBuckets \in S
  <2>1. IsTree([i \in {} |-> i], entries, 2 * numBuckets)
    BY <1>n DEF IsTree
  <2> QED BY <1>n, <2>1
<1>2. ASSUME NEW m \in S, m > 1 PROVE m - 1 \in S
  <2>1. PICK nodes : IsTree(nodes, entries, m)
    OBVIOUS
  <2> DEFINE k == m - 1
             more == [i \in k .. 2 * numBuckets - 1 |->
                        IF i >= m THEN nodes[i]
                        ELSE IF i >= numBuckets THEN hashBucket(entries, i - numBuckets)
                        ELSE <<nodes[2 * i], nodes[2 * i + 1]>>]
  <2>2. m \in Nat /\ k \in Nat /\ k >= 1 /\ k < m /\ m <= 2 * numBuckets
    BY <1>n, <1>2
  <2>3. ASSUME NEW i \in k .. 2 * numBuckets - 1, i < numBuckets
        PROVE  more[2 * i] = nodes[2 * i] /\ more[2 * i + 1] = nodes[2 * i + 1]
    <3>1. /\ 2 * i \in k .. 2 * numBuckets - 1 /\ 2 * i >= m
          /\ 2 * i + 1 \in k .. 2 * numBuckets - 1 /\ 2 * i + 1 >= m
      BY <1>n, <2>2, <2>3
    <3>2. \A j \in k .. 2 * numBuckets - 1 : j >= m => more[j] = nodes[j]
      OBVIOUS
    <3> HIDE DEF more
    <3> QED BY <3>1, <3>2
  <2>4. ASSUME NEW i \in m .. 2 * numBuckets - 1
        PROVE  nodes[i] = IF i >= numBuckets THEN hashBucket(entries, i - numBuckets)
                          ELSE <<nodes[2 * i], nodes[2 * i + 1]>>
    BY <2>1 DEF IsTree
  <2>5. ASSUME NEW i \in k .. 2 * numBuckets - 1
        PROVE  more[i] = IF i >= numBuckets THEN hashBucket(entries, i - numBuckets)
                         ELSE <<more[2 * i], more[2 * i + 1]>>
    <3>1. CASE i >= m
      <4>1. i \in m .. 2 * numBuckets - 1 /\ more[i] = nodes[i]
        BY <2>2, <3>1
      <4>2. nodes[i] = IF i >= numBuckets THEN hashBucket(entries, i - numBuckets)
                       ELSE <<nodes[2 * i], nodes[2 * i + 1]>>
        BY <2>4, <4>1
      <4>3. ~(i >= numBuckets) => /\ more[2 * i] = nodes[2 * i]
                                  /\ more[2 * i + 1] = nodes[2 * i + 1]
        <5> HIDE DEF more
        <5> QED BY <1>n, <2>2, <2>3
      <4> HIDE DEF more
      <4> QED BY <4>1, <4>2, <4>3
    <3>2. CASE ~(i >= m)
      <4>1. more[i] = IF i >= numBuckets THEN hashBucket(entries, i - numBuckets)
                      ELSE <<nodes[2 * i], nodes[2 * i + 1]>>
        BY <3>2
      <4> HIDE DEF more
      <4> QED BY <1>n, <2>2, <2>3, <4>1
    <3> QED BY <3>1, <3>2
  <2>6. more = [i \in k .. 2 * numBuckets - 1 |-> more[i]]
    OBVIOUS
  <2> HIDE DEF more
  <2>7. IsTree(more, entries, k)
    BY <2>5, <2>6 DEF IsTree
  <2> QED BY <1>n, <2>2, <2>7
<1>3. 1 \in S
  <2>1. S \in SUBSET Nat
    BY <1>n
  <2>2. PICK m \in S : \A x \in S : m <= x
    <3> HIDE DEF S
    <3> QED BY <1>1, <2>1, LeastNat
  <2>3. m \in Nat /\ m >= 1
    BY <1>n
  <2>4. ~(m > 1)
    <3> HIDE DEF S
    <3> QED BY <1>2, <2>2, <2>3
  <2> QED BY <2>2, <2>3, <2>4
<1>4. PICK nodes : IsTree(nodes, entries, 1)
  BY <1>3
<1> QED BY <1>4 DEF Build, IsTree

-----------------------------------------------------------------------------
(***************************************************************************)
(* DiffBuckets.  Properties of every place of the heap are shown by taking *)
(* the last place at which they fail: its children come after it.          *)
(***************************************************************************)

\* diff gives what diffSubtree finds from each place on from the given one.
IsDiff(diff, mt, other, from) ==
    diff = [i \in from .. 2 * numBuckets - 1 |->
                IF mt[i] = other[i] THEN <<>>
                ELSE IF i >= numBuckets THEN <<i - numBuckets>>
                ELSE diff[2 * i] \o diff[2 * i + 1]]

\* The recursion of diffSubtree has a solution, and DiffBuckets is its value at the root.
LEMMA DiffBucketsIsDiff ==
    ASSUME NEW mt, NEW other
    PROVE  \E diff : IsDiff(diff, mt, other, 1) /\ DiffBuckets(mt, other) = diff[1]
<1> DEFINE S == {m \in 1 .. 2 * numBuckets : \E diff : IsDiff(diff, mt, other, m)}
<1>n. numBuckets \in Nat /\ numBuckets >= 1
  BY BucketAssumption
<1>1. 2 * numBuckets \in S
  <2>1. IsDiff([i \in {} |-> i], mt, other, 2 * numBuckets)
    BY <1>n DEF IsDiff
  <2> QED BY <1>n, <2>1
<1>2. ASSUME NEW m \in S, m > 1 PROVE m - 1 \in S
  <2>1. PICK diff : IsDiff(diff, mt, other, m)
    OBVIOUS
  <2> DEFINE k == m - 1
             At(d, i) == IF mt[i] = other[i] THEN <<>>
                         ELSE IF i >= numBuckets THEN <<i - numBuckets>>
                         ELSE d[2 * i] \o d[2 * i + 1]
             more == [i \in k .. 2 * numBuckets - 1 |-> IF i >= m THEN diff[i] ELSE At(diff, i)]
  <2>2. m \in Nat /\ k \in Nat /\ k >= 1 /\ k < m /\ m <= 2 * numBuckets
    BY <1>n, <1>2
  <2>3. ASSUME NEW i \in k .. 2 * numBuckets - 1
        PROVE  At(more, i) = At(diff, i)
    <3>1. CASE i < numBuckets
      <4>1. /\ 2 * i \in k .. 2 * numBuckets - 1 /\ 2 * i >= m
            /\ 2 * i + 1 \in k .. 2 * numBuckets - 1 /\ 2 * i + 1 >= m
        BY <1>n, <2>2, <3>1
      <4>2. \A j \in k .. 2 * numBuckets - 1 : j >= m => more[j] = diff[j]
        <5> HIDE DEF At
        <5> QED OBVIOUS
      <4>3. more[2 * i] = diff[2 * i] /\ more[2 * i + 1] = diff[2 * i + 1]
        <5> HIDE DEF more
        <5> QED BY <4>1, <4>2
      <4> HIDE DEF more
      <4> QED BY <4>3
    <3>2. CASE ~(i < numBuckets)
      <4>1. i >= numBuckets
        BY <1>n, <2>2, <3>2
      <4> HIDE DEF more
      <4> QED BY <4>1
    <3> QED BY <3>1, <3>2
  <2>4. ASSUME NEW i \in m .. 2 * numBuckets - 1
        PROVE  diff[i] = At(diff, i)
    BY <2>1 DEF IsDiff
  <2>5. ASSUME NEW i \in k .. 2 * numBuckets - 1
        PROVE  more[i] = At(more, i)
    <3>1. more[i] = IF i >= m THEN diff[i] ELSE At(diff, i)
      <4> HIDE DEF At
      <4> QED OBVIOUS
    <3>2. i >= m => i \in m .. 2 * numBuckets - 1
      BY <2>2
    <3> HIDE DEF more, At
    <3> QED BY <2>3, <2>4, <3>1, <3>2
  <2>6. more = [i \in k .. 2 * numBuckets - 1 |-> more[i]]
    OBVIOUS
  <2> HIDE DEF more
  <2>7. IsDiff(more, mt, other, k)
    BY <2>5, <2>6 DEF IsDiff
  <2> QED BY <1>n, <2>2, <2>7
<1>3. 1 \in S
  <2>1. S \in SUBSET Nat
    BY <1>n
  <2>2. PICK m \in S : \A x \in S : m <= x
    <3> HIDE DEF S
    <3> QED BY <1>1, <2>1, LeastNat
  <2>3. m \in Nat /\ m >= 1
    BY <1>n
  <2>4. ~(m > 1)
    <3> HIDE DEF S
    <3> QED BY <1>2, <2>2, <2>3
  <2> QED BY <2>2, <2>3, <2>4
<1>4. PICK diff : IsDiff(diff, mt, other, 1)
  BY <1>3
<1> QED BY <1>4 DEF DiffBuckets, IsDiff

\* The children of an inner place come after it.
LEMMA Children ==
    ASSUME NEW i \in Places, i < numBuckets
    PROVE  /\ 2 * i \in Places /\ 2 * i + 1 \in Places
           /\ i < 2 * i /\ i < 2 * i + 1
BY BucketAssumption DEF Places

LEMMA DiffTypes ==
    ASSUME NEW mt, NEW other, NEW diff, IsDiff(diff, mt, other, 1)
    PROVE  \A i \in Places : diff[i] \in Seq(Bucket)
<1> DEFINE S == {i \in Places : diff[i] \notin Seq(Bucket)}
<1> SUFFICES ASSUME S # {} PROVE FALSE
  OBVIOUS
<1>1. 2 * numBuckets - 1 \in Nat /\ S \in SUBSET (1 .. 2 * numBuckets - 1)
  BY BucketAssumption DEF Places
<1>2. PICK i \in S : \A x \in S : x <= i
  <2> HIDE DEF S
  <2> QED BY <1>1, GreatestNat
<1>3. i \in Places /\ i \in Nat
  BY DEF Places
<1>4. diff[i] = IF mt[i] = other[i] THEN <<>>
                ELSE IF i >= numBuckets THEN <<i - numBuckets>>
                ELSE diff[2 * i] \o diff[2 * i + 1]
  BY <1>3 DEF IsDiff, Places
<1>5. CASE mt[i] = other[i]
  <2>1. diff[i] = <<>>
    BY <1>4, <1>5
  <2>2. diff[i] \in Seq(Bucket)
    BY <2>1
  <2> QED BY <1>2, <2>2
<1>6. CASE mt[i] # other[i] /\ i >= numBuckets
  <2>1. diff[i] = <<i - numBuckets>>
    BY <1>4, <1>6
  <2>2. i - numBuckets \in Bucket
    BY <1>3, <1>6, BucketAssumption DEF Places, Bucket
  <2>3. diff[i] \in Seq(Bucket)
    BY <2>1, <2>2
  <2> QED BY <1>2, <2>3
<1>7. CASE mt[i] # other[i] /\ ~(i >= numBuckets)
  <2>1. diff[i] = diff[2 * i] \o diff[2 * i + 1]
    BY <1>4, <1>7
  <2>2. i < numBuckets
    BY <1>3, <1>7, BucketAssumption
  <2>3. 2 * i \in Places /\ 2 * i + 1 \in Places /\ ~(2 * i <= i) /\ ~(2 * i + 1 <= i)
    BY <1>3, <2>2, Children
  <2>4. diff[2 * i] \in Seq(Bucket) /\ diff[2 * i + 1] \in Seq(Bucket)
    BY <1>2, <2>3
  <2>5. diff[i] \in Seq(Bucket)
    BY <2>1, <2>4, ConcatProperties
  <2> QED BY <1>2, <2>5
<1> QED BY <1>5, <1>6, <1>7

Listed(s) == {s[i] : i \in DOMAIN s}

LEMMA ListedConcat ==
    ASSUME NEW T, NEW s \in Seq(T), NEW t \in Seq(T)
    PROVE  Listed(s \o t) = Listed(s) \cup Listed(t)
<1>1. /\ s \o t \in Seq(T) /\ Len(s \o t) = Len(s) + Len(t)
      /\ \A i \in 1 .. Len(s) + Len(t) : (s \o t)[i] = IF i <= Len(s) THEN s[i] ELSE t[i - Len(s)]
  BY ConcatProperties
<1>2. /\ DOMAIN s = 1 .. Len(s) /\ DOMAIN t = 1 .. Len(t) /\ Len(s) \in Nat /\ Len(t) \in Nat
      /\ DOMAIN (s \o t) = 1 .. Len(s) + Len(t)
  BY <1>1
<1>3. ASSUME NEW i \in 1 .. Len(s) + Len(t) PROVE (s \o t)[i] \in Listed(s) \cup Listed(t)
  <2>1. CASE i <= Len(s)
    <3>1. i \in DOMAIN s /\ (s \o t)[i] = s[i]
      BY <1>1, <1>2, <2>1
    <3> QED BY <3>1 DEF Listed
  <2>2. CASE ~(i <= Len(s))
    <3>1. i - Len(s) \in DOMAIN t /\ (s \o t)[i] = t[i - Len(s)]
      BY <1>1, <1>2, <2>2
    <3> QED BY <3>1 DEF Listed
  <2> QED BY <2>1, <2>2
<1>4. ASSUME NEW i \in DOMAIN s PROVE s[i] \in Listed(s \o t)
  <2>1. i \in DOMAIN (s \o t) /\ (s \o t)[i] = s[i]
    BY <1>1, <1>2
  <2> QED BY <2>1 DEF Listed
<1>5. ASSUME NEW i \in DOMAIN t PROVE t[i] \in Listed(s \o t)
  <2>1. /\ Len(s) + i \in 1 .. Len(s) + Len(t) /\ ~(Len(s) + i <= Len(s))
        /\ (Len(s) + i) - Len(s) = i
    BY <1>2
  <2>2. (s \o t)[Len(s) + i] = t[i]
    BY <1>1, <2>1
  <2> QED BY <1>2, <2>1, <2>2 DEF Listed
<1>6. Listed(s \o t) \subseteq Listed(s) \cup Listed(t)
  BY <1>2, <1>3 DEF Listed
<1>7. Listed(s) \subseteq Listed(s \o t) /\ Listed(t) \subseteq Listed(s \o t)
  BY <1>4, <1>5 DEF Listed
<1> QED BY <1>6, <1>7

\* What is listed at a place.
LEMMA ListedAt ==
    ASSUME NEW mt, NEW other, NEW diff, IsDiff(diff, mt, other, 1), NEW i \in Places
    PROVE  /\ mt[i] = other[i] => Listed(diff[i]) = {}
           /\ mt[i] # other[i] /\ i >= numBuckets => Listed(diff[i]) = {i - numBuckets}
           /\ mt[i] # other[i] /\ i < numBuckets
                => Listed(diff[i]) = Listed(diff[2 * i]) \cup Listed(diff[2 * i + 1])
<1>0. diff[i] = IF mt[i] = other[i] THEN <<>>
                ELSE IF i >= numBuckets THEN <<i - numBuckets>>
                ELSE diff[2 * i] \o diff[2 * i + 1]
  BY DEF IsDiff, Places
<1>n. i \in Nat /\ numBuckets \in Nat
  BY BucketAssumption DEF Places
<1>1. ASSUME mt[i] = other[i] PROVE Listed(diff[i]) = {}
  <2>1. diff[i] = <<>>
    BY <1>0, <1>1
  <2>2. DOMAIN diff[i] = {}
    BY <2>1
  <2> QED BY <2>2 DEF Listed
<1>2. ASSUME mt[i] # other[i], i >= numBuckets PROVE Listed(diff[i]) = {i - numBuckets}
  <2>1. diff[i] = <<i - numBuckets>>
    BY <1>0, <1>2
  <2>2. i - numBuckets \in Int
    BY BucketAssumption DEF Places
  <2>3. ASSUME NEW x PROVE x \in Listed(<<i - numBuckets>>) <=> x = i - numBuckets
    BY <2>2 DEF Listed
  <2> QED BY <2>1, <2>3
<1>3. ASSUME mt[i] # other[i], i < numBuckets
      PROVE  Listed(diff[i]) = Listed(diff[2 * i]) \cup Listed(diff[2 * i + 1])
  <2>1. diff[i] = diff[2 * i] \o diff[2 * i + 1]
    <3>1. ~(i >= numBuckets)
      BY <1>3, <1>n
    <3> QED BY <1>0, <1>3, <3>1
  <2>2. diff[2 * i] \in Seq(Bucket) /\ diff[2 * i + 1] \in Seq(Bucket)
    BY <1>3, Children, DiffTypes
  <2> QED BY <2>1, <2>2, ListedConcat
<1> QED BY <1>1, <1>2, <1>3

\* What a tree is at a place.
LEMMA TreeAt ==
    ASSUME NEW entries, NEW nodes, nodes = Build(entries), NEW i \in Places
    PROVE  /\ i >= numBuckets => nodes[i] = hashBucket(entries, i - numBuckets)
           /\ i < numBuckets => nodes[i] = <<nodes[2 * i], nodes[2 * i + 1]>>
<1>1. IsTree(nodes, entries, 1)
  BY BuildIsTree
<1>2. nodes[i] = IF i >= numBuckets THEN hashBucket(entries, i - numBuckets)
                 ELSE <<nodes[2 * i], nodes[2 * i + 1]>>
  BY <1>1 DEF IsTree, Places
<1>3. i < numBuckets => ~(i >= numBuckets)
  BY BucketAssumption DEF Places
<1> QED BY <1>2, <1>3

\* No differing bucket is missed: it is listed at its leaf, hence the parent of a
\* place that lists it has unequal hashes and lists it too, up to the root.
LEMMA DiffComplete ==
    ASSUME NEW a, NEW b, NEW mt, NEW other, mt = Build(a), other = Build(b),
           NEW diff, IsDiff(diff, mt, other, 1),
           NEW x \in Bucket, hashBucket(a, x) # hashBucket(b, x)
    PROVE  x \in Listed(diff[1])
<1> DEFINE T == {i \in Places : x \in Listed(diff[i])}
<1>n. numBuckets \in Nat /\ numBuckets >= 1 /\ x \in Nat /\ x < numBuckets
  BY BucketAssumption DEF Bucket
<1>1. x + numBuckets \in T
  <2> DEFINE l == x + numBuckets
  <2>1. l \in Places /\ l >= numBuckets /\ l - numBuckets = x
    BY <1>n DEF Places
  <2>2. mt[l] = hashBucket(a, l - numBuckets) /\ other[l] = hashBucket(b, l - numBuckets)
    BY <2>1, TreeAt
  <2>3. mt[l] # other[l]
    BY <2>1, <2>2
  <2> HIDE DEF l
  <2>4. Listed(diff[l]) = {l - numBuckets}
    BY <2>1, <2>3, ListedAt
  <2> QED BY <2>1, <2>4 DEF l
<1>2. ASSUME NEW i \in T, i > 1 PROVE \E p \in T : p < i
  <2>1. i \in Places /\ i \in Nat /\ x \in Listed(diff[i])
    BY DEF Places
  <2>2. PICK p \in Nat : i = 2 * p \/ i = 2 * p + 1
    <3>1. i \div 2 \in Nat /\ (i = 2 * (i \div 2) \/ i = 2 * (i \div 2) + 1)
      BY <2>1
    <3> QED BY <3>1
  <2>3. p \in Places /\ p < numBuckets /\ p < i
    BY <1>n, <1>2, <2>1, <2>2 DEF Places
  <2>4. mt[i] # other[i]
    BY <2>1, ListedAt
  <2>5. mt[p] = <<mt[2 * p], mt[2 * p + 1]>> /\ other[p] = <<other[2 * p], other[2 * p + 1]>>
    BY <2>3, TreeAt
  <2>6. mt[p] # other[p]
    BY <2>2, <2>4, <2>5
  <2>7. Listed(diff[p]) = Listed(diff[2 * p]) \cup Listed(diff[2 * p + 1])
    BY <2>3, <2>6, ListedAt
  <2>8. x \in Listed(diff[p])
    BY <2>1, <2>2, <2>7
  <2> QED BY <2>3, <2>8
<1>3. T \in SUBSET Nat
  BY DEF Places
<1>4. PICK m \in T : \A i \in T : m <= i
  <2> HIDE DEF T
  <2> QED BY <1>1, <1>3, LeastNat
<1>5. m \in Nat /\ m >= 1
  BY DEF Places
<1>6. ~(m > 1)
  <2>1. ASSUME m > 1 PROVE FALSE
    <3>1. PICK p \in T : p < m
      BY <1>2, <2>1
    <3>2. m <= p /\ p \in Nat
      BY <1>3, <1>4
    <3> QED BY <1>5, <3>1, <3>2
  <2> QED BY <2>1
<1>7. m = 1
  BY <1>5, <1>6
<1> QED BY <1>7

\* No equal bucket is listed.
LEMMA DiffSound ==
    ASSUME NEW a, NEW b, NEW mt, NEW other, mt = Build(a), other = Build(b),
           NEW diff, IsDiff(diff, mt, other, 1)
    PROVE  \A i \in Places : \A x \in Listed(diff[i]) :
              x \in Bucket /\ hashBucket(a, x) # hashBucket(b, x)
<1> DEFINE Good(x) == x \in Bucket /\ hashBucket(a, x) # hashBucket(b, x)
           S == {i \in Places : \E x \in Listed(diff[i]) : ~Good(x)}
<1> SUFFICES ASSUME S # {} PROVE FALSE
  OBVIOUS
<1>1. 2 * numBuckets - 1 \in Nat /\ S \in SUBSET (1 .. 2 * numBuckets - 1)
  BY BucketAssumption DEF Places
<1>2. PICK i \in S : \A x \in S : x <= i
  <2> HIDE DEF S
  <2> QED BY <1>1, GreatestNat
<1>3. i \in Places /\ i \in Nat /\ numBuckets \in Nat
  BY BucketAssumption DEF Places
<1>4. PICK x \in Listed(diff[i]) : ~Good(x)
  BY <1>2
<1>5. mt[i] # other[i]
  BY <1>3, <1>4, ListedAt
<1>6. CASE i >= numBuckets
  <2>1. x = i - numBuckets
    BY <1>3, <1>4, <1>5, <1>6, ListedAt
  <2>2. mt[i] = hashBucket(a, x) /\ other[i] = hashBucket(b, x)
    BY <1>3, <1>6, <2>1, TreeAt
  <2>3. x \in Bucket
    BY <1>3, <1>6, <2>1 DEF Places, Bucket
  <2> QED BY <1>4, <1>5, <2>2, <2>3
<1>7. CASE i < numBuckets
  <2>1. 2 * i \in Places /\ 2 * i + 1 \in Places /\ ~(2 * i <= i) /\ ~(2 * i + 1 <= i)
    BY <1>3, <1>7, Children
  <2>2. x \in Listed(diff[2 * i]) \cup Listed(diff[2 * i + 1])
    BY <1>3, <1>4, <1>5, <1>7, ListedAt
  <2>3. 2 * i \notin S /\ 2 * i + 1 \notin S
    BY <1>2, <2>1
  <2> QED BY <1>4, <2>1, <2>2, <2>3
<1> QED BY <1>3, <1>6, <1>7

\* The heap's levels start at the divisors of numBuckets, a power of two: each but
\* the first is twice another, and the leaves are a level.
LevelStarts == {p \in 1 .. numBuckets : Divides(p, numBuckets)}

LEMMA LevelStartsDouble ==
    /\ numBuckets \in LevelStarts
    /\ \A p \in LevelStarts : p > 1 => \E q \in LevelStarts : p = 2 * q
<1>n. numBuckets \in Nat /\ numBuckets >= 1
  BY BucketAssumption
<1>1. numBuckets \in LevelStarts
  <2>1. 1 \in 1 .. numBuckets /\ 1 * numBuckets = numBuckets
    BY <1>n
  <2> QED BY <1>n, <2>1 DEF LevelStarts, Divides
<1>2. ASSUME NEW p \in LevelStarts, p > 1 PROVE \E q \in LevelStarts : p = 2 * q
  <2>1. p \in 2 .. numBuckets /\ Divides(p, numBuckets)
    BY <1>n, <1>2 DEF LevelStarts
  <2>2. p % 2 = 0
    BY <2>1, PowerAssumption
  <2>3. PICK q \in Nat : p = 2 * q
    <3>1. p \div 2 \in Nat /\ p = 2 * (p \div 2)
      BY <1>n, <2>1, <2>2
    <3> QED BY <3>1
  <2>4. PICK r \in 1 .. numBuckets : r * p = numBuckets
    BY <2>1 DEF Divides
  <2>5. q \in 1 .. numBuckets /\ q >= 1
    BY <1>n, <2>1, <2>3
  <2>6. (2 * r) * q = numBuckets
    BY <1>n, <2>3, <2>4
  <2>7. 2 * r <= (2 * r) * q
    BY <1>n, <2>4, <2>5
  <2>8. 2 * r \in 1 .. numBuckets
    BY <1>n, <2>4, <2>6, <2>7
  <2>9. q \in LevelStarts
    BY <2>5, <2>6, <2>8 DEF LevelStarts, Divides
  <2> QED BY <2>3, <2>9
<1> QED BY <1>1, <1>2

\* i is to the left of j on the same level.
LeftOf(i, j) == i < j /\ \A p \in LevelStarts : ~(i < p /\ p <= j)

\* So are the children of i and those of j.
LEMMA ChildrenLeftOf ==
    ASSUME NEW i \in Places, NEW j \in Places, LeftOf(i, j),
           NEW c \in {2 * i, 2 * i + 1}, NEW d \in {2 * j, 2 * j + 1}
    PROVE  LeftOf(c, d)
<1>n. i \in Nat /\ j \in Nat /\ i >= 1 /\ i < j /\ c \in Nat /\ d \in Nat
  BY BucketAssumption DEF Places, LeftOf
<1>1. c < d
  BY <1>n
<1>2. ASSUME NEW p \in LevelStarts, c < p, p <= d PROVE FALSE
  <2>1. p \in Nat /\ p > 1
    BY <1>n, <1>2, BucketAssumption DEF LevelStarts
  <2>2. PICK q \in LevelStarts : p = 2 * q
    BY <2>1, LevelStartsDouble
  <2>3. q \in Nat
    BY BucketAssumption DEF LevelStarts
  <2>4. i < q /\ q <= j
    BY <1>n, <1>2, <2>2, <2>3
  <2> QED BY <2>2, <2>4 DEF LeftOf
<1> QED BY <1>1, <1>2 DEF LeftOf

\* The left child of a place is to the left of its right child.
LEMMA SiblingsLeftOf ==
    ASSUME NEW i \in Places
    PROVE  LeftOf(2 * i, 2 * i + 1)
<1>n. i \in Nat /\ i >= 1
  BY BucketAssumption DEF Places
<1>1. ASSUME NEW p \in LevelStarts, 2 * i < p, p <= 2 * i + 1 PROVE FALSE
  <2>1. p \in Nat /\ p > 1
    BY <1>n, <1>1, BucketAssumption DEF LevelStarts
  <2>2. PICK q \in LevelStarts : p = 2 * q
    BY <2>1, LevelStartsDouble
  <2>3. q \in Nat
    BY BucketAssumption DEF LevelStarts
  <2> QED BY <1>n, <1>1, <2>2, <2>3
<1> QED BY <1>n, <1>1 DEF LeftOf

\* What is listed to the left is smaller.
LEMMA LeftIsSmaller ==
    ASSUME NEW mt, NEW other, NEW diff, IsDiff(diff, mt, other, 1)
    PROVE  \A i, j \in Places : LeftOf(i, j) =>
              \A x \in Listed(diff[i]), y \in Listed(diff[j]) : x < y
<1> DEFINE Less(i, j) == \A x \in Listed(diff[i]), y \in Listed(diff[j]) : x < y
           S == {i \in Places : \E j \in Places : LeftOf(i, j) /\ ~Less(i, j)}
<1> SUFFICES ASSUME S # {} PROVE FALSE
  OBVIOUS
<1>1. 2 * numBuckets - 1 \in Nat /\ S \in SUBSET (1 .. 2 * numBuckets - 1)
  BY BucketAssumption DEF Places
<1>2. PICK i \in S : \A x \in S : x <= i
  <2> HIDE DEF S
  <2> QED BY <1>1, GreatestNat
<1>3. PICK j \in Places : LeftOf(i, j) /\ ~Less(i, j)
  <2> HIDE DEF Less
  <2> QED BY <1>2
<1>4. PICK x \in Listed(diff[i]), y \in Listed(diff[j]) : ~(x < y)
  BY <1>3
<1>5. /\ i \in Places /\ i \in Nat /\ j \in Nat /\ numBuckets \in Nat /\ i < j
      /\ numBuckets \in LevelStarts
  BY <1>2, <1>3, BucketAssumption, LevelStartsDouble DEF Places, LeftOf
<1>6. mt[i] # other[i] /\ mt[j] # other[j]
  <2>1. mt[i] # other[i]
    BY <1>4, <1>5, ListedAt
  <2>2. mt[j] # other[j]
    BY <1>4, <1>5, ListedAt
  <2> QED BY <2>1, <2>2
<1>7. CASE i >= numBuckets
  <2>1. x = i - numBuckets /\ y = j - numBuckets
    <3>1. j >= numBuckets
      BY <1>5, <1>7
    <3>2. Listed(diff[i]) = {i - numBuckets}
      BY <1>5, <1>6, <1>7, ListedAt
    <3>3. Listed(diff[j]) = {j - numBuckets}
      BY <1>5, <1>6, <3>1, ListedAt
    <3> QED BY <1>4, <3>2, <3>3
  <2> QED BY <1>4, <1>5, <2>1
<1>8. CASE i < numBuckets
  <2>1. j < numBuckets
    BY <1>3, <1>5, <1>8 DEF LeftOf
  <2>2. /\ 2 * i \in Places /\ 2 * i + 1 \in Places /\ ~(2 * i <= i) /\ ~(2 * i + 1 <= i)
        /\ 2 * j \in Places /\ 2 * j + 1 \in Places
    BY <1>5, <1>8, <2>1, Children
  <2>3. x \in Listed(diff[2 * i]) \cup Listed(diff[2 * i + 1])
    BY <1>4, <1>5, <1>6, <1>8, ListedAt
  <2>4. y \in Listed(diff[2 * j]) \cup Listed(diff[2 * j + 1])
    BY <1>4, <1>5, <1>6, <2>1, ListedAt
  <2>5. PICK c \in {2 * i, 2 * i + 1} : x \in Listed(diff[c])
    BY <2>3
  <2>6. PICK d \in {2 * j, 2 * j + 1} : y \in Listed(diff[d])
    BY <2>4
  <2>7. LeftOf(c, d)
    BY <1>3, <1>5, ChildrenLeftOf
  <2>8. c \in Places /\ d \in Places /\ ~(c <= i)
    BY <2>2, <2>5, <2>6
  <2>9. Less(c, d)
    <3> HIDE DEF Less
    <3> QED BY <1>2, <2>7, <2>8
  <2> QED BY <1>4, <2>5, <2>6, <2>9
<1> QED BY <1>5, <1>7, <1>8

Increasing(s) == \A i, j \in DOMAIN s : i < j => s[i] < s[j]

LEMMA IncreasingConcat ==
    ASSUME NEW s \in Seq(Bucket), NEW t \in Seq(Bucket), Increasing(s), Increasing(t),
           \A x \in Listed(s), y \in Listed(t) : x < y
    PROVE  Increasing(s \o t)
<1>1. /\ s \o t \in Seq(Bucket) /\ Len(s \o t) = Len(s) + Len(t)
      /\ \A i \in 1 .. Len(s) + Len(t) : (s \o t)[i] = IF i <= Len(s) THEN s[i] ELSE t[i - Len(s)]
  BY ConcatProperties
<1>2. /\ DOMAIN s = 1 .. Len(s) /\ DOMAIN t = 1 .. Len(t) /\ Len(s) \in Nat /\ Len(t) \in Nat
      /\ DOMAIN (s \o t) = 1 .. Len(s) + Len(t)
  BY <1>1
<1> SUFFICES ASSUME NEW i \in 1 .. Len(s) + Len(t), NEW j \in 1 .. Len(s) + Len(t), i < j
             PROVE  (s \o t)[i] < (s \o t)[j]
  BY <1>2 DEF Increasing
<1>3. CASE j <= Len(s)
  <2>1. /\ i <= Len(s) /\ i \in DOMAIN s /\ j \in DOMAIN s
    BY <1>2, <1>3
  <2>2. (s \o t)[i] = s[i] /\ (s \o t)[j] = s[j]
    BY <1>1, <1>3, <2>1
  <2> QED BY <2>1, <2>2 DEF Increasing
<1>4. CASE ~(i <= Len(s))
  <2>1. /\ ~(j <= Len(s)) /\ i - Len(s) \in DOMAIN t /\ j - Len(s) \in DOMAIN t
        /\ i - Len(s) < j - Len(s)
    BY <1>2, <1>4
  <2>2. (s \o t)[i] = t[i - Len(s)] /\ (s \o t)[j] = t[j - Len(s)]
    BY <1>1, <1>4, <2>1
  <2> QED BY <2>1, <2>2 DEF Increasing
<1>5. CASE i <= Len(s) /\ ~(j <= Len(s))
  <2>1. i \in DOMAIN s /\ j - Len(s) \in DOMAIN t
    BY <1>2, <1>5
  <2>2. (s \o t)[i] = s[i] /\ (s \o t)[j] = t[j - Len(s)]
    BY <1>1, <1>5
  <2>3. (s \o t)[i] \in Listed(s) /\ (s \o t)[j] \in Listed(t)
    BY <2>1, <2>2 DEF Listed
  <2> QED BY <2>3
<1> QED BY <1>3, <1>4, <1>5

LEMMA DiffIncreasing ==
    ASSUME NEW mt, NEW other, NEW diff, IsDiff(diff, mt, other, 1)
    PROVE  \A i \in Places : Increasing(diff[i])
<1> DEFINE S == {i \in Places : ~Increasing(diff[i])}
<1> SUFFICES ASSUME S # {} PROVE FALSE
  OBVIOUS
<1>1. 2 * numBuckets - 1 \in Nat /\ S \in SUBSET (1 .. 2 * numBuckets - 1)
  BY BucketAssumption DEF Places
<1>2. PICK i \in S : \A x \in S : x <= i
  <2> HIDE DEF S
  <2> QED BY <1>1, GreatestNat
<1>3. i \in Places /\ i \in Nat
  BY DEF Places
<1>4. diff[i] = IF mt[i] = other[i] THEN <<>>
                ELSE IF i >= numBuckets THEN <<i - numBuckets>>
                ELSE diff[2 * i] \o diff[2 * i + 1]
  BY <1>3 DEF IsDiff, Places
<1>5. CASE mt[i] = other[i]
  <2>1. DOMAIN diff[i] = {}
    BY <1>4, <1>5
  <2>2. Increasing(diff[i])
    BY <2>1 DEF Increasing
  <2> QED BY <1>2, <2>2
<1>6. CASE mt[i] # other[i] /\ i >= numBuckets
  <2>1. diff[i] = <<i - numBuckets>>
    BY <1>4, <1>6
  <2>2. Increasing(diff[i])
    BY <2>1 DEF Increasing
  <2> QED BY <1>2, <2>2
<1>7. CASE mt[i] # other[i] /\ ~(i >= numBuckets)
  <2>1. diff[i] = diff[2 * i] \o diff[2 * i + 1]
    BY <1>4, <1>7
  <2>2. i < numBuckets
    BY <1>3, <1>7, BucketAssumption
  <2>3. 2 * i \in Places /\ 2 * i + 1 \in Places /\ ~(2 * i <= i) /\ ~(2 * i + 1 <= i)
    BY <1>3, <2>2, Children
  <2>4. diff[2 * i] \in Seq(Bucket) /\ diff[2 * i + 1] \in Seq(Bucket)
    BY <2>3, DiffTypes
  <2>5. Increasing(diff[2 * i]) /\ Increasing(diff[2 * i + 1])
    BY <1>2, <2>3
  <2>6. \A x \in Listed(diff[2 * i]), y \in Listed(diff[2 * i + 1]) : x < y
    <3>1. LeftOf(2 * i, 2 * i + 1)
      BY <1>3, SiblingsLeftOf
    <3> QED BY <2>3, <3>1, LeftIsSmaller
  <2>7. Increasing(diff[i])
    BY <2>1, <2>4, <2>5, <2>6, IncreasingConcat
  <2> QED BY <1>2, <2>7
<1> QED BY <1>5, <1>6, <1>7

\* DiffBuckets of two trees lists the buckets whose entries differ, in ascending order.
THEOREM DiffBucketsExact ==
    ASSUME NEW a, NEW b, NEW diffs, diffs = DiffBuckets(Build(a), Build(b))
    PROVE  /\ diffs \in Seq(Bucket)
           /\ {diffs[i] : i \in DOMAIN diffs}
                 = {i \in Bucket : hashBucket(a, i) # hashBucket(b, i)}
           /\ \A i, j \in DOMAIN diffs : i < j => diffs[i] < diffs[j]
<1>1. PICK mt, other : mt = Build(a) /\ other = Build(b)
  OBVIOUS
<1>2. PICK diff : IsDiff(diff, mt, other, 1) /\ diffs = diff[1]
  BY <1>1, DiffBucketsIsDiff
<1>3. 1 \in Places
  BY BucketAssumption DEF Places
<1>4. diffs \in Seq(Bucket) /\ Increasing(diffs)
  BY <1>2, <1>3, DiffTypes, DiffIncreasing
<1>5. \A x \in Listed(diffs) : x \in Bucket /\ hashBucket(a, x) # hashBucket(b, x)
  BY <1>1, <1>2, <1>3, DiffSound
<1>6. \A x \in Bucket : hashBucket(a, x) # hashBucket(b, x) => x \in Listed(diffs)
  BY <1>1, <1>2, DiffComplete
<1>7. Listed(diffs) = {i \in Bucket : hashBucket(a, i) # hashBucket(b, i)}
  BY <1>5, <1>6
<1> QED BY <1>4, <1>7 DEF Listed, Increasing

\* Merkle trees of any two nodes: the descent finds the buckets that differ.
THEOREM DiffIsExact == Spec => []DiffExact
<1>1. DiffExact
  BY DiffBucketsExact DEF DiffExact
<1> QED BY <1>1, PTL

-----------------------------------------------------------------------------
(***************************************************************************)
(* The invariant: whatever a node stores, is pushing, or is still told to  *)
(* store by a push its caller gave up, is a value a client has written; it *)
(* pushes only to nodes whose tree it could decode.                        *)
(***************************************************************************)

Held(n) == {k \in Keys : store[n][k] # None}

StoresOK ==
    /\ store \in [Nodes -> [Keys -> Values]] /\ wrote \in [Nodes -> [Keys -> Values]]
    /\ \A n \in Nodes : IsFiniteSet(Held(n))
    /\ \A n \in Nodes, k \in Keys : store[n][k] \in said \cup {None}
    /\ OnlyEchoes

\* A round pushes what has been written, to a peer whose tree it has decoded.
Fits(rec) == rec.entries \subseteq said /\ (rec.status # "peers" => rec.peer \in Flat)

RoundsOK ==
    /\ round \in [Nodes -> Round \cup {Idle}]
    /\ \A n \in Nodes : round[n] \in Round => Fits(round[n])

LateOK ==
    /\ late \in [Nodes -> SUBSET Strings]
    /\ \A n \in Nodes : late[n] \subseteq said /\ (late[n] # {} => n \in Flat)

IInv ==
    /\ running \subseteq Nodes /\ said \subseteq Strings /\ writes \in Nat
    /\ StoresOK /\ RoundsOK /\ LateOK

\* A round under way is no idle one.
LEMMA UnderWay ==
    ASSUME RoundsOK, NEW n \in Nodes, round[n].status # "idle"
    PROVE  round[n] \in Round /\ Fits(round[n])
BY DEF RoundsOK, Round, Idle

\* The counts of a finite store are numbers.
LEMMA EntriesType ==
    ASSUME StoresOK, NEW n \in Nodes
    PROVE  Entries(store[n]) \in [Strings -> Nat]
<1>1. ASSUME NEW v \in Strings PROVE Cardinality({k \in Keys : store[n][k] = v}) \in Nat
  <2> DEFINE A == {k \in Keys : store[n][k] = v}
             B == Held(n)
  <2>1. A \in SUBSET B
    BY StringsAssumption DEF Held
  <2>2. IsFiniteSet(B)
    BY DEF StoresOK
  <2> HIDE DEF A, B
  <2>3. Cardinality(A) \in Nat
    BY <2>1, <2>2, FS_Subset, FS_CardinalityType
  <2> QED BY <2>3 DEF A
<1> QED BY <1>1 DEF Entries

\* A value that occurs has been written.
LEMMA EntriesSaid ==
    ASSUME StoresOK, NEW n \in Nodes, NEW v \in Strings, Entries(store[n])[v] > 0
    PROVE  v \in said
<1> DEFINE A == {k \in Keys : store[n][k] = v}
<1>1. Cardinality(A) > 0
  BY DEF Entries
<1>2. A # {}
  <2> HIDE DEF A
  <2>1. Cardinality({}) = 0
    BY FS_EmptySet
  <2> QED BY <1>1, <2>1
<1>3. PICK k \in Keys : store[n][k] = v
  BY <1>2
<1> QED BY <1>3, StringsAssumption DEF StoresOK

\* A step of a syncer that changes no engine.
LEMMA RoundStep ==
    ASSUME IInv, NEW n \in Nodes, NEW rec \in Round \cup {Idle},
           rec \in Round => Fits(rec),
           round' = [round EXCEPT ![n] = rec], running' \subseteq Nodes, LateOK',
           UNCHANGED <<store, clients>>
    PROVE  IInv'
<1>1. RoundsOK'
  BY DEF IInv, RoundsOK, Fits, clients
<1>2. StoresOK'
  BY DEF IInv, StoresOK, Held, OnlyEchoes, clients
<1> QED BY <1>1, <1>2 DEF IInv, clients

\* An entry that has been written is put into a node's engine.
LEMMA PushStep ==
    ASSUME IInv, NEW p \in Nodes \cap Flat, NEW v \in said,
           store' = [store EXCEPT ![p] = Pushed(store[p], v)], UNCHANGED clients
    PROVE  StoresOK'
<1>t. /\ store \in [Nodes -> [Keys -> Values]] /\ wrote \in [Nodes -> [Keys -> Values]]
      /\ \A n \in Nodes : IsFiniteSet(Held(n))
      /\ \A n \in Nodes, k \in Keys : store[n][k] \in said \cup {None}
      /\ OnlyEchoes /\ v \in Strings /\ said' = said /\ wrote' = wrote
  BY DEF IInv, StoresOK, clients
<1>1. ASSUME NEW n \in Nodes, NEW k \in Keys
      PROVE  store'[n][k] = IF n = p /\ k = v THEN v ELSE store[n][k]
  BY <1>t DEF Pushed
<1>2. store' \in [Nodes -> [Keys -> Values]]
  BY <1>t DEF Pushed, Values
<1>3. ASSUME NEW n \in Nodes PROVE IsFiniteSet(Held(n)')
  <2> DEFINE A == Held(n)
             B == {k \in Keys : store'[n][k] # None}
  <2>1. B \in SUBSET (A \cup {v})
    BY <1>1 DEF Held
  <2>2. IsFiniteSet(A)
    BY <1>t
  <2> HIDE DEF A
  <2>3. IsFiniteSet(A \cup {v})
    BY <2>2, FS_AddElement
  <2> HIDE DEF B
  <2>4. IsFiniteSet(B)
    BY <2>1, <2>3, FS_Subset
  <2> QED BY <2>4 DEF B, Held
<1>4. \A n \in Nodes, k \in Keys : store'[n][k] \in said \cup {None}
  BY <1>t, <1>1
<1>5. OnlyEchoes'
  BY <1>t, <1>1 DEF OnlyEchoes
<1> QED BY <1>t, <1>2, <1>3, <1>4, <1>5 DEF StoresOK

LEMMA InitOK == Init => IInv
<1> SUFFICES ASSUME Init PROVE IInv
  OBVIOUS
<1>1. \A n \in Nodes : Held(n) = {}
  BY DEF Init, Held
<1>2. IsFiniteSet({})
  BY FS_EmptySet
<1>3. StoresOK
  BY <1>1, <1>2 DEF Init, StoresOK, OnlyEchoes, Values
<1>4. RoundsOK
  BY DEF Init, RoundsOK, Round, Idle
<1> QED BY <1>3, <1>4 DEF Init, IInv, LateOK

LEMMA ClientWriteOK ==
    ASSUME IInv, NEW n \in Clients, NEW k \in Keys, NEW v \in Values, ClientWrite(n, k, v)
    PROVE  IInv'
<1>t. /\ store \in [Nodes -> [Keys -> Values]] /\ wrote \in [Nodes -> [Keys -> Values]]
      /\ \A m \in Nodes : IsFiniteSet(Held(m))
      /\ \A m \in Nodes, j \in Keys : store[m][j] \in said \cup {None}
      /\ OnlyEchoes /\ n \in Nodes
  BY SyncAssumption DEF IInv, StoresOK
<1>a. /\ store' = [store EXCEPT ![n][k] = v] /\ wrote' = [wrote EXCEPT ![n][k] = v]
      /\ said' = said \cup ({v} \ {None}) /\ writes' = writes + 1
      /\ UNCHANGED <<running, round, late>>
  BY DEF ClientWrite
<1>1. ASSUME NEW m \in Nodes, NEW j \in Keys
      PROVE  /\ store'[m][j] = IF m = n /\ j = k THEN v ELSE store[m][j]
             /\ wrote'[m][j] = IF m = n /\ j = k THEN v ELSE wrote[m][j]
  BY <1>t, <1>a
<1>2. store' \in [Nodes -> [Keys -> Values]] /\ wrote' \in [Nodes -> [Keys -> Values]]
  BY <1>t, <1>a
<1>3. ASSUME NEW m \in Nodes PROVE IsFiniteSet(Held(m)')
  <2> DEFINE A == Held(m)
             B == {j \in Keys : store'[m][j] # None}
  <2>1. B \in SUBSET (A \cup {k})
    BY <1>1 DEF Held
  <2>2. IsFiniteSet(A)
    BY <1>t
  <2> HIDE DEF A
  <2>3. IsFiniteSet(A \cup {k})
    BY <2>2, FS_AddElement
  <2> HIDE DEF B
  <2>4. IsFiniteSet(B)
    BY <2>1, <2>3, FS_Subset
  <2> QED BY <2>4 DEF B, Held
<1>4. \A m \in Nodes, j \in Keys : store'[m][j] \in said' \cup {None}
  BY <1>t, <1>a, <1>1
<1>5. OnlyEchoes'
  BY <1>t, <1>a, <1>1 DEF OnlyEchoes
<1>6. StoresOK'
  BY <1>2, <1>3, <1>4, <1>5 DEF StoresOK
<1>7. said \subseteq said' /\ said' \subseteq Strings
  BY <1>a DEF IInv, Values
<1>8. RoundsOK' /\ LateOK'
  BY <1>a, <1>7 DEF IInv, RoundsOK, Fits, LateOK
<1> QED BY <1>a, <1>6, <1>7, <1>8 DEF IInv

LEMMA SyncBeginOK ==
    ASSUME IInv, NEW n \in Nodes, SyncBegin(n)
    PROVE  IInv'
<1> DEFINE rec == [status |-> "peers", peers |-> Nodes \ {n}, tree |-> Entries(store[n]),
                   peer |-> n, diffs |-> <<>>, entries |-> {}]
<1>1. rec \in Round
  <2>1. Entries(store[n]) \in [Strings -> Nat] /\ <<>> \in Seq(Bucket)
    BY EntriesType DEF IInv
  <2> QED BY <2>1 DEF Round
<1>2. Fits(rec)
  BY DEF Fits
<1>3. round' = [round EXCEPT ![n] = rec] /\ UNCHANGED <<store, running, late, clients>>
  BY DEF SyncBegin
<1>4. running' \subseteq Nodes /\ LateOK'
  BY <1>3 DEF IInv, LateOK, clients
<1> HIDE DEF rec
<1> QED BY <1>1, <1>2, <1>3, <1>4, RoundStep

LEMMA SyncEndOK ==
    ASSUME IInv, NEW n \in Nodes, SyncEnd(n)
    PROVE  IInv'
<1>1. Idle \in Round \cup {Idle} /\ Idle \notin Round
  BY DEF Round, Idle
<1>2. round' = [round EXCEPT ![n] = Idle] /\ UNCHANGED <<store, running, late, clients>>
  BY DEF SyncEnd
<1>3. running' \subseteq Nodes /\ LateOK'
  BY <1>2 DEF IInv, LateOK, clients
<1> QED BY <1>1, <1>2, <1>3, RoundStep

LEMMA FetchOK ==
    ASSUME IInv, NEW n \in Nodes, NEW p \in Nodes, Fetch(n, p)
    PROVE  IInv'
<1> DEFINE diffs == DiffBuckets(Build(round[n].tree), HandleMerkle(p))
           rec == [round[n] EXCEPT !.peers = round[n].peers \ {p}, !.peer = p,
                                   !.status = "buckets", !.diffs = diffs]
<1>1. round[n] \in Round /\ Fits(round[n]) /\ p \in Flat
  BY UnderWay DEF IInv, Fetch, In
<1>2. diffs \in Seq(Bucket)
  BY DiffBucketsExact DEF HandleMerkle
<1>3. /\ round' = [round EXCEPT ![n] = rec] /\ UNCHANGED <<store, running, late, clients>>
  BY DEF Fetch, IInv, RoundsOK
<1> HIDE DEF diffs
<1>4. rec \in Round /\ Fits(rec)
  BY <1>1, <1>2 DEF Round, Fits
<1>5. running' \subseteq Nodes /\ LateOK'
  BY <1>3 DEF IInv, LateOK, clients
<1> HIDE DEF rec
<1> QED BY <1>3, <1>4, <1>5, RoundStep

LEMMA FetchWrappedOK ==
    ASSUME IInv, NEW n \in Nodes, NEW p \in Nodes, FetchWrapped(n, p)
    PROVE  IInv'
<1>1. Idle \in Round \cup {Idle} /\ Idle \notin Round
  BY DEF Round, Idle
<1>2. /\ round' = [round EXCEPT ![n] = Idle] /\ running' = running \ {n}
      /\ late' = [late EXCEPT ![n] = {}] /\ UNCHANGED <<store, clients>>
  BY DEF FetchWrapped
<1>3. running' \subseteq Nodes /\ LateOK'
  BY <1>2 DEF IInv, LateOK, clients
<1> QED BY <1>1, <1>2, <1>3, RoundStep

LEMMA FetchFailsOK ==
    ASSUME IInv, NEW n \in Nodes, NEW p \in Nodes, FetchFails(n, p)
    PROVE  IInv'
<1> DEFINE rec == [round[n] EXCEPT !.peers = round[n].peers \ {p}]
<1>1. round[n] \in Round /\ Fits(round[n]) /\ round[n].status = "peers"
  BY UnderWay DEF IInv, FetchFails, In
<1>2. round' = [round EXCEPT ![n] = rec] /\ UNCHANGED <<store, running, late, clients>>
  BY DEF FetchFails, IInv, RoundsOK
<1>3. rec \in Round /\ Fits(rec)
  BY <1>1 DEF Round, Fits
<1>4. running' \subseteq Nodes /\ LateOK'
  BY <1>2 DEF IInv, LateOK, clients
<1> HIDE DEF rec
<1> QED BY <1>2, <1>3, <1>4, RoundStep

LEMMA SyncBucketOK ==
    ASSUME IInv, NEW n \in Nodes, SyncBucket(n)
    PROVE  IInv'
<1> DEFINE entries == {v \in Strings : /\ Entries(store[n])[v] > 0
                                       /\ bucketIndex[v] = Head(round[n].diffs)}
           rec == [round[n] EXCEPT !.diffs = Tail(round[n].diffs), !.status = "push",
                                   !.entries = entries]
<1>1. round[n] \in Round /\ round[n].diffs # <<>> /\ round[n].peer \in Flat
  BY UnderWay DEF IInv, SyncBucket, In, Fits
<1>2. entries \subseteq Strings /\ entries \subseteq said
  BY EntriesSaid DEF IInv
<1>3. round' = [round EXCEPT ![n] = rec] /\ UNCHANGED <<store, running, late, clients>>
  BY DEF SyncBucket, IInv, RoundsOK
<1> HIDE DEF entries
<1>4. Tail(round[n].diffs) \in Seq(Bucket)
  <2>1. round[n].diffs \in Seq(Bucket)
    BY <1>1 DEF Round
  <2> QED BY <1>1, <2>1, HeadTailProperties
<1>5. rec \in Round /\ Fits(rec)
  BY <1>1, <1>2, <1>4 DEF Round, Fits
<1>6. running' \subseteq Nodes /\ LateOK'
  BY <1>3 DEF IInv, LateOK, clients
<1> HIDE DEF rec
<1> QED BY <1>3, <1>5, <1>6, RoundStep

LEMMA PeerDoneOK ==
    ASSUME IInv, NEW n \in Nodes, PeerDone(n)
    PROVE  IInv'
<1> DEFINE rec == [round[n] EXCEPT !.status = "peers"]
<1>1. round[n] \in Round /\ Fits(round[n])
  BY UnderWay DEF IInv, PeerDone, In
<1>2. round' = [round EXCEPT ![n] = rec] /\ UNCHANGED <<store, running, late, clients>>
  BY DEF PeerDone, IInv, RoundsOK
<1>3. rec \in Round /\ Fits(rec)
  BY <1>1 DEF Round, Fits
<1>4. running' \subseteq Nodes /\ LateOK'
  BY <1>2 DEF IInv, LateOK, clients
<1> HIDE DEF rec
<1> QED BY <1>2, <1>3, <1>4, RoundStep

LEMMA PushDoneOK ==
    ASSUME IInv, NEW n \in Nodes, PushDone(n)
    PROVE  IInv'
<1> DEFINE rec == [round[n] EXCEPT !.status = "buckets"]
<1>1. round[n] \in Round /\ Fits(round[n]) /\ round[n].status = "push"
  BY UnderWay DEF IInv, PushDone, In
<1>2. round' = [round EXCEPT ![n] = rec] /\ UNCHANGED <<store, running, late, clients>>
  BY DEF PushDone, IInv, RoundsOK
<1>3. rec \in Round /\ Fits(rec)
  BY <1>1 DEF Round, Fits
<1>4. running' \subseteq Nodes /\ LateOK'
  BY <1>2 DEF IInv, LateOK, clients
<1> HIDE DEF rec
<1> QED BY <1>2, <1>3, <1>4, RoundStep

LEMMA PushFailsOK ==
    ASSUME IInv, NEW n \in Nodes, PushFails(n)
    PROVE  IInv'
<1> DEFINE rec == [round[n] EXCEPT !.entries = {}, !.status = "buckets"]
<1>1. /\ round[n] \in Round /\ round[n].entries \subseteq said
      /\ round[n].entries \subseteq Strings /\ round[n].peer \in Nodes \cap Flat
  BY UnderWay DEF IInv, PushFails, In, Round, Fits
<1>2. round' = [round EXCEPT ![n] = rec] /\ UNCHANGED <<store, running, clients>>
  BY DEF PushFails, IInv, RoundsOK
<1>3. rec \in Round /\ Fits(rec)
  BY <1>1 DEF Round, Fits
<1>4. LateOK'
  <2>1. PICK p, e : p = round[n].peer /\ e = round[n].entries
    OBVIOUS
  <2>2. late' = late \/ late' = [late EXCEPT ![p] = late[p] \cup e]
    BY <2>1 DEF PushFails
  <2>3. p \in Nodes \cap Flat /\ e \subseteq Strings /\ e \subseteq said /\ said' = said
    BY <1>1, <1>2, <2>1 DEF clients
  <2>4. /\ late \in [Nodes -> SUBSET Strings]
        /\ \A m \in Nodes : late[m] \subseteq said /\ (late[m] # {} => m \in Flat)
    BY DEF IInv, LateOK
  <2> QED BY <2>2, <2>3, <2>4 DEF LateOK
<1>5. running' \subseteq Nodes
  BY <1>2 DEF IInv
<1> HIDE DEF rec
<1> QED BY <1>2, <1>3, <1>4, <1>5, RoundStep

LEMMA PushEntryOK ==
    ASSUME IInv, NEW n \in Nodes, NEW v \in Strings, PushEntry(n, v)
    PROVE  IInv'
<1> DEFINE rec == [round[n] EXCEPT !.entries = round[n].entries \ {v}]
<1>1. /\ round[n] \in Round /\ round[n].entries \subseteq said
      /\ v \in round[n].entries /\ round[n].peer \in Nodes \cap Flat
  BY UnderWay DEF IInv, PushEntry, In, Round, Fits
<1>2. /\ round' = [round EXCEPT ![n] = rec] /\ UNCHANGED <<running, late, clients>>
      /\ store' = [store EXCEPT ![round[n].peer] = Pushed(store[round[n].peer], v)]
  BY DEF PushEntry, IInv, RoundsOK
<1>3. rec \in Round /\ Fits(rec)
  BY <1>1 DEF Round, Fits
<1>4. StoresOK'
  <2>1. PICK p : p = round[n].peer
    OBVIOUS
  <2>2. p \in Nodes \cap Flat /\ v \in said /\ store' = [store EXCEPT ![p] = Pushed(store[p], v)]
    BY <1>1, <1>2, <2>1
  <2> QED BY <1>2, <2>2, PushStep
<1> HIDE DEF rec
<1>5. RoundsOK'
  BY <1>2, <1>3 DEF IInv, RoundsOK, Fits, clients
<1> QED BY <1>2, <1>4, <1>5 DEF IInv, LateOK, clients

LEMMA PushLateOK ==
    ASSUME IInv, NEW p \in Nodes, NEW v \in Strings, PushLate(p, v)
    PROVE  IInv'
<1>1. /\ v \in said /\ p \in Flat /\ store' = [store EXCEPT ![p] = Pushed(store[p], v)]
      /\ late' = [late EXCEPT ![p] = late[p] \ {v}] /\ UNCHANGED <<running, round, clients>>
  BY DEF PushLate, IInv, LateOK
<1>2. StoresOK'
  BY <1>1, PushStep
<1>3. LateOK'
  BY <1>1 DEF IInv, LateOK, clients
<1>4. RoundsOK'
  BY <1>1 DEF IInv, RoundsOK, Fits, clients
<1> QED BY <1>1, <1>2, <1>3, <1>4 DEF IInv, clients

LEMMA UnchangedOK == IInv /\ UNCHANGED vars => IInv'
BY DEF IInv, StoresOK, RoundsOK, Fits, LateOK, Held, OnlyEchoes, vars

LEMMA NextOK == IInv /\ [Next]_vars => IInv'
<1> SUFFICES ASSUME IInv, [Next]_vars PROVE IInv'
  OBVIOUS
<1>1. CASE \E n \in Clients, k \in Keys, v \in Values : ClientWrite(n, k, v)
  BY <1>1, ClientWriteOK
<1>2. ASSUME NEW n \in Nodes, SyncStep(n) PROVE IInv'
  BY <1>2, SyncBeginOK, SyncEndOK, FetchOK, FetchWrappedOK, FetchFailsOK, SyncBucketOK,
     PeerDoneOK, PushDoneOK, PushFailsOK, PushEntryOK DEF SyncStep
<1>3. ASSUME NEW n \in Nodes, Restart(n) PROVE IInv'
  BY <1>3 DEF Restart, IInv, StoresOK, RoundsOK, Fits, LateOK, Held, OnlyEchoes, clients
<1>4. CASE \E n \in Nodes, v \in Strings : PushLate(n, v)
  BY <1>4, PushLateOK
<1>5. CASE UNCHANGED vars
  BY <1>5, UnchangedOK
<1> QED BY <1>1, <1>2, <1>3, <1>4, <1>5 DEF Next

\* The invariant holds whatever the number of nodes, keys, values and buckets, with
\* failing networks, peers that cannot be decoded and pushes that outlive their caller.
THEOREM SyncInvariance == Spec => []IInv
<1>1. Init => IInv
  BY InitOK
<1>2. IInv /\ [Next]_vars => IInv'
  BY NextOK
<1> QED BY <1>1, <1>2, PTL DEF Spec

\* Every variable has its type; the differing buckets are bucket numbers and the
\* counts of a scan are numbers.
THEOREM SyncTypes == Spec => []TypeOK
<1>1. IInv => TypeOK
  BY DEF IInv, StoresOK, RoundsOK, LateOK, TypeOK
<1> QED BY <1>1, SyncInvariance, PTL

\* What a node holds for a key is what a client made of it there, or the key itself if
\* the node's tree can be decoded: with HandleMerkle's wrapped answers, nothing but what
\* its own clients wrote.
THEOREM SyncOnlyEchoes == Spec => []OnlyEchoes
<1>1. IInv => OnlyEchoes
  BY DEF IInv, StoresOK
<1> QED BY <1>1, SyncInvariance, PTL
=============================================================================
