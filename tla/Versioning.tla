----------------------------- MODULE Versioning -----------------------------
(***************************************************************************)
(* Vector clocks and conflict detection (backend/pkg/versioning).  The     *)
(* package keeps no state of its own and the server does not call it yet:  *)
(* the state here is the versions its callers have made of one key, each   *)
(* from the versions its writer had read.                                  *)
(***************************************************************************)
EXTENDS Integers, Sequences, FiniteSets

CONSTANTS
    Nodes,
    MaxVersions,    \* bound: versions made
    MaxTime,        \* bound: timestamps; the clocks of nodes need not agree
    MaxAnswers      \* bound: versions that Detect is given

ASSUME VersionBounds == {MaxVersions, MaxTime, MaxAnswers} \subseteq Nat

VARIABLES
    versions,   \* the VersionedValues made so far
    past        \* history: the versions that each one was made from, directly or not

vars == <<versions, past>>

VectorClock == [Nodes -> Nat]      \* a node that is not in the map counts 0
VersionedValue == [VectorClock : VectorClock, Timestamp : Nat, NodeID : Nodes]
-----------------------------------------------------------------------------
New == [n \in Nodes |-> 0]

\* Mutant of Increment: the copy is incremented and the receiver returned.
IncrementLost(vc, n) == vc

\* Mutant of Increment: the counter of every node grows.
IncrementAll(vc, n) == [m \in Nodes |-> vc[m] + 1]

Increment(vc, n) == [vc EXCEPT ![n] = @ + 1]

\* Mutant of Merge: the other clock wins where it is behind.
MergeOther(vc, other) == [n \in Nodes |-> IF other[n] > 0 THEN other[n] ELSE vc[n]]

Merge(vc, other) == [n \in Nodes |-> IF other[n] > vc[n] THEN other[n] ELSE vc[n]]

Compare(vc, other) ==
    LET vcLessOther == \E n \in Nodes : vc[n] < other[n]
        otherLessVC == \E n \in Nodes : other[n] < vc[n]
    IN CASE ~vcLessOther /\ ~otherLessVC -> "Equal"
         [] vcLessOther /\ ~otherLessVC  -> "Before"
         [] ~vcLessOther /\ otherLessVC  -> "After"
         [] OTHER -> "Concurrent"

\* NewVersionedValue, by a writer that merged the clocks of the versions i and j
\* it had read: one version if they are the same, and none if i is 0.
Write(n, i, j, ts) ==
    LET Clock(k) == IF k = 0 THEN New ELSE versions[k].VectorClock
        Read == {i, j} \ {0}
    IN /\ Len(versions) < MaxVersions
       /\ versions' = Append(versions,
                        [VectorClock |-> Increment(Merge(Clock(i), Clock(j)), n),
                         Timestamp |-> ts, NodeID |-> n])
       /\ past' = Append(past, Read \cup UNION {past[k] : k \in Read})

Init == versions = <<>> /\ past = <<>>

Next == \E n \in Nodes, i \in 0 .. Len(versions), ts \in 1 .. MaxTime :
            \E j \in 0 .. i : Write(n, i, j, ts)

Spec == Init /\ [][Next]_vars
-----------------------------------------------------------------------------
(***************************************************************************)
(* Detect, for a list of versions that replicas answered with.  Two        *)
(* replicas may answer with the same version, as different pointers: what  *)
(* is kept or dropped is a place in the list.                              *)
(***************************************************************************)

Ordering(i, j) == Compare(versions[i].VectorClock, versions[j].VectorClock)

\* Mutant of heads: the versions that others were made from.
headsSwapped(list) == {p \in DOMAIN list :
                   \A q \in DOMAIN list \ {p} : Ordering(list[p], list[q]) # "After"}

heads(list) == {p \in DOMAIN list :
                   \A q \in DOMAIN list \ {p} : Ordering(list[p], list[q]) # "Before"}

\* lwwResolve: the highest timestamp, and the first of several.
lwwResolve(list, S) ==
    LET TS(p) == versions[list[p]].Timestamp
    IN CHOOSE p \in S : \A q \in S : TS(q) <= TS(p) /\ (TS(q) = TS(p) => p <= q)

Detect(list) == LET winner == lwwResolve(list, heads(list))
                IN [winner |-> winner, siblings |-> heads(list) \ {winner}]

\* The lists that replicas may answer with.
Answers == UNION {[1 .. k -> DOMAIN versions] : k \in 1 .. MaxAnswers}

-----------------------------------------------------------------------------
(***************************************************************************)
(* Properties                                                              *)
(***************************************************************************)

\* Every variable has its type, a version is made from earlier ones, and its clock
\* counts its own write (NewVersionedValue: "an already-incremented clock").
TypeOK ==
    /\ versions \in Seq(VersionedValue)
    /\ past \in Seq(SUBSET Nat) /\ Len(past) = Len(versions)
    /\ \A i \in DOMAIN past : past[i] \subseteq 1 .. i - 1
    /\ \A i \in DOMAIN versions : versions[i].VectorClock[versions[i].NodeID] > 0

\* A version's clock is after those of all the versions it was made from, however
\* many merges lie between.
DescendantsAfter == \A j \in DOMAIN past : \A i \in past[j] : Ordering(i, j) = "Before"

\* The write of a version: who made it, as the how-manieth of its writes.
Dot(i) == <<versions[i].NodeID, versions[i].VectorClock[versions[i].NodeID]>>

Reused(i) == \E k \in DOMAIN versions \ {i} : Dot(k) = Dot(i)

\* Clocks order two versions only if one was made from the other.  The exception
\* is a node that wrote twice from clocks with the same counter for it: Increment
\* then gives the same counter to two writes, which nothing in the package
\* prevents, and a later version can hide the one it never saw.
OnlyDescendantsAfter ==
    \A i, j \in DOMAIN versions : Ordering(i, j) = "Before" => i \in past[j] \/ Reused(i)

\* Detect loses no write, whatever the timestamps say: each version it was given is
\* the winner or a sibling, or one of those was made from it (or its counter was
\* reused).  Of what it keeps, none is ordered after another.  And it tells places
\* of the list apart, not versions: the copies of one version that several replicas
\* answered with are kept or dropped together, so replicas that agree give the
\* winner its own copies as siblings, though conflict.go calls siblings "versions
\* concurrent with winner (non-nil means conflict)".
DetectKeepsEveryWrite ==
    \A list \in Answers :
        LET d == Detect(list)
            kept == {d.winner} \cup d.siblings
        IN /\ \A p \in DOMAIN list \ kept :
                 Reused(list[p]) \/ \E q \in kept : list[p] \in past[list[q]]
           /\ \A p, q \in kept : Ordering(list[p], list[q]) \notin {"Before", "After"}
           /\ \A p, q \in DOMAIN list : list[p] = list[q] => (p \in kept <=> q \in kept)
=============================================================================
