---------------------------- MODULE AntiEntropy ----------------------------
(***************************************************************************)
(* Anti-entropy between nodes (backend/pkg/sync, with HandleMerkle and     *)
(* HandleSyncPush of backend/pkg/api/http/handlers.go and the wiring in    *)
(* cmd/server/main.go).  Each node runs a loop that compares a Merkle tree *)
(* of its own data with one fetched from every peer and pushes the buckets *)
(* that differ.                                                            *)
(*                                                                         *)
(* A scan returns values without their keys, and both tree builders and    *)
(* the push take the value for the key: the same strings are therefore     *)
(* values and, once pushed, keys.  SHA-256 is taken to have no collisions: *)
(* the hash of a bucket is its content.                                    *)
(***************************************************************************)
EXTENDS Integers, Sequences, FiniteSets

CONSTANTS
    Nodes,
    Strings,    \* values; those other than Empty are the keys
    Empty,      \* the empty string: a value, but no key
    None,       \* no value
    numBuckets,
    bucketIndex,
    ServesREST, \* nodes whose address in the ring answers REST requests
    Flat,       \* those whose Merkle tree is not wrapped by writeJSON: none of
                \* this repository's servers
    Faults,     \* what may go wrong
    Clients,    \* bound: the nodes that clients write to
    MaxWrites   \* bound: client writes

ASSUME StringsAssumption == Empty \in Strings /\ None \notin Strings
ASSUME BucketAssumption == /\ numBuckets \in Nat \ {0}
                           /\ bucketIndex \in [Strings -> 0 .. numBuckets - 1]

\* numBuckets is a power of two, 1024 in the code: no odd number but 1 divides it.
Divides(d, n) == \E q \in 1 .. n : q * d = n
ASSUME PowerAssumption == \A d \in 2 .. numBuckets : Divides(d, numBuckets) => d % 2 = 0

ASSUME SyncAssumption == /\ Flat \subseteq ServesREST /\ ServesREST \subseteq Nodes
                         /\ Clients \subseteq Nodes
                         /\ Faults \subseteq {"network"} /\ MaxWrites \in Nat

VARIABLES
    store,      \* each node's engine
    running,    \* the nodes whose process runs
    round,      \* the syncer of each node
    late,       \* pushes each node is still executing for callers that gave up
    writes,     \* client writes so far
    wrote,      \* history: what clients last made of each key, on each node
    said        \* history: the values clients have written

vars == <<store, running, round, late, writes, wrote, said>>
clients == <<writes, wrote, said>>

Keys   == Strings \ {Empty}
Values == Strings \cup {None}
Bucket == 0 .. numBuckets - 1

Idle == [status |-> "idle"]
Round == [status : {"peers", "buckets", "push"},
          peers : SUBSET Nodes,       \* peers this round has yet to visit
          tree : [Strings -> Nat],    \* what localTree was built from
          peer : Nodes,
          diffs : Seq(Bucket),        \* buckets yet to be pushed to the peer
          entries : SUBSET Strings]   \* entries of the push under way
-----------------------------------------------------------------------------
\* The entries made of a scan: how often each value occurs.
Entries(s) == [v \in Strings |-> Cardinality({k \in Keys : s[k] = v})]

hashBucket(entries, b) == [v \in {u \in Strings : bucketIndex[u] = b} |-> entries[v]]

\* Build: a heap whose root is 1 and whose leaves are the buckets.
Build(entries) ==
    LET nodes[i \in 1 .. 2 * numBuckets - 1] ==
            IF i >= numBuckets THEN hashBucket(entries, i - numBuckets)
            ELSE <<nodes[2 * i], nodes[2 * i + 1]>>
    IN nodes

\* Mutant of DiffBuckets: a right subtree is visited only if the left one agrees.
DiffBucketsOneSide(mt, other) ==
    LET diff[i \in 1 .. 2 * numBuckets - 1] ==
            IF mt[i] = other[i] THEN <<>>
            ELSE IF i >= numBuckets THEN <<i - numBuckets>>
            ELSE IF mt[2 * i] # other[2 * i] THEN diff[2 * i] ELSE diff[2 * i + 1]
    IN diff[1]

\* Mutant of DiffBuckets: the place of a leaf in the heap is taken for its bucket.
DiffBucketsUnshifted(mt, other) ==
    LET diff[i \in 1 .. 2 * numBuckets - 1] ==
            IF mt[i] = other[i] THEN <<>>
            ELSE IF i >= numBuckets THEN <<i>>
            ELSE diff[2 * i] \o diff[2 * i + 1]
    IN diff[1]

\* DiffBuckets and diffSubtree: down from the root, past equal subtrees.
DiffBuckets(mt, other) ==
    LET diff[i \in 1 .. 2 * numBuckets - 1] ==
            IF mt[i] = other[i] THEN <<>>
            ELSE IF i >= numBuckets THEN <<i - numBuckets>>
            ELSE diff[2 * i] \o diff[2 * i + 1]
    IN diff[1]
-----------------------------------------------------------------------------
Init ==
    /\ store = [n \in Nodes |-> [k \in Keys |-> None]] /\ wrote = store
    /\ running = Nodes /\ round = [n \in Nodes |-> Idle]
    /\ late = [n \in Nodes |-> {}]
    /\ writes = 0 /\ said = {}

\* The node's engine executes a client's Put, or Delete if v is None.
ClientWrite(n, k, v) ==
    /\ writes < MaxWrites /\ writes' = writes + 1
    /\ n \in running
    /\ store' = [store EXCEPT ![n][k] = v]
    /\ wrote' = [wrote EXCEPT ![n][k] = v]
    /\ said' = said \cup ({v} \ {None})
    /\ UNCHANGED <<running, round, late>>

\* syncAll: the local tree is built once, for all the peers.
SyncBegin(n) ==
    /\ n \in running /\ round[n] = Idle
    /\ round' = [round EXCEPT ![n] =
          [status |-> "peers", peers |-> Nodes \ {n}, tree |-> Entries(store[n]),
           peer |-> n, diffs |-> <<>>, entries |-> {}]]
    /\ UNCHANGED <<store, running, late, clients>>

In(n, status) == n \in running /\ round[n].status = status

SyncEnd(n) ==
    /\ In(n, "peers") /\ round[n].peers = {}
    /\ round' = [round EXCEPT ![n] = Idle]
    /\ UNCHANGED <<store, running, late, clients>>

\* The tree that a peer builds of its data when it is asked.
HandleMerkle(p) == Build(Entries(store[p]))

\* syncWithPeer with the tree of a peer whose answer fetchMerkleTree can decode.
\* Equal roots have no differing buckets.
Fetch(n, p) ==
    /\ In(n, "peers") /\ p \in round[n].peers \cap running \cap Flat
    /\ round' = [round EXCEPT
          ![n].peers = @ \ {p}, ![n].peer = p, ![n].status = "buckets",
          ![n].diffs = DiffBuckets(Build(round[n].tree), HandleMerkle(p))]
    /\ UNCHANGED <<store, running, late, clients>>

\* Every field is below the key "data", where fetchMerkleTree does not look: the
\* tree it returns has an empty root and no nodes, and diffSubtree indexes it.
\* A panic in a goroutine ends the process.
FetchWrapped(n, p) ==
    /\ In(n, "peers") /\ p \in (round[n].peers \cap running \cap ServesREST) \ Flat
    /\ running' = running \ {n}
    /\ round' = [round EXCEPT ![n] = Idle] /\ late' = [late EXCEPT ![n] = {}]
    /\ UNCHANGED <<store, clients>>

FetchFails(n, p) ==
    /\ In(n, "peers") /\ p \in round[n].peers
    /\ "network" \in Faults \/ p \notin running \cap ServesREST
    /\ round' = [round EXCEPT ![n].peers = @ \ {p}]
    /\ UNCHANGED <<store, running, late, clients>>

\* syncBucket scans the engine again.
SyncBucket(n) ==
    /\ In(n, "buckets") /\ round[n].diffs # <<>>
    /\ round' = [round EXCEPT
          ![n].diffs = Tail(@), ![n].status = "push",
          ![n].entries = {v \in Strings : /\ Entries(store[n])[v] > 0
                                          /\ bucketIndex[v] = Head(round[n].diffs)}]
    /\ UNCHANGED <<store, running, late, clients>>

PeerDone(n) ==
    /\ In(n, "buckets") /\ round[n].diffs = <<>>
    /\ round' = [round EXCEPT ![n].status = "peers"]
    /\ UNCHANGED <<store, running, late, clients>>

\* Mutant of Pushed: an entry replaces the values equal to it.
PushedOverValue(s, v) == [k \in Keys |-> IF k = v \/ s[k] # None THEN v ELSE s[k]]

\* engine.Put(e.Key, e.Value), where both are the value; an empty key is refused,
\* which is only logged.
Pushed(s, v) == [k \in Keys |-> IF k = v THEN v ELSE s[k]]

\* HandleSyncPush at the peer, one entry after the other.
PushEntry(n, v) ==
    LET p == round[n].peer IN
    /\ In(n, "push") /\ v \in round[n].entries /\ p \in running
    /\ store' = [store EXCEPT ![p] = Pushed(@, v)]
    /\ round' = [round EXCEPT ![n].entries = @ \ {v}]
    /\ UNCHANGED <<running, late, clients>>

PushDone(n) ==
    /\ In(n, "push") /\ round[n].entries = {}
    /\ round' = [round EXCEPT ![n].status = "buckets"]
    /\ UNCHANGED <<store, running, late, clients>>

\* The error is logged, and the next bucket is tried.  If it is a timeout, the
\* handler at the peer goes on with the entries that are left.
PushFails(n) ==
    LET p == round[n].peer IN
    /\ In(n, "push") /\ round[n].entries # {}
    /\ "network" \in Faults \/ p \notin running \cap ServesREST
    /\ round' = [round EXCEPT ![n].entries = {}, ![n].status = "buckets"]
    /\ \/ UNCHANGED late
       \/ p \in running /\ late' = [late EXCEPT ![p] = @ \cup round[n].entries]
    /\ UNCHANGED <<store, running, clients>>

PushLate(p, v) ==
    /\ p \in running /\ v \in late[p]
    /\ store' = [store EXCEPT ![p] = Pushed(@, v)]
    /\ late' = [late EXCEPT ![p] = @ \ {v}]
    /\ UNCHANGED <<running, round, clients>>

\* A process that panicked is started again, and recovers its engine's data.
Restart(n) ==
    /\ n \notin running /\ running' = running \cup {n}
    /\ UNCHANGED <<store, round, late, clients>>

SyncStep(n) ==
    \/ SyncBegin(n) \/ SyncEnd(n) \/ SyncBucket(n) \/ PeerDone(n)
    \/ PushDone(n) \/ PushFails(n)
    \/ \E p \in Nodes : Fetch(n, p) \/ FetchWrapped(n, p) \/ FetchFails(n, p)
    \/ \E v \in Strings : PushEntry(n, v)

Next ==
    \/ \E n \in Clients, k \in Keys, v \in Values : ClientWrite(n, k, v)
    \/ \E n \in Nodes : SyncStep(n) \/ Restart(n) \/ \E v \in Strings : PushLate(n, v)

Spec == Init /\ [][Next]_vars
-----------------------------------------------------------------------------
(***************************************************************************)
(* Properties                                                              *)
(***************************************************************************)

\* Every variable has its type.
TypeOK ==
    /\ store \in [Nodes -> [Keys -> Values]] /\ wrote \in [Nodes -> [Keys -> Values]]
    /\ running \subseteq Nodes /\ said \subseteq Strings /\ writes \in Nat
    /\ round \in [Nodes -> Round \cup {Idle}] /\ late \in [Nodes -> SUBSET Strings]

\* Descending from the root finds each bucket that differs, once and in order,
\* and no other, though it compares inner nodes and skips equal subtrees.
DiffExact ==
    \A m, n \in Nodes :
        LET a == Entries(store[m])
            b == Entries(store[n])
            diffs == DiffBuckets(Build(a), Build(b))
        IN /\ {diffs[i] : i \in DOMAIN diffs}
                 = {i \in Bucket : hashBucket(a, i) # hashBucket(b, i)}
           /\ \A i, j \in DOMAIN diffs : i < j => diffs[i] < diffs[j]

\* Anti-entropy never repairs a key: what a node holds for a key is what a client
\* last made of it at this very node; only if its tree can be decoded may it be the
\* key itself instead, pushed by a node that held it as a value.  HandleMerkle
\* always wraps its answer, so of the servers built from this repository no node is
\* in Flat, and their engines hold what clients wrote there and nothing else,
\* though the README names Merkle anti-entropy among the "three things" that keep a
\* stale replica in sync.
OnlyEchoes ==
    \A n \in Nodes, k \in Keys :
        store[n][k] = wrote[n][k] \/ (n \in Flat /\ store[n][k] = k /\ k \in said)

\* sync.go: "AntiEntropy runs in the background and periodically compares the
\* local storage against each remote peer": it does not end the process.
SyncerSurvives == running = Nodes
=============================================================================
