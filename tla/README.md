# DistributedKV: a TLA+ model of the replicated key-value store

The specifications of this directory model the Go backend of DistributedKV
(`src/backend`): the storage engine of a node, the coordination of replicated
operations, hinted handoff, sessions, anti-entropy, the hash ring with cluster
membership, and vector clocks. TLC checks them on small instances; TLAPS proves
every safety property that TLC finds to hold, for every value of the constants.

## 1. The system

A node is one process (`cmd/server/main.go`). A request enters through the HTTP
handlers, which call the coordinator; the coordinator asks the hash ring for the
replicas of the key, uses its own storage engine for the local one and the REST
API of the others, and leaves a hint for each replica that a Put did not reach.

| component | state | operations | interacts with |
|---|---|---|---|
| storage engine (`pkg/storage`) | `wal.log` and rotated logs, snapshot files, memtable, `w.size`, `writeCount`, `closed` | Open, Put, Get, Delete, Scan, Close, takeSnapshot | called by coordinator, hints, anti-entropy, gRPC |
| coordinator (`pkg/replication/coordinator.go`, `rpc_client.go`) | per call: goroutines, result channel, context | Put, Get, Delete, readRepair | ring, engine, hints, handlers of other nodes |
| hinted handoff (`pkg/replication/hints.go`) | `hints[node]`, records in the engine | Store, Deliver, Start | called by coordinator, calls engine and REST client |
| hash ring (`pkg/hash`) | positions, owners, nodes | AddNode, RemoveNode, GetNSuccessors | changed by membership, read by coordinator, hint loop, anti-entropy |
| membership (`pkg/cluster/membership.go`) | memberlist, event channel | Join, Leave, NotifyJoin, NotifyLeave | ring |
| failure detector (`pkg/cluster/health.go`) | last heartbeat and state per node | RecordHeartbeat, tick | nobody: main does not start it |
| sessions (`pkg/consistency`) | last read and write timestamp per session | GetOrCreate, TrackWrite, TrackRead, reap, the two checks | HTTP handlers |
| anti-entropy (`pkg/sync`) | Merkle tree of the local data | syncAll, syncWithPeer, syncBucket, Build, DiffBuckets | engine, REST API of peers |
| versioning (`pkg/versioning`) | vector clocks | Increment, Merge, Compare, Detect | nobody yet |
| HTTP API (`pkg/api/http`) | none of its own | handlers, middleware | coordinator, sessions, Merkle tree |
| gRPC API (`pkg/api/grpc`) | none of its own | the service is registered by an empty stub | engine |
| CLI, frontend, configuration, metrics | none that the store depends on | | |

What is hard, and what makes each part correct:

- **Storage engine.** Put appends to the log under the log's mutex and then
  updates the memtable under the memtable's; nothing orders the two against
  another writer or against a snapshot, which copies the memtable and reads the
  log's size in two steps. The process may stop anywhere, inside a record too,
  and any file operation may fail. Correct: what was acknowledged is read, and is
  read again after a restart; the newest snapshot survives; Close returns.
- **Coordinator.** A forwarded request is an ordinary client request to the
  replica, which coordinates it again over its own view of the ring. Calls return
  early, cancel what is still running, time out, crash. Correct: an acknowledgement
  means as many engines as the level promises; every call returns; repair reaches
  stale replicas.
- **Hinted handoff.** The list of a peer is read, sent without the lock and
  replaced; the record of a hint is deleted after the hint was sent. Correct: a hint
  is kept until it is delivered or too old, and is delivered once; hints of a peer
  arrive in order; no peer starves.
- **Sessions.** Flags compare timestamps taken at different times on different
  nodes, and handlers read a Session that others change or the reaper drops.
  Correct: a flag that is given can be relied on, and one that is withheld has a
  cause.
- **Anti-entropy.** Two nodes exchange trees that are stale by the time they are
  used, over requests that fail half way or finish late. Correct: the comparison
  finds what differs, a round writes only what it should, differences disappear,
  and the loop does not take its node down.
- **Ring, membership.** A node may be added twice, positions may coincide, events
  are dropped. Correct: replicas are the nearest distinct members, in every order
  of events, and a change moves as little as possible.
- **Versioning.** Correct: clocks order two versions exactly if one was made from
  the other, and conflict detection drops only what is superseded.

`PROJECT.json` lists the hazards at their lines.

## 2. Modules

| module | models | uses |
|---|---|---|
| `StorageEngine` | `engine.go`, `wal.go`, `snapshot.go`, `memtable.go` | |
| `StorageEngineProofs` | its theorems | `StorageEngine` |
| `MCStorage` | its instances for TLC | `StorageEngine` |
| `Coordinator` | `coordinator.go`, `rpc_client.go`, the key-value handlers, membership as seen by one ring | |
| `CoordinatorProofs`, `MCCoordinator` | its theorems and instances | `Coordinator` |
| `Handoff` | what hinted handoff promises of a hint | |
| `HintedHandoff` | `hints.go` | `Handoff` (refined) |
| `HintedHandoffProofs`, `MCHints` | its theorems and instances | `HintedHandoff` |
| `Sessions` | `session.go`, `guarantees.go`, the handlers that use them | |
| `SessionsProofs`, `MCSessions` | its theorems and instances | `Sessions` |
| `AntiEntropy` | `sync.go`, `merkle.go`, HandleMerkle, HandleSyncPush | |
| `AntiEntropyProofs`, `MCAntiEntropy` | its theorems and instances | `AntiEntropy`, `OrderFacts` |
| `Ring` | `ring.go`, `membership.go` | |
| `RingProofs`, `MCRing` | its theorems and instances | `Ring`, `OrderFacts` |
| `Versioning` | `vector_clock.go`, `conflict.go` | |
| `VersioningProofs`, `MCVersioning` | its theorems and instances | `Versioning`, `OrderFacts` |
| `OrderFacts` | lemmas: least and greatest numbers, maximal elements, ranks in a finite total order | |

### StorageEngine

`log` is every record that ever reached a WAL file; positions after `base` are in
the current `wal.log`, the others in files that rotation renamed. A write is named
by its position, and the memtable maps a key to the position it shows. Sizes and
offsets are counted in records. A record that is not wholly on disk is one
position whose `tear` says where the bytes stop: inside the header, exactly after
it, or inside the payload; the three differ in what `io.ReadFull` returns.

A writer has the three steps that other goroutines can come between: the closed
check and the building of the record (`Put`, `Delete`), `WalAppend` under `w.mu`
with the rotation it may begin with, and `Apply`. Rotation, write and fsync errors
are actions of their own. `SnapAll`, `SnapSize`, `SnapCreate`, `SnapRename`,
`SnapPrune` are the steps of takeSnapshot, run by the ticker, by the goroutines
Put spawns and by Close; `e.mu` excludes none of them, since it is only read-locked.
`Crash`, `CrashTorn` and `CrashRotated` stop the process between two steps, inside
the write, and between the rename and the write of a rotation.

`Recovered` is what Open rebuilds: the newest snapshot, then the records from its
offset to the first torn one. If bytes follow a torn record, or the offset is not
the start of a record of this file, headers are read from the middle of
records. What Replay makes of that depends on the bytes: it may stop, return an
error (`OpenFails`), or complete a cut value with later bytes (`Garbage`). The
model allows each. It leaves out that such bytes might happen to parse as a whole
record of another key.

`acked`, `forgotten`, a record's `after` and a snapshot's `applied` and `upto` are
history: no action reads them to decide anything.

### Coordinator

One key, any number of nodes. `calls[c]` is one execution of a handler and of the
coordinator method it runs: its replicas, those whose goroutine still runs
(`waiting`), those that answered without error (`ok`). `Request` is a client's
call; `Send` is the REST request of a goroutine, which starts another call on the
replica, at the default level, over that node's `view`. `Reply` hands its result
back; `Lose` is the error path: refused, lost, timed out, or cancelled because the
handler that made it has returned. A Put's error path leaves a hint. The local
goroutine is not stopped by a cancelled context, so `Local` may run after the call
returned. Put returns at the w-th acknowledgement, Get and Delete when every
goroutine answered. `RepairLocal`, `RepairSend`, `RepairFails` are readRepair.

`view[n]` is the set of nodes in node n's ring, and `Rank` their order from the
key on. memberlist events change one view at a time; `Leave` is the graceful
shutdown of main, which takes the node out of its own ring before it stops the
HTTP server. The size of the ring and the replicas are taken in one step; between
the two lock acquisitions of getReplicas the code could also find the ring just
emptied and return an error.

`ServesREST` says at which nodes the address kept in the ring answers REST
requests. main and membership put the gRPC listen address there, for which the
empty set is the faithful value: then every remote request fails, and a cluster of
two or more cannot reach a quorum. The runs give both nodes an address that
answers, so that the protocol itself is what is checked.

### HintedHandoff

One node. A hint is named by the order in which it was stored; `hints[p]` is
`h.hints[p]`, `disk` the hints that have a record in the engine. Deliver is
`DeliverBegin`, then for each hint `Expire`, `SendError`, or `SendOk` followed by
`DeleteRecord`, and `DeliverEnd`, with `pending` the copy it works on and `remaining`
what it will put back. `Store` and `Restart` may come between any two of them. `sent`
is the hint whose Put succeeded and whose record is not yet deleted; `cut` (history)
the hints that were at that point when the process stopped: their records stay for
good. Errors of the engine are ignored, as in the code. `Restart` empties the map:
nothing reads the records back.

`Handoff` is what becomes of a hint, without lists, copies, locks, records and
errors. A hint accepted for a peer waits; it is sent with success at most once, while
Deliver works for that peer and within `HintTTL`; it is lost only by age, by a
restart, or because it was accepted for the very peer Deliver was busy with. A lost
or sent hint never waits again. `Waiting` maps the state of `HintedHandoff` to it: a
peer's hints are its list, but those of the busy peer are Deliver's `pending` and
`remaining`. `KeepsPromise` is the refinement. It would fail if a list that Deliver
copied earlier could bring back a hint that was sent or had expired, or if a hint
could vanish in a fourth way.

### Sessions

One node's Manager. `heap` holds the Session objects by address: the map and each
running handler have pointers into it, since a handler keeps the object that
GetOrCreate gave it while TrackWrite and TrackRead look the ID up again and may
find another object, or none after the reaper. The coordinator is reduced to its
timestamps: a replica stamps the copy it stores (`StoreCopy`, `StoreElsewhere`)
with its own clock, which is `Skew` ahead of this node's, or behind it by no more
than `Epoch`, this node's clock when it starts. HandlePut is `Begin`,
the copies, `PutReturns` (which takes the session's timestamp) and `TrackWrite`;
HandleGet is `Begin`, `ReadCopy`, `GetReturns` (with the first check),
`CheckMonotonicRead` and `TrackRead`, with steps of others in between. `after`, `end`
and `out` are history.

The timestamps belong to the session, not to a key, as in the code: `FlagsHaveCause`
accepts as the cause of a withheld flag a write or read of any key.
`OwnCopiesFlagged` states what stamping after the write means: a copy that Put
itself stored is never reported as satisfying read-your-writes, unless its
replica's clock is ahead. The comments and the README of the repository say the flag
tells a client that it sees its own write; the finding quotes them.

### AntiEntropy

The nodes' engines, and the syncer of each. Scan returns values without their keys,
and buildLocalTree, the Merkle builder of main and syncBucket all take the value
for the key; values and keys are therefore the same `Strings`. The content of a
bucket stands for its hash. `Build` and `DiffBuckets` are written over the heap of
the code, whose leaves are in the order of the buckets because `numBuckets` is a
power of two (`PowerAssumption`; 1024 in the code). `SyncBegin` builds the local tree
for the whole round;
`Fetch`, `SyncBucket` and the entries of a push (`PushEntry`) are steps of their
own, and after a timeout the peer's handler goes on (`PushLate`).

HandleMerkle wraps its answer in `{"data": ...}` and fetchMerkleTree does not
unwrap it, so what it decodes has no nodes, and the comparison panics
(`FetchWrapped`). As the code is, this is what every peer that answers leads to, and
`sync_panic` shows it. `Flat` names peers that answer with the tree itself; no
server of this repository does. `sync` has one, so that the rest of the round (the
comparison, the push and its failures) can be checked too; the other peer of that
run answers as HandleMerkle does, and its caller goes down and is restarted.
With `Flat = {}`, the repository as it is, no push is ever sent, and `OnlyEchoes` says
that every engine holds just what its own clients wrote. `ServesREST` is as in
`Coordinator`: with the gRPC addresses that main hands to the
syncer every fetch fails, and a round does nothing. The peers are fixed.

### Ring

`ring`, `owners` and `nodes` are the fields of Ring, on a circle of `Circle`
positions; `VirtualNodes` gives each node's positions and may let nodes share
some. memberlist is external: `alive` is what it has announced. It announces the
node itself while NewManager runs (`Init`), and NewManager then adds the node again
(`NewManager`). `Sorted` puts each position at its rank, which is all that sort.Slice
promises; `Filtered` is the loop of RemoveNode. GetNSuccessors is written as the
steps of one turn along the ring at which a node is met first; the loop of the
code has no such bound, and would go on for ever, under the read lock, if all
positions of a member belonged to others. `PrivateAssumption` excludes that.

### Versioning

The package has no state and no caller. The state is every version made of one key:
a writer reads up to two versions, merges their clocks and calls NewVersionedValue.
`past` is the true ancestry, against which clocks and Detect are checked. Two
writes of a node from clocks with the same counter for it get the same counter;
`Reused` names this exception. Copies of one version are Equal, so they are kept or
dropped together, and the second copy is reported as a sibling of the first although
nothing conflicts: conflict.go says otherwise, and the finding quotes it.

## 3. Runs

| run | checks | result |
|---|---|---|
| `storage` | `TypeOK`, `ReadsSeeAcked`, `AccountedLoss`, `OpensUnlessDamaged` | hold; 3.5 million states |
| `storage_close` | `LatestSnapshotKept`, `CloseTerminates` | hold |
| `storage_durable` | `PutDurable` | violated: rotation takes an acknowledged write out of the file Open replays |
| `cluster` | `TypeOK`, `AckedAtTwoNodes`, `ForwardedSuccessNeedsLoneRing`, `RepairNeedsLoneRing` | hold; 0.8 million states |
| `cluster_progress` | `CallsReturn` | holds |
| `cluster_forwarding` | `HealthyPutSucceeds` | violated: healthy replicas wait for each other |
| `hints` | `TypeOK`, `HintsAccounted`, `OvertakenOnlyAfterFailure`, `RecordsUntilDelivered`, `HintsSettle`, `KeepsPromise` | hold |
| `sessions` | `TypeOK`, `OwnCopiesFlagged`, `MonotonicMeansMonotonic`, `FlagsHaveCause` | hold; 3.9 million states |
| `sync` | `TypeOK`, `DiffExact`, `OnlyEchoes` | hold; 0.3 million states |
| `sync_panic` | `SyncerSurvives` | violated: the first answered round ends the process |
| `ring` | `TypeOK`, `RingMatchesMembers`, `SuccessorsAreNearest`, `ChannelTellsMembers`, `MinimalMovement` | hold; 5 thousand states |
| `versions` | `TypeOK`, `DescendantsAfter`, `OnlyDescendantsAfter`, `DetectKeepsEveryWrite` | hold; 10 thousand states |

The violated properties are what a comment of the code says, and the
counterexamples show that the code does otherwise. Where the code falls short of
what a comment says in a way that can be delimited, a passing run checks the exact
extent, with each exception named in the property. These exceptions are
disagreements with the repository's own words too: "findings" in `PROJECT.json`
quotes the line for each.

- `PutDurable` and `AccountedLoss`: recovery loses an acknowledged write by a
  rotation (only `wal.log` is replayed, and snapshot offsets belong to the old file),
  by a snapshot taken between a writer's append and its memtable update, or by a torn
  record that later records follow; in no other way. Each of the three contradicts
  "Put stores key → value durably"; `PutDurable` states that line.
- `OpensUnlessDamaged`: a record cut short at the end of an otherwise sound log is
  skipped, as wal.go says, except one cut exactly after its header, on which Open
  fails.
- `ForwardedSuccessNeedsLoneRing`, `RepairNeedsLoneRing`: why a forwarded request
  cannot succeed between nodes whose rings hold both, and that read repair then never
  has a replica to repair.
- `AckedAtTwoNodes` excepts behaviours in which a node is shutting down: such a node
  is not in its own ring, passes the request back to the node it came from, and the
  answers of two handlers then stand for one engine.
- `HintsAccounted`: a hint stored while Deliver is sending to its peer is dropped
  when Deliver replaces the list, and hints do not survive a restart, although
  hints.go says that they do; nothing else but age drops one.
- `OwnCopiesFlagged`: read_your_write is false for a client's own copy.
- `OnlyEchoes`: all that anti-entropy could ever write is a value under itself as the
  key, and that only at a peer whose tree can be decoded; no key is repaired.
- `DetectKeepsEveryWrite`: siblings may be copies of the winner.

### Bounds

- `storage`: one key, two writers, three records, rotation and snapshot threshold
  at two, one snapshot, records torn in each of the three places, short writes, failing
  fsyncs and rotations, any number of crashes and restarts. Three records are
  enough for a record in the rotated file, a torn one and one after it; two writers
  for every order of append and apply. Keys interact only through the log.
- `storage_close`: one writer, three snapshots (ticker, spawned, final), one file
  kept, so that pruning happens with two others under way; writes of the log and of
  snapshots may fail.
- `storage_durable`: one writer, two keys, three records, rotation at one, neither torn records
  nor errors, so that nothing but the rotation can lose a write.
- `cluster`: two nodes, one client call and two forwarded ones, two hops: a
  request that comes back to its first node. `MaxHops` stands for the 2 s client
  timeout, which no chain outlives; at that depth those waiting may give up.
- `hints`: two peers, two hints, clock to 2 with a TTL of 1, every fault. The
  inductive invariant has been checked with three hints.
- `sessions`: one session, one key, three requests, two replicas of which one is
  ahead by a tick, an `Epoch` of 0, four clock readings, a TTL of one tick, so that the session can
  be dropped and created again beneath a running request. Three requests are a
  finished write or read, one running beside it, and the read that is judged.
- `sync`: two nodes, two keys and the empty value, four buckets, three client
  writes to any node at any time, and any number of rounds, faults and restarts.
- `ring`: four nodes of two positions each on a circle of eight, b and c sharing
  one, six events, a channel of four: long enough for a node to leave and return at
  another address after the other sharer came, and for the channel to overflow.
- `versions`: two nodes, four versions, two timestamps that need not agree with
  the order of the writes, lists of up to three answers (`MaxAnswers`) with
  repetitions.

Symmetry is used over writers and keys, over client calls and forwarded calls
separately, and over the requests of a session, in runs without liveness
properties.

Deadlock is checked in the runs of `AntiEntropy`, whose rounds go on for ever. It is
not checked in the others: the bounds on records, calls, hints, events and versions
end every behaviour.

### Fairness

- `StorageEngine`: weak fairness of the ticker's and the closer's snapshot steps
  and of the steps of Close, since a goroutine that can run does; strong fairness
  of `TickerStops`, since select chooses at random between the ticker and the stop
  channel. No write, tick, crash or restart is promised.
- `Coordinator`: weak fairness of each call's steps: goroutines run and timeouts
  fire. No request, crash or membership change is promised.
- `HintedHandoff`: weak fairness of the loop; strong fairness of reaching a peer
  and of a send. It says that a peer that is tried for ever is at some time in the
  ring and answers, which the code cannot guarantee and "once those nodes recover"
  presupposes. Of a peer that stays away `HintsSettle` says nothing.

Nothing is claimed of the progress of anti-entropy, and its run assumes no fairness.

## 4. Proofs

All theorems are about the specifications above, for all constants that satisfy
their ASSUMEs: no bound is used but as a parameter.

- `StorageEngineProofs`: `TypeCorrect`, `AckedStaysVisible` (`ReadsSeeAcked`),
  `LossAccounted` (`AccountedLoss`), `LatestKept` (`LatestSnapshotKept`),
  `OpensOrDamaged` (`OpensUnlessDamaged`). None is
  inductive alone. `IInv` adds: a record's `after` holds only acknowledged,
  earlier positions, and an acknowledged record is whole (`LogInv`); a writer past
  its append owns a position of the log nobody else owns (`WriterInv`); nothing runs
  in a process that is not running (`QuietInv`); every snapshot, on disk or being
  built, shows no state older than a write in its `applied`, and its `upto` and `at`
  lie within the log and the clock (`SnapInv`). One lemma per
  action preserves it; that the log only grows (`GrowthKeeps`) is used by all.
  `LossIsAccounted` is the argument for recovery: a write that was applied before
  the copy is in the snapshot or replayed after it unless one of the three causes
  holds.
- `CoordinatorProofs`: `CoordinatorTypes`, `AckedWritesAreTwice`
  (`AckedAtTwoNodes`), `ForwardingNeedsLoneRing`. The invariant `CInv` says of every
  call that a forwarded call belongs to the operation of a used caller (`Linked`),
  that it waits for two replicas or found a ring of one node (`LoneOrTwo`), that a
  replica in `ok` executed the operation or two others did (`Counted`), and what a
  successful call implies (`Answered`). `Update` and `Starts`
  reduce every action to a change of one call, or to one new call.
  `RepairWaitsForLoneRing` (`RepairNeedsLoneRing`) needs `RInv`: a call with a
  replica to repair has counted the answer of a node other than its own. That
  answer came from a forwarded call that succeeded, and the earlier theorem applies.
- `HintedHandoffProofs`: `HintTypes`, `HintLossAccounted`, `HintOrder`, `HintRecords`,
  `HandoffRefined` (`KeepsPromise`). `HInv` adds that each list is sorted and the lists
  are disjoint (`Filed`), that Deliver's `remaining` and `pending` account for the list
  of its peer, up to hints stored meanwhile (`Working`), and that a hint that was sent
  is in neither of them nor in another peer's list (`Undelivered`). For the
  refinement, `TakenOut` says what becomes of `Waiting` when Deliver is done with a hint, and `StepImplements` maps each action to one of
  `Handoff` or a stutter; `DeleteRecord` is the stutter.

- `SessionsProofs`: `SessionTypes`, `ReadYourWriteIsLater` (`OwnCopiesFlagged`),
  `MonotonicIsMonotonic` (`MonotonicMeansMonotonic`), `WithheldWithCause`
  (`FlagsHaveCause`). The flags depend on which object a handler looks at. `IInv`
  says that an object belongs to one session (`Owners`), that the map still has a
  handler's object as long as it has not lost the session (`InMap`), that the map's
  object knows of all finished calls it has not lost (`MapTold`) and a handler's
  object of all calls that were over when the handler began (`PointerTold`), also
  after the reaper gave the map another one; and in the other direction that every
  timestamp of an object is that of a finished call of its session
  (`ObjectsCaused`). `Readings` says that no copy is stored at the very reading at
  which a Put ends. Most actions move one handler (`Moves`), or change `out` only
  (`Keeps`).
- `AntiEntropyProofs`: `DiffBucketsExact`, `DiffIsExact` (`DiffExact`), `SyncTypes`,
  `SyncOnlyEchoes` (`OnlyEchoes`). `Build` and `DiffBuckets` are recursive functions.
  That the recursions have solutions is shown by a least-element argument
  (`BuildIsTree`, `DiffBucketsIsDiff`): were there a least node from which on a
  solution exists, and it not the root, there would be one from the node before it.
  The same kind of argument on the depth of a node gives that a differing bucket is
  found (`DiffComplete`), that a listed one differs (`DiffSound`) and the order
  (`DiffIncreasing`), which rests on `LeftIsSmaller`, the only use of
  `PowerAssumption`. Hashes are taken to be free of collisions. `IInv` adds that
  everything stored, being pushed or on its way after a timeout was written by
  some client, that pushes go only to `Flat` nodes (`Fits`), and that a node holds
  finitely many keys.
- `RingProofs`: `RingTypes`, `RingStaysInStep` (`RingMatchesMembers`),
  `ChannelIsComplete` (`ChannelTellsMembers`), `LookupsAreNearest`
  (`SuccessorsAreNearest`), `ReplicasMoveLittle` (`MinimalMovement`). `IInv` is the
  agreement of the three parts, the order of the list, and for the channel the
  number of events it has taken; that the node itself is a member until NewManager
  has returned is what makes its second addition harmless. For lookups: the walk
  from the key goes by growing distance (`WalkGoesOn`) and passes every member
  (`MemberIsMet`), so that the steps at which a node is new are as many as there are
  members (`NewStepsCount`) and list them by distance (`SuccessorsListNearest`).
  `MinimalMovement` follows without looking at lists again: the place of a member is
  the number of nearer ones (`PlaceByCount`), nobody else's positions change hands
  (`OthersKeepPositions`), and one member more shifts those behind it by one
  (`OneMoreShifts`).
- `VersioningProofs`: `VersionTypes`, `MadeFromIsBefore` (`DescendantsAfter`),
  `BeforeIsMadeFrom` (`OnlyDescendantsAfter`), `DetectLosesNothing`
  (`DetectKeepsEveryWrite`). `TypeOK` includes that the writer's own counter is
  positive. `IInv` adds that each counter of a clock was given to a version in its
  past or to itself (`CountsAreWrites`), and that clocks grow along `past`
  (`PastBelow`). Detect keeps the maximal answers; that one lies above every
  answer (`MaximalExists`) needs the list to be finite, nothing else.

The assumptions are those of the modules. Besides the types of the constants they
are: every node has a position that no other has (`PrivateAssumption`), the number
of buckets is a power of two (`PowerAssumption`), no replica's clock is below
zero when this node starts (`SkewAssumption`), the event channel is not unbuffered
(64 in the code). The bounds (`MaxAnswers`, `MaxEvents`, `MaxClock` and the like)
are any numbers.

Induction over data is replaced by minimal counterexamples (`LeastNat`,
`GreatestNat`), since the theorems of the library that take a predicate as a
parameter cannot be instantiated.

The proof of `DiffExact` found an ambiguity of the model: `DiffBuckets` was a CASE
whose guards overlap, where TLA+ leaves open which arm is taken and TLC takes the
first. It now has the order of the `if`s of the code.

Only model-checked: the liveness properties `CloseTerminates`, `CallsReturn` and
`HintsSettle`, which need fairness and ENABLED, outside what the prover handles; and
the three counterexamples. Every other property of the passing
runs is a theorem. The inductive invariants were checked by TLC on the instances of
the runs before they were proved.

## 5. Not modelled

- The memtable's size and entry counters, metrics and logging: nothing reads them
  to decide anything. Scan: it changes no state.
- Read errors of Open other than those of Replay's parsing (a snapshot that cannot
  be decoded, a directory that cannot be made): the node does not start.
- CreatedAt of snapshots and timestamps of writes are taken to be distinct and
  increasing; the code reads the wall clock.
- Engines in `Coordinator` do not lose data; `StorageEngine` says when they do.
- Sessions and coordinator are not composed: `Sessions` takes from the coordinator
  only which copies a Get may return and how they are stamped.
- Hints that are coordinated again by the peer that receives them: `HintedHandoff`
  takes the peer's answer as it comes, and `Coordinator` models such a call as a
  client's.
- The failure detector (`health.go`): main creates none, and nothing reads its
  states. `Manager.Get`, `SetStickyReplica` and `TriggerSync` have no callers.
- gRPC (its service is not registered), HTTP routing and middleware,
  configuration, CLI and frontend. JSON encoding of vector clocks.

## 6. Next

1. Statements across modules: that the replicas `Coordinator` takes from a `view` are
   those `Ring` returns for the same members is argued in this text only.
2. A theorem of `Coordinator` on which engines a read at level ALL or QUORUM
   reflects, with the exceptions that forwarding causes.
3. The steps of the liveness arguments that are safety: which actions decrease
   what, for `HintsSettle` and `CallsReturn`.
4. A repair, or a hint that is applied late, can bring a deleted or overwritten value
   back (the hazards at coordinator.go and hints.go). Only lone rings let a repair
   happen at all, which `RepairNeedsLoneRing` shows; once forwarding is mended this needs
   a property of its own, with hints composed with the coordinator.
5. The memtable and the log order two concurrent writers independently: which of the
   two a restart shows is not compared with what was read before it.
