--------------------------- MODULE HintedHandoff ---------------------------
(***************************************************************************)
(* Hinted handoff of one node (backend/pkg/replication/hints.go): a map    *)
(* from a peer to the hints pending for it, a copy of each hint in the     *)
(* local engine, and one goroutine that delivers them.                     *)
(*                                                                         *)
(* A hint is named by the order in which it was stored, and is a write of  *)
(* the same key as every other: a later hint carries a newer value.  h.mu  *)
(* protects the map but is not held while hints are being sent.            *)
(***************************************************************************)
EXTENDS Integers, Sequences

CONSTANTS
    Peers,      \* nodes that hints are for
    NoPeer,     \* the delivery loop is between two peers
    HintTTL,    \* hintTTL
    Faults,     \* what may go wrong
    MaxHints,   \* bound: hints ever stored
    MaxTime     \* bound: the clock

ASSUME PeersAssumption == NoPeer \notin Peers
ASSUME TTLAssumption == HintTTL \in Nat /\ MaxHints \in Nat /\ MaxTime \in Nat
ASSUME HintFaults == Faults \subseteq {"engine", "network", "membership", "crash"}

VARIABLES
    now,        \* the wall clock
    hints,      \* h.hints: the hints pending for each peer, oldest first
    disk,       \* the hints that have a record in the engine
    todo,       \* nodeIDs: the peers this tick has yet to visit
    cur,        \* the peer Deliver is working for
    pending,    \* Deliver's copy of h.hints[nodeID], from the next hint on
    remaining,  \* the hints it could not deliver
    sent,       \* the delivered hint whose record it has yet to delete, or 0
    last,       \* history: the hint stored last
    delivered,  \* history: hints whose client.Put returned nil
    failed,     \* history: hints for which a client.Put returned an error
    expired,    \* history: hints dropped for their age
    forgotten,  \* history: hints that were in memory when the process stopped
    overlapped, \* history: hints stored for a peer while Deliver was busy with it
    cut,        \* history: hints delivered just before the process stopped
    ioerr       \* history: hints whose record could not be written or deleted

loop    == <<todo, cur, pending, remaining, sent>>
history == <<delivered, failed, expired, forgotten, overlapped, cut, ioerr>>
vars == <<now, hints, disk, todo, cur, pending, remaining, sent, last,
          delivered, failed, expired, forgotten, overlapped, cut, ioerr>>

Hint == [id : Nat \ {0}, at : Nat]     \* at is StoredAt

Ids(s)    == {s[k].id : k \in DOMAIN s}
Elems(s)  == {s[k] : k \in DOMAIN s}
Sorted(s) == \A a, b \in DOMAIN s : a < b => s[a].id < s[b].id
InMemory == UNION {Ids(hints[p]) : p \in Peers}

Init ==
    /\ now = 0 /\ last = 0
    /\ hints = [p \in Peers |-> <<>>] /\ disk = {}
    /\ todo = {} /\ cur = NoPeer /\ pending = <<>> /\ remaining = <<>>
    /\ sent = 0 /\ delivered = {} /\ failed = {} /\ expired = {}
    /\ forgotten = {} /\ overlapped = {} /\ cut = {} /\ ioerr = {}

\* An engine call whose error nobody looks at.
Persist(written, i) ==
    \/ disk' = written /\ UNCHANGED ioerr
    \/ "engine" \in Faults /\ ioerr' = ioerr \cup {i} /\ UNCHANGED disk

\* Mutant of Queue: the newest hint goes first.
QueueFirst(p, h) == [hints EXCEPT ![p] = <<h>> \o @]

Queue(p, h) == [hints EXCEPT ![p] = Append(@, h)]

\* Store, called by the goroutine of a coordinated Put that failed.  It holds
\* the lock throughout: a stop before the record is written is a stop before it.
Store(p) ==
    /\ last < MaxHints
    /\ last' = last + 1
    /\ hints' = Queue(p, [id |-> last + 1, at |-> now])
    /\ Persist(disk \cup {last + 1}, last + 1)
    /\ overlapped' = IF cur = p THEN overlapped \cup {last + 1} ELSE overlapped
    /\ UNCHANGED <<now, loop, delivered, failed, expired, forgotten, cut>>
-----------------------------------------------------------------------------
(***************************************************************************)
(* The delivery loop that Start runs.                                      *)
(***************************************************************************)

TickerFires ==
    /\ cur = NoPeer /\ todo = {}
    /\ todo' = {p \in Peers : hints[p] # <<>>} /\ todo' # {}
    /\ UNCHANGED <<now, hints, disk, cur, pending, remaining, sent, last, history>>

\* getAddress finds no such node in the ring.
SkipPeer(p) ==
    /\ "membership" \in Faults /\ cur = NoPeer /\ p \in todo
    /\ todo' = todo \ {p}
    /\ UNCHANGED <<now, hints, disk, cur, pending, remaining, sent, last, history>>

\* Deliver copies the slice and lets go of the lock.
DeliverBegin(p) ==
    /\ cur = NoPeer /\ p \in todo
    /\ todo' = todo \ {p} /\ cur' = p
    /\ pending' = hints[p] /\ remaining' = <<>>
    /\ UNCHANGED <<now, hints, disk, sent, last, history>>

Stale(h) == now - h.at > HintTTL

\* The next hint of the loop over pending.
Upcoming == sent = 0 /\ pending # <<>> /\ pending' = Tail(pending)

\* A hint is too old: it is left out, and its record stays in the engine.
Expire ==
    /\ Upcoming /\ Stale(Head(pending))
    /\ expired' = expired \cup {Head(pending).id}
    /\ UNCHANGED <<now, hints, disk, todo, cur, remaining, sent, last,
                   delivered, failed, forgotten, overlapped, cut, ioerr>>

\* client.Put returns nil: the peer has the write.
SendOk(i) ==
    /\ Upcoming /\ ~Stale(Head(pending)) /\ Head(pending).id = i
    /\ delivered' = delivered \cup {i} /\ sent' = i
    /\ UNCHANGED <<now, hints, disk, todo, cur, remaining, last,
                   failed, expired, forgotten, overlapped, cut, ioerr>>

\* Mutant of Erased: the record of a delivered hint stays.
ErasedNothing(i) == disk

Erased(i) == disk \ {i}

\* storage.Delete of the record, before Deliver goes on.
DeleteRecord ==
    /\ sent # 0 /\ sent' = 0
    /\ Persist(Erased(sent), sent)
    /\ UNCHANGED <<now, hints, todo, cur, pending, remaining, last,
                   delivered, failed, expired, forgotten, overlapped, cut>>

\* Refused, timed out, or answered with an error; the peer may have the write.
SendError(i) ==
    /\ "network" \in Faults
    /\ Upcoming /\ ~Stale(Head(pending)) /\ Head(pending).id = i
    /\ remaining' = Append(remaining, Head(pending))
    /\ failed' = failed \cup {i}
    /\ UNCHANGED <<now, hints, disk, todo, cur, sent, last,
                   delivered, expired, forgotten, overlapped, cut, ioerr>>

\* Mutants of Left: the hints that failed are not put back; they are put back
\* behind the list as it is; the list stays as it is.
LeftNothing == <<>>
LeftBehind  == hints[cur] \o remaining
LeftAll     == hints[cur]

Left == remaining

\* The list of the peer becomes what is left, whatever it has become since.
DeliverEnd ==
    /\ cur # NoPeer /\ sent = 0 /\ pending = <<>>
    /\ hints' = [hints EXCEPT ![cur] = Left]
    /\ cur' = NoPeer /\ remaining' = <<>>
    /\ UNCHANGED <<now, disk, todo, pending, sent, last, history>>
-----------------------------------------------------------------------------
\* The process stops and starts: nothing reads the records back.
Restart ==
    /\ "crash" \in Faults /\ InMemory # {}
    /\ hints' = [p \in Peers |-> <<>>]
    /\ todo' = {} /\ cur' = NoPeer /\ pending' = <<>> /\ remaining' = <<>> /\ sent' = 0
    /\ forgotten' = forgotten \cup InMemory
    /\ cut' = cut \cup ({sent} \ {0})
    /\ UNCHANGED <<now, disk, last, delivered, failed, expired, overlapped, ioerr>>

PassTime ==
    /\ now < MaxTime /\ now' = now + 1
    /\ UNCHANGED <<hints, disk, loop, last, history>>

LoopStep == \/ TickerFires \/ DeliverEnd \/ Expire \/ DeleteRecord
            \/ \E p \in Peers : DeliverBegin(p)
            \/ \E i \in 1 .. MaxHints : SendOk(i) \/ SendError(i)

Next == \/ LoopStep
        \/ \E p \in Peers : Store(p) \/ SkipPeer(p)
        \/ Restart \/ PassTime

Spec == Init /\ [][Next]_vars

\* The delivery goroutine runs; a peer that is tried again and again is at some
\* time in the ring and answers.
FairSpec == /\ Spec
            /\ WF_vars(LoopStep)
            /\ \A p \in Peers : SF_vars(DeliverBegin(p))
            /\ \A i \in 1 .. MaxHints : SF_vars(SendOk(i))
-----------------------------------------------------------------------------
(***************************************************************************)
(* Properties                                                              *)
(***************************************************************************)

\* Every variable has its type, and Deliver's two critical sections keep the
\* map in order: each list has its hints from the oldest to the newest, none of
\* them twice, and none is on the lists of two peers.
TypeOK ==
    /\ now \in Nat /\ last \in Nat /\ sent \in 0 .. last
    /\ hints \in [Peers -> Seq(Hint)]
    /\ \A p \in Peers : Ids(hints[p]) \subseteq 1 .. last /\ Sorted(hints[p])
    /\ \A p, q \in Peers : p # q => Ids(hints[p]) \cap Ids(hints[q]) = {}
    /\ todo \subseteq Peers /\ cur \in Peers \cup {NoPeer}
    /\ pending \in Seq(Hint) /\ remaining \in Seq(Hint)
    /\ \A S \in {disk, delivered, failed, expired, forgotten, overlapped, cut, ioerr} :
          S \subseteq 1 .. last

\* A hint leaves the map without having been delivered only because it grew too
\* old, because the process stopped, or because it was stored for a peer while
\* Deliver was sending the others and was overwritten when it finished (the
\* unlocked stretch between the two critical sections of Deliver).  The last two
\* are not what hints.go promises of a hint ("so it survives restarts", "delivers
\* them once those nodes recover").
HintsAccounted ==
    1 .. last \subseteq InMemory \cup delivered \cup expired \cup forgotten \cup overlapped

\* A newer hint reaches a peer before an older one, which will then overwrite
\* it with its older value, only if a delivery of the older one failed: Deliver
\* goes on with the next hint after an error and keeps the failed one.
OvertakenOnlyAfterFailure ==
    \A p \in Peers : \A i, j \in Ids(hints[p]) :
        (i < j /\ j \in delivered /\ i \notin delivered) => i \in failed \cup expired

\* As long as the engine reports no error, the records are those of the hints
\* that were not delivered, of the one that was delivered this moment, and of
\* those that were when the process stopped before it had deleted the record.
\* The records of hints dropped by age, a restart or an overwritten list stay
\* for good, and so do those of hints their peers have had.
RecordsUntilDelivered ==
    \A i \in 1 .. last \ ioerr :
        i \in disk <=> (i \notin delivered \/ i = sent \/ i \in cut)

\* Every hint is settled one way or the other: the loop does not stall on a
\* peer that fails, or starve one peer for the others.
HintsSettle ==
    \A i \in 1 .. MaxHints :
        (i <= last) ~> (i \in delivered \cup expired \cup forgotten \cup overlapped)

\* What can still reach a peer: its list, or, once Deliver works for it, only
\* what Deliver copied and has not sent or dropped.
Waiting == [p \in Peers |-> IF p = cur THEN Elems(pending) \cup Elems(remaining)
                            ELSE Elems(hints[p])]

Promise == INSTANCE Handoff WITH accepted <- last, busy <- cur,
                                 waiting <- Waiting, arrived <- delivered

\* The map, Deliver's copy of a list, the hints it keeps and the list it writes
\* back implement module Handoff, through errors, skipped peers and restarts: a
\* hint does not return to the map once it was sent, grew too old or was lost,
\* none is sent twice or too late, and none is lost but in the ways named there.
KeepsPromise == Promise!Spec
=============================================================================
