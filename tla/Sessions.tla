------------------------------ MODULE Sessions ------------------------------
(***************************************************************************)
(* Session guarantees of one node (backend/pkg/consistency, with HandlePut *)
(* and HandleGet of backend/pkg/api/http/handlers.go): the Manager's map   *)
(* of Session objects, the handlers that use it, and the reaper.           *)
(*                                                                         *)
(* A handler keeps a pointer to the Session that GetOrCreate gave it and   *)
(* reads it without the manager's lock; TrackWrite and TrackRead look the  *)
(* session up again by its ID, and may find another object or none.  The   *)
(* coordinator below is reduced to what its timestamps are: the copy that  *)
(* a replica stores is stamped by that replica, when it stores it.         *)
(***************************************************************************)
EXTENDS Integers, Sequences

CONSTANTS
    Ids,        \* session IDs clients send
    Keys,
    Replicas,   \* nodes that hold the keys
    Skew,       \* how far a replica's clock is ahead of this node's
    Calls,      \* bound: identities of requests, each used once
    TTL,        \* sessionTTL
    Epoch,      \* this node's clock when it starts
    MaxClock    \* bound: clock readings

\* No node's clock is before 1970: UnixNano is never negative.
ASSUME SkewAssumption == /\ Skew \in [Replicas -> Int] /\ Epoch \in Nat
                         /\ \A r \in Replicas : Epoch + Skew[r] >= 0
ASSUME SessionBounds == TTL \in Nat /\ MaxClock \in Nat

VARIABLES
    clock,      \* this node's clock; no two readings are equal
    heap,       \* the Session objects, by address
    sessions,   \* m.sessions: the address of the object of an ID, 0 for none
    store,      \* when each replica stored its copy of a key, 0 for never
    calls       \* the handlers

vars == <<clock, heap, sessions, store, calls>>

Session == [LastWriteTS : Nat, LastReadTS : Int, lastAccessed : Nat]
Copy    == [at : Nat, node : Replicas]
Unused  == [status |-> "unused"]
Failed  == [status |-> "err"]

Call == [op : {"put", "get"}, id : Ids, key : Keys,
         session : Nat \ {0},       \* the handler's pointer
         waiting : SUBSET Replicas, \* replicas whose goroutine has not finished
         got : SUBSET Copy,         \* copies read, for a Get
         ts : Int,                  \* timestamp of the answer
         end : Nat,                 \* history: when coordinator.Put returned
         ryw : BOOLEAN, mono : BOOLEAN,
         status : {"replicas", "stamped", "ryw", "mono", "done"},
         after : SUBSET Calls,      \* history: calls of the session that were over
                                    \*   when this began, and are still in it
         out : BOOLEAN]             \* history: the map has lost the session since

\* The timestamp the engine of the node gave to a copy.
TS(copy) == copy.at + Skew[copy.node]

At(c, status) == calls[c].status = status
Live(c) == ~At(c, "unused") /\ ~At(c, "err")

Init ==
    /\ clock = Epoch /\ heap = <<>>
    /\ sessions = [i \in Ids |-> 0]
    /\ store = [k \in Keys |-> [r \in Replicas |-> 0]]
    /\ calls = [c \in Calls |-> Unused]
-----------------------------------------------------------------------------
\* Mutant of GetOrCreate: the new object is not entered into the map.
GetOrCreateUnlisted(i) ==
    /\ heap' = IF sessions[i] # 0 THEN [heap EXCEPT ![sessions[i]].lastAccessed = clock]
               ELSE Append(heap, [LastWriteTS |-> 0, LastReadTS |-> 0,
                                  lastAccessed |-> clock])
    /\ UNCHANGED sessions

GetOrCreate(i) ==
    IF sessions[i] # 0
    THEN /\ heap' = [heap EXCEPT ![sessions[i]].lastAccessed = clock]
         /\ UNCHANGED sessions
    ELSE /\ heap' = Append(heap, [LastWriteTS |-> 0, LastReadTS |-> 0,
                                  lastAccessed |-> clock])
         /\ sessions' = [sessions EXCEPT ![i] = Len(heap) + 1]

\* sessionFromRequest, and the goroutines of coordinator.Put or Get start.
Begin(c, op, i, k) ==
    /\ At(c, "unused")
    /\ GetOrCreate(i)
    /\ calls' = [calls EXCEPT ![c] =
          [op |-> op, id |-> i, key |-> k, session |-> sessions'[i],
           waiting |-> Replicas, got |-> {}, ts |-> 0, end |-> 0,
           ryw |-> FALSE, mono |-> FALSE,
           status |-> "replicas", out |-> FALSE,
           after |-> {d \in Calls : At(d, "done") /\ calls[d].id = i /\ ~calls[d].out}]]
    /\ UNCHANGED <<clock, store>>

Answer(c, r, copies) ==
    calls' = [calls EXCEPT ![c].waiting = @ \ {r}, ![c].got = @ \cup copies]

\* A replica stores its copy of a Put.
StoreCopy(c, r) ==
    /\ At(c, "replicas") /\ calls[c].op = "put" /\ r \in calls[c].waiting
    /\ clock < MaxClock /\ clock' = clock + 1
    /\ store' = [store EXCEPT ![calls[c].key][r] = clock + 1]
    /\ Answer(c, r, {})
    /\ UNCHANGED <<heap, sessions>>

\* A copy is stored by a goroutine of a Put that has returned, by someone
\* else's Put, by a hint, a repair or anti-entropy.
StoreElsewhere(k, r) ==
    /\ clock < MaxClock /\ clock' = clock + 1
    /\ store' = [store EXCEPT ![k][r] = clock + 1]
    /\ UNCHANGED <<heap, sessions, calls>>

ReadCopy(c, r) ==
    /\ At(c, "replicas") /\ calls[c].op = "get" /\ r \in calls[c].waiting
    /\ LET at == store[calls[c].key][r]
       IN \/ Answer(c, r, IF at = 0 THEN {} ELSE {[at |-> at, node |-> r]})
          \/ Answer(c, r, {})   \* no answer
    /\ UNCHANGED <<clock, heap, sessions, store>>

\* The coordinator returns an error, and the handler does too.
Fails(c) ==
    /\ At(c, "replicas") /\ (calls[c].op = "get" => calls[c].waiting = {})
    /\ calls' = [calls EXCEPT ![c] = Failed]
    /\ UNCHANGED <<clock, heap, sessions, store>>
-----------------------------------------------------------------------------
\* Mutant of PutReturns: the time at which the request came in.
PutReturnsWithoutStamp(c) ==
    /\ At(c, "replicas") /\ calls[c].op = "put" /\ calls[c].waiting # Replicas
    /\ clock < MaxClock /\ clock' = clock + 1
    /\ calls' = [calls EXCEPT ![c].status = "stamped", ![c].waiting = {},
                              ![c].ts = heap[calls[c].session].lastAccessed,
                              ![c].end = clock + 1]
    /\ UNCHANGED <<heap, sessions, store>>

\* coordinator.Put returns nil, and ts := time.Now().
PutReturns(c) ==
    /\ At(c, "replicas") /\ calls[c].op = "put" /\ calls[c].waiting # Replicas
    /\ clock < MaxClock /\ clock' = clock + 1
    /\ calls' = [calls EXCEPT ![c].status = "stamped", ![c].waiting = {},
                              ![c].ts = clock + 1, ![c].end = clock + 1]
    /\ UNCHANGED <<heap, sessions, store>>

\* if ts > old { old = ts }
Newer(ts, old) == IF ts > old THEN ts ELSE old

TrackWrite(c) ==
    LET s == sessions[calls[c].id] IN
    /\ At(c, "stamped")
    /\ heap' = IF s = 0 THEN heap
               ELSE [heap EXCEPT ![s].LastWriteTS = Newer(calls[c].ts, @),
                                 ![s].lastAccessed = clock]
    /\ calls' = [calls EXCEPT ![c].status = "done"]
    /\ UNCHANGED <<clock, sessions, store>>

\* coordinator.Get returns the copy with the highest timestamp;
\* CheckReadYourWrites reads the session through the handler's pointer.
GetReturns(c) ==
    /\ At(c, "replicas") /\ calls[c].op = "get" /\ calls[c].waiting = {}
    /\ \E latest \in calls[c].got :
        /\ \A copy \in calls[c].got : TS(copy) <= TS(latest)
        /\ calls' = [calls EXCEPT
              ![c].status = "ryw", ![c].got = {latest}, ![c].ts = TS(latest),
              ![c].ryw = TS(latest) >= heap[calls[c].session].LastWriteTS]
    /\ UNCHANGED <<clock, heap, sessions, store>>

\* Mutant of CheckMonotonicRead: compared with the last write.
CheckMonotonicWrite(c) ==
    /\ At(c, "ryw")
    /\ calls' = [calls EXCEPT ![c].status = "mono",
                   ![c].mono = calls[c].ts >= heap[calls[c].session].LastWriteTS]
    /\ UNCHANGED <<clock, heap, sessions, store>>

CheckMonotonicRead(c) ==
    /\ At(c, "ryw")
    /\ calls' = [calls EXCEPT ![c].status = "mono",
                   ![c].mono = calls[c].ts >= heap[calls[c].session].LastReadTS]
    /\ UNCHANGED <<clock, heap, sessions, store>>

TrackRead(c) ==
    LET s == sessions[calls[c].id] IN
    /\ At(c, "mono")
    /\ heap' = IF s = 0 THEN heap
               ELSE [heap EXCEPT ![s].LastReadTS = Newer(calls[c].ts, @),
                                 ![s].lastAccessed = clock]
    /\ calls' = [calls EXCEPT ![c].status = "done"]
    /\ UNCHANGED <<clock, sessions, store>>
-----------------------------------------------------------------------------
Forget(S) ==
    /\ sessions' = [i \in Ids |-> IF i \in S THEN 0 ELSE sessions[i]]
    /\ calls' = [c \in Calls |-> IF Live(c) /\ calls[c].id \in S
                                 THEN [calls[c] EXCEPT !.out = TRUE] ELSE calls[c]]

Idle == {i \in Ids : sessions[i] # 0 /\ heap[sessions[i]].lastAccessed < clock - TTL}

\* The reaper's tick.  A handler of the session may still be running.
reap ==
    /\ Idle # {} /\ Forget(Idle)
    /\ UNCHANGED <<clock, heap, store>>

Next ==
    \/ \E c \in Calls, op \in {"put", "get"}, i \in Ids, k \in Keys : Begin(c, op, i, k)
    \/ \E c \in Calls, r \in Replicas : StoreCopy(c, r) \/ ReadCopy(c, r)
    \/ \E k \in Keys, r \in Replicas : StoreElsewhere(k, r)
    \/ \E c \in Calls : \/ Fails(c) \/ PutReturns(c) \/ TrackWrite(c)
                        \/ GetReturns(c) \/ CheckMonotonicRead(c) \/ TrackRead(c)
    \/ reap

Spec == Init /\ [][Next]_vars
-----------------------------------------------------------------------------
(***************************************************************************)
(* Properties                                                              *)
(***************************************************************************)

\* Every variable has its type; a pointer, in the map or in a handler, is the
\* address of an object.
TypeOK ==
    /\ clock \in Nat
    /\ heap \in Seq(Session)
    /\ sessions \in [Ids -> 0 .. Len(heap)]
    /\ store \in [Keys -> [Replicas -> Nat]]
    /\ calls \in [Calls -> Call \cup {Unused, Failed}]
    /\ \A c \in Calls : Live(c) => calls[c].session <= Len(heap)

\* HandleGet answers read_your_write only with a copy stored after every write
\* the session had been told of was over (unless its replica's clock is ahead).
\* HandlePut takes the session's timestamp when Put has returned, after the
\* engines took theirs, so a client that reads the very copies its own Put stored
\* is told that it does not see its write.  The comments have the flag mean the
\* opposite: "a client always sees its own writes" (session.go), withheld "if the
\* returned value is older than our last write" (handlers.go).
OwnCopiesFlagged ==
    \A g \in Calls : (Live(g) /\ calls[g].ryw) =>
        \A copy \in calls[g].got : Skew[copy.node] <= 0 =>
            \A d \in calls[g].after : calls[d].op = "put" => copy.at > calls[d].end

\* HandleGet answers monotonic only if no read that the session had finished
\* before returned a higher timestamp, whatever the handlers running beside it
\* did to the fields that it reads without the lock.
MonotonicMeansMonotonic ==
    \A g \in Calls : (Live(g) /\ calls[g].mono) =>
        \A d \in calls[g].after : calls[d].op = "get" => calls[d].ts <= calls[g].ts

\* A flag is withheld only with cause: some request of the same session did
\* write, or read, at a higher timestamp.
FlagsHaveCause ==
    \A g \in Calls : At(g, "done") /\ calls[g].op = "get" =>
        /\ calls[g].ryw \/ \E d \in Calls : /\ At(d, "done") /\ calls[d].op = "put"
                                            /\ calls[d].id = calls[g].id
                                            /\ calls[d].ts > calls[g].ts
        /\ calls[g].mono \/ \E d \in Calls : /\ At(d, "done") /\ calls[d].op = "get"
                                             /\ calls[d].id = calls[g].id
                                             /\ calls[d].ts > calls[g].ts
=============================================================================
