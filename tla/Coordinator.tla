---------------------------- MODULE Coordinator ----------------------------
(***************************************************************************)
(* Replicated Put, Get and Delete of one key (backend/pkg/replication,     *)
(* coordinator.go and rpc_client.go, with the HTTP handlers that call it). *)
(*                                                                         *)
(* A call is one execution of a handler and of the coordinator method it   *)
(* runs.  For each replica the method starts a goroutine that uses the     *)
(* local engine or posts the request to the replica's REST endpoint; the   *)
(* handler there knows nothing of being a replica and coordinates the      *)
(* request again, at the default level, over its own ring.                 *)
(***************************************************************************)
EXTENDS Integers, FiniteSets

CONSTANTS
    Nodes,
    Rank,       \* distance on the hash ring from the key to a node
    N,          \* cfg.N, the replication factor
    Values,     \* what clients write
    None,       \* no value: the key is absent or holds a tombstone
    Calls,      \* bound: identities of calls, each used once
    Requests,   \* bound: the calls that clients make
    Age,        \* bound: writes made before the behaviour starts
    MaxHops,    \* bound: forwarded calls that fit in the 2 s client timeout
    ServesREST, \* nodes whose address in the ring answers REST requests
    Faults,     \* what may go wrong besides timeouts
    Ops         \* operations clients ask for

ASSUME NodesAssumption == IsFiniteSet(Nodes) /\ ServesREST \subseteq Nodes
ASSUME RankAssumption == /\ Rank \in [Nodes -> Nat]
                         /\ \A m, n \in Nodes : Rank[m] = Rank[n] => m = n
ASSUME NAssumption == N \in Nat /\ N >= 2
ASSUME ValuesAssumption == None \notin Values
ASSUME CallsAssumption == Calls \cap {"client", "repair"} = {} /\ Requests \subseteq Calls
ASSUME HopsAssumption == MaxHops \in Nat /\ Age \in Nat
ASSUME OpsAssumption == /\ Ops \subseteq {"put", "get", "del"}
                        /\ Faults \subseteq {"loss", "engine", "crash", "membership", "shutdown"}

VARIABLES
    view,    \* the nodes in each node's ring
    leaving, \* the nodes that have begun to shut down
    store,   \* what each node's engine holds for the key
    clock,   \* the timestamp last given to a write
    calls,   \* the state of each call
    hints,   \* hints stored, as <<by, for, value>>
    done     \* history: the engines that executed a client's operation

members == <<view, leaving>>
vars == <<view, leaving, store, clock, calls, hints, done>>

Entry  == [val : Values \cup {None}, ts : Nat]
Absent == [val |-> None, ts |-> 0]
Unused == [status |-> "unused"]

Call == [op : {"put", "get", "del"}, node : Nodes, val : Values \cup {None},
         caller : Calls \cup {"client", "repair"},
         root : Calls,                \* history: the call it was forwarded for
         hops : Nat,
         replicas : SUBSET Nodes,
         need : Nat,                  \* acknowledgements required
         waiting : SUBSET Nodes,      \* replicas whose goroutine still runs
         ok : SUBSET Nodes,           \* replicas that answered without error
         vals : [Nodes -> Entry],     \* what they answered, for a Get
         status : {"open", "ok", "notfound", "err"},
         res : Entry,                 \* what a Get returned
         repair : SUBSET Nodes]       \* stale replicas readRepair has yet to visit

Used(c) == calls[c].status # "unused"
Forwarded(c) == Used(c) /\ calls[c].caller # "client"
Succeeded(c) == calls[c].status \in {"ok", "notfound"}
-----------------------------------------------------------------------------
\* getReplicas: the first N nodes of the ring from the key on; the node alone
\* if its ring is empty.
Replicas(n) ==
    IF view[n] = {} THEN {n}
    ELSE {m \in view[n] : Cardinality({q \in view[n] : Rank[q] < Rank[m]}) < N}

\* Mutant of quorumSizeFor: half of an even number counts as a majority.
quorumSizeForHalf(level, available) ==
    CASE level = "one" -> 1
      [] level = "all" -> available
      [] OTHER -> (available + 1) \div 2

quorumSizeFor(level, available) ==
    LET n == CASE available = 0 -> 1
               [] available \in 1 .. N -> available
               [] OTHER -> N
    IN CASE level = "one" -> 1
         [] level = "all" -> n
         [] OTHER -> (n \div 2) + 1

\* A handler accepts a request and its coordinator starts the goroutines.
NewCall(op, n, v, level, caller, root, hops) ==
    [op |-> op, node |-> n, val |-> v, caller |-> caller, root |-> root,
     hops |-> hops, replicas |-> Replicas(n),
     need |-> quorumSizeFor(level, Cardinality(Replicas(n))),
     waiting |-> Replicas(n), ok |-> {}, vals |-> [m \in Nodes |-> Absent],
     status |-> "open", res |-> Absent, repair |-> {}]

\* The handler has returned, or whoever called it has stopped waiting: its
\* context is cancelled and its remote requests fail.
Cancelled(c) == \/ calls[c].status # "open"
                \/ /\ calls[c].caller \in Calls
                   /\ calls[c].node \notin calls[calls[c].caller].waiting

\* A chain of forwarded calls has used up the timeout of those waiting on it.
TimedOut(c) == \E d \in Calls : /\ Used(d)
                                /\ calls[d].root = calls[c].root
                                /\ calls[d].hops = MaxHops

Init ==
    /\ view \in [Nodes -> SUBSET Nodes]
    /\ \A n \in Nodes : n \in view[n]
    /\ "membership" \notin Faults => \A n \in Nodes : view[n] = Nodes
    /\ store \in [Nodes -> {Absent} \cup [val : Values, ts : 1 .. Age]] /\ clock = Age
    /\ leaving = {}
    /\ calls = [c \in Calls |-> Unused]
    /\ hints = {}
    /\ done = [c \in Calls |-> {}]

\* HandlePut, HandleGet, HandleDelete for a client, with its consistency level.
Request(c, op, n, v, level) ==
    /\ ~Used(c) /\ op \in Ops
    /\ v = None <=> op # "put"
    /\ calls' = [calls EXCEPT ![c] = NewCall(op, n, v, level, "client", c, 0)]
    /\ UNCHANGED <<members, store, clock, hints, done>>

\* The engine's part of an operation: a new timestamp for every Put.
Execute(op, n, v, root) ==
    /\ done' = [done EXCEPT ![root] = @ \cup {n}]
    /\ CASE op = "put" -> /\ store' = [store EXCEPT ![n] = [val |-> v, ts |-> clock + 1]]
                          /\ clock' = clock + 1
         [] op = "del" -> store' = [store EXCEPT ![n] = Absent] /\ UNCHANGED clock
         [] OTHER -> UNCHANGED <<store, clock>>

\* The goroutine of the local replica; no context reaches the engine.
Local(c) ==
    LET n == calls[c].node IN
    /\ Used(c) /\ n \in calls[c].waiting
    /\ Execute(calls[c].op, n, calls[c].val, calls[c].root)
    /\ calls' = [calls EXCEPT ![c].waiting = @ \ {n}, ![c].ok = @ \cup {n},
                              ![c].vals[n] = store[n]]
    /\ UNCHANGED <<members, hints>>

LocalError(c) ==
    LET n == calls[c].node IN
    /\ "engine" \in Faults /\ Used(c) /\ n \in calls[c].waiting
    /\ calls' = [calls EXCEPT ![c].waiting = @ \ {n}]
    /\ UNCHANGED <<members, store, clock, hints, done>>

\* client.Put, client.Get, client.Delete reach the handler of replica r, which
\* reads no consistency level and so takes the default.
Send(c, r, d) ==
    /\ Used(c) /\ ~Cancelled(c) /\ d \notin Requests /\ ~Used(d)
    /\ r \in calls[c].waiting \ {calls[c].node} /\ r \in ServesREST
    /\ calls[c].hops < MaxHops
    /\ \A e \in Calls : Used(e) => ~(calls[e].caller = c /\ calls[e].node = r)
    /\ calls' = [calls EXCEPT ![d] = NewCall(calls[c].op, r, calls[c].val, "quorum", c,
                                             calls[c].root, calls[c].hops + 1)]
    /\ UNCHANGED <<members, store, clock, hints, done>>

\* The error path of a replica's goroutine; a failed Put leaves a hint.
Drop(c, r) ==
    /\ calls' = [calls EXCEPT ![c].waiting = @ \ {r}]
    /\ hints' = IF calls[c].op = "put"
                THEN hints \cup {<<calls[c].node, r, calls[c].val>>} ELSE hints
    /\ UNCHANGED <<members, store, clock, done>>

\* The answer of call d reaches the goroutine that made it.
Reply(c, d) ==
    LET r == calls[d].node IN
    /\ Used(c) /\ Used(d) /\ calls[d].caller = c
    /\ r \in calls[c].waiting \ {calls[c].node}
    /\ \/ /\ Succeeded(d)
          /\ calls' = [calls EXCEPT ![c].waiting = @ \ {r}, ![c].ok = @ \cup {r},
                                    ![c].vals[r] = calls[d].res]
          /\ UNCHANGED <<members, store, clock, hints, done>>
       \/ calls[d].status = "err" /\ Drop(c, r)

\* No answer: refused, lost, timed out, or cancelled when the handler returned.
Lose(c, r) ==
    /\ Used(c) /\ r \in calls[c].waiting \ {calls[c].node}
    /\ \/ "loss" \in Faults
       \/ r \notin ServesREST
       \/ Cancelled(c)
       \/ TimedOut(c)
    /\ Drop(c, r)
-----------------------------------------------------------------------------
Finish(c, status) ==
    /\ calls' = [calls EXCEPT ![c].status = status]
    /\ UNCHANGED <<members, store, clock, hints, done>>

Acks(c) == Cardinality(calls[c].ok)
Open(c, op) == calls[c].status = "open" /\ calls[c].op = op

\* Mutant of PutReturns: one acknowledgement too few.
PutReturnsEarly(c) ==
    /\ Open(c, "put")
    /\ \/ Acks(c) + 1 >= calls[c].need /\ Finish(c, "ok")
       \/ calls[c].waiting = {} /\ Acks(c) + 1 < calls[c].need /\ Finish(c, "err")

\* Mutant of PutReturns: no error when the goroutines are done.
PutReturnsOnQuorumOnly(c) ==
    Open(c, "put") /\ Acks(c) >= calls[c].need /\ Finish(c, "ok")

\* Put returns at the w-th acknowledgement, or when every goroutine answered.
PutReturns(c) ==
    /\ Open(c, "put")
    /\ \/ Acks(c) >= calls[c].need /\ Finish(c, "ok")
       \/ calls[c].waiting = {} /\ Acks(c) < calls[c].need /\ Finish(c, "err")

DeleteReturns(c) ==
    /\ Open(c, "del") /\ calls[c].waiting = {}
    /\ Finish(c, IF Acks(c) < calls[c].need THEN "err" ELSE "ok")

\* Get waits for every replica; it counts the ones that answered, absent or not.
Found(c) == {r \in calls[c].ok : calls[c].vals[r].val # None}

GetFails(c) ==
    /\ Open(c, "get") /\ calls[c].waiting = {}
    /\ IF Found(c) = {} THEN Finish(c, IF calls[c].ok = calls[c].replicas
                                       THEN "notfound" ELSE "err")
       ELSE Acks(c) < calls[c].need /\ Finish(c, "err")

\* Mutant of Behind: a replica that did not answer is repaired too.
BehindOrSilent(c, latest) ==
    {q \in calls[c].replicas : q \notin Found(c) \/ calls[c].vals[q].ts < latest.ts}

\* The replicas readRepair will not skip.
Behind(c, latest) ==
    {q \in calls[c].ok : q \notin Found(c) \/ calls[c].vals[q].ts < latest.ts}

GetReturns(c) ==
    /\ Open(c, "get") /\ calls[c].waiting = {}
    /\ Acks(c) >= calls[c].need
    /\ \E r \in Found(c) :
        LET latest == calls[c].vals[r] IN
        /\ \A q \in Found(c) : calls[c].vals[q].ts <= latest.ts
        /\ calls' = [calls EXCEPT
              ![c].status = "ok", ![c].res = latest,
              ![c].repair = Behind(c, latest)]
    /\ UNCHANGED <<members, store, clock, hints, done>>

\* readRepair visits the stale replicas in ring order: its own engine ...
NextRepair(c, r) == /\ Used(c) /\ r \in calls[c].repair
                    /\ \A q \in calls[c].repair : Rank[r] <= Rank[q]

RepairLocal(c) ==
    LET n == calls[c].node IN
    /\ Used(c) /\ NextRepair(c, n)
    /\ store' = [store EXCEPT ![n] = [val |-> calls[c].res.val, ts |-> clock + 1]]
    /\ clock' = clock + 1
    /\ calls' = [calls EXCEPT ![c].repair = @ \ {n}]
    /\ UNCHANGED <<members, hints, done>>

\* ... or a Put to another node, which may run on after its timeout ...
RepairSend(c, r, d) ==
    /\ NextRepair(c, r) /\ r # calls[c].node /\ r \in ServesREST
    /\ d \notin Requests /\ ~Used(d)
    /\ calls' = [calls EXCEPT ![c].repair = @ \ {r},
                   ![d] = NewCall("put", r, calls[c].res.val, "quorum", "repair", d, 1)]
    /\ UNCHANGED <<members, store, clock, hints, done>>

\* ... or nothing: the context was cancelled when HandleGet returned.
RepairFails(c, r) ==
    /\ NextRepair(c, r) /\ r # calls[c].node
    /\ calls' = [calls EXCEPT ![c].repair = @ \ {r}]
    /\ UNCHANGED <<members, store, clock, hints, done>>
-----------------------------------------------------------------------------
\* NotifyJoin and NotifyLeave of memberlist, on one node.
NodeJoin(n, m) ==
    /\ "membership" \in Faults /\ m \notin view[n] \cup {n}
    /\ view' = [view EXCEPT ![n] = @ \cup {m}]
    /\ UNCHANGED <<leaving, store, clock, calls, hints, done>>

\* Mutant of NodeLeave: a node may remove itself.
NodeLeaveSelf(n, m) ==
    /\ "membership" \in Faults /\ m \in view[n]
    /\ view' = [view EXCEPT ![n] = @ \ {m}]
    /\ UNCHANGED <<leaving, store, clock, calls, hints, done>>

NodeLeave(n, m) ==
    /\ "membership" \in Faults /\ m \in view[n] \ {n}
    /\ view' = [view EXCEPT ![n] = @ \ {m}]
    /\ UNCHANGED <<leaving, store, clock, calls, hints, done>>

\* main calls Leave, which takes the node out of its own ring, before it stops
\* the HTTP server: the node goes on handling requests.
Leave(n) ==
    /\ "shutdown" \in Faults /\ n \notin leaving
    /\ leaving' = leaving \cup {n}
    /\ view' = [view EXCEPT ![n] = @ \ {n}]
    /\ UNCHANGED <<store, clock, calls, hints, done>>

\* A node stops in the middle of its calls, and its undelivered hints go.
Crash(n) ==
    /\ "crash" \in Faults
    /\ \E c \in Calls : Used(c) /\ calls[c].node = n
                        /\ (calls[c].status = "open" \/ calls[c].waiting # {})
    /\ calls' = [c \in Calls |->
                   IF Used(c) /\ calls[c].node = n
                   THEN [calls[c] EXCEPT !.waiting = {}, !.repair = {},
                            !.status = IF @ = "open" THEN "err" ELSE @]
                   ELSE calls[c]]
    /\ hints' = {h \in hints : h[1] # n}
    /\ UNCHANGED <<members, store, clock, done>>

CallStep(c) ==
    \/ Local(c) \/ LocalError(c)
    \/ \E r \in Nodes, d \in Calls : Send(c, r, d) \/ RepairSend(c, r, d)
    \/ \E d \in Calls : Reply(c, d)
    \/ \E r \in Nodes : Lose(c, r) \/ RepairFails(c, r)
    \/ PutReturns(c) \/ DeleteReturns(c) \/ GetFails(c) \/ GetReturns(c)
    \/ RepairLocal(c)

Next ==
    \/ \E c \in Requests, op \in Ops, n \in Nodes, v \in Values \cup {None},
          level \in {"one", "quorum", "all"} : Request(c, op, n, v, level)
    \/ \E c \in Calls : CallStep(c)
    \/ \E m, n \in Nodes : NodeJoin(n, m) \/ NodeLeave(n, m)
    \/ \E n \in Nodes : Leave(n) \/ Crash(n)

Spec == Init /\ [][Next]_vars

\* Goroutines run and client timeouts fire.  No request, crash or membership
\* event is promised.
FairSpec == Spec /\ \A c \in Calls : WF_vars(CallStep(c))
-----------------------------------------------------------------------------
\* Every variable has its type, and a node is in its own ring until it leaves
\* (NewManager adds it, and only its own Leave removes it).
TypeOK ==
    /\ view \in [Nodes -> SUBSET Nodes] /\ leaving \subseteq Nodes
    /\ \A n \in Nodes : n \in view[n] <=> n \notin leaving
    /\ store \in [Nodes -> Entry]
    /\ clock \in Nat
    /\ calls \in [Calls -> Call \cup {Unused}]
    /\ hints \subseteq Nodes \X Nodes \X (Values \cup {None})
    /\ done \in [Calls -> SUBSET Nodes]

\* A Put or Delete acknowledged to a client at a level that asks for more than
\* one replica was executed by the engines of at least two nodes, though the
\* acknowledgements counted come from handlers that each coordinated the
\* request again over rings of their own, return early, crash and time out.
\* Only a node that is shutting down breaks this: it is not in its own ring, and
\* passes the request back to a node that has executed it already.
AckedAtTwoNodes ==
    leaving # {} \/ \A c \in Calls :
        (Used(c) /\ calls[c].status = "ok" /\ calls[c].op # "get" /\ calls[c].need >= 2)
            => \E m, n \in done[calls[c].root] : m # n

\* A forwarded request succeeds only if some forwarded request found a ring
\* with no other node in it: in a ring of two or more, the handler of a replica
\* needs an answer from another replica's handler, and so on without end.
ForwardedSuccessNeedsLoneRing ==
    (\E c \in Calls : Forwarded(c) /\ Succeeded(c))
        => \E d \in Calls : Forwarded(d) /\ calls[d].replicas = {calls[d].node}

\* Every call returns, though handlers on different nodes wait for each other:
\* the timeouts of the waiting goroutines break the cycle.
CallsReturn == \A c \in Calls : Used(c) ~> calls[c].status # "open"

\* coordinator.go: "Put writes key -> value to W replicas in parallel, returning
\* success when W acknowledgements are received": a quorum Put does not fail
\* when every replica is up and answers.
HealthyPutSucceeds ==
    \A c \in Calls : (Used(c) /\ calls[c].op = "put" /\ calls[c].caller = "client")
                        => calls[c].status # "err"

\* readRepair finds a replica to repair only if some forwarded request found a
\* ring with no other node in it.  It compares the answers of different
\* replicas, and all but one of those answers are a remote handler's, which does
\* not succeed unless the chain it starts ends in such a ring; a replica that did
\* not answer is skipped.  So while every ring is complete a Get repairs nothing,
\* however far the replicas have drifted apart, where coordinator.go says of Get:
\* "Stale replicas are repaired in the background."
RepairNeedsLoneRing ==
    (\E c \in Calls : Used(c) /\ calls[c].repair # {})
        => \E d \in Calls : Forwarded(d) /\ calls[d].replicas = {calls[d].node}
=============================================================================
