-------------------------------- MODULE Ring --------------------------------
(***************************************************************************)
(* The consistent hash ring of one node (backend/pkg/hash/ring.go) and the *)
(* Manager that keeps it in step with memberlist and reports changes on a  *)
(* channel (backend/pkg/cluster/membership.go).                            *)
(*                                                                         *)
(* The 32-bit hashes are positions on a small circle.  Every method of     *)
(* Ring runs under its lock; memberlist calls the event delegate for one   *)
(* event at a time.                                                        *)
(***************************************************************************)
EXTENDS Integers, Sequences, FiniteSets

CONSTANTS
    Nodes,
    Self,           \* cfg.NodeID
    Addresses,      \* what a node's metadata may give as its address
    Circle,         \* number of positions
    VirtualNodes,   \* the positions of each node, hashKey(id#i)
    ChannelCap,     \* capacity of EventCh
    MaxEvents       \* bound: memberlist events

ASSUME SelfAssumption == Self \in Nodes
ASSUME CircleAssumption == Circle \in Nat \ {0} /\ ChannelCap \in Nat \ {0} /\ MaxEvents \in Nat
ASSUME VirtualAssumption == VirtualNodes \in [Nodes -> Seq(0 .. Circle - 1)]

Position == 0 .. Circle - 1
Positions(m) == {VirtualNodes[m][i] : i \in DOMAIN VirtualNodes[m]}

\* Positions that no other node has.  A node without any would vanish from the
\* walk of GetNSuccessors, which then would not end.
Private(m) == Positions(m) \ UNION {Positions(q) : q \in Nodes \ {m}}
ASSUME PrivateAssumption == \A m \in Nodes : Private(m) # {}

VARIABLES
    ring,       \* r.ring: sorted positions, with repetitions
    owners,     \* r.owners: the node at each position
    nodes,      \* r.nodes
    alive,      \* the members memberlist has announced (external)
    started,    \* NewManager has returned
    EventCh,    \* events nobody has read
    events      \* events so far

vars == <<ring, owners, nodes, alive, started, EventCh, events>>

Node == [id : Nodes, address : Addresses]

Elements(s) == {s[i] : i \in DOMAIN s}

\* The k-th smallest number of S.
Nth(S, k) == CHOOSE i \in S : Cardinality({j \in S : j <= i}) = k
-----------------------------------------------------------------------------
(***************************************************************************)
(* Lookups                                                                 *)
(***************************************************************************)

\* Mutant of search: the hash modulo the number of positions.
searchModulo(h) == (h % Len(ring)) + 1

\* The index of the first position at or after h, or the first of all.
search(h) ==
    IF \E i \in DOMAIN ring : ring[i] >= h
    THEN CHOOSE i \in DOMAIN ring : ring[i] >= h /\ \A j \in 1 .. i - 1 : ring[j] < h
    ELSE 1

GetNode(h) == owners[ring[search(h)]].id

Capped(n) == IF n > Cardinality(DOMAIN nodes) THEN Cardinality(DOMAIN nodes) ELSE n

\* The owner met after i steps along the ring from h.
Met(h, i) == owners[ring[((search(h) + i - 2) % Len(ring)) + 1]].id

\* Mutant of GetNSuccessors: an owner may be met twice.
GetNSuccessorsRepeating(h, n) == [i \in 1 .. Capped(n) |-> Met(h, i)]

\* The walk along the ring from the key on, past nodes seen already, until there
\* are enough.  It ends within one turn if every node owns a position.
GetNSuccessors(h, n) ==
    LET New == {i \in 1 .. Len(ring) : \A j \in 1 .. i - 1 : Met(h, j) # Met(h, i)}
    IN [k \in {k \in 1 .. Capped(n) : k <= Cardinality(New)} |-> Met(h, Nth(New, k))]
-----------------------------------------------------------------------------
(***************************************************************************)
(* Changes                                                                 *)
(***************************************************************************)

\* sort.Slice: each element goes to the place that its rank gives.
Rank(s, i) == Cardinality({j \in DOMAIN s : s[j] < s[i] \/ (s[j] = s[i] /\ j <= i)})
Sorted(s) == [r \in DOMAIN s |-> s[CHOOSE i \in DOMAIN s : Rank(s, i) = r]]

\* The elements of s outside P, in their order.
Filtered(s, P) ==
    LET Kept == {i \in DOMAIN s : s[i] \notin P}
    IN [k \in 1 .. Cardinality(Kept) |-> s[Nth(Kept, k)]]

\* f with the value v for every element of S, in its domain or not.
Mapping(f, S, v) == [x \in DOMAIN f \cup S |-> IF x \in S THEN v ELSE f[x]]
Without(f, S) == [x \in DOMAIN f \ S |-> f[x]]

\* Mutant of AddNode: the list is not sorted again.
AddNodeUnsorted(m, address) ==
    LET node == [id |-> m, address |-> address] IN
    /\ nodes' = Mapping(nodes, {m}, node)
    /\ ring' = ring \o VirtualNodes[m]
    /\ owners' = Mapping(owners, Positions(m), node)

\* A node that is there already gets its positions a second time.
AddNode(m, address) ==
    LET node == [id |-> m, address |-> address] IN
    /\ nodes' = Mapping(nodes, {m}, node)
    /\ ring' = Sorted(ring \o VirtualNodes[m])
    /\ owners' = Mapping(owners, Positions(m), node)

\* Mutant of RemoveNode: the positions keep their owner.
RemoveNodeKeepsOwners(m) ==
    IF m \notin DOMAIN nodes THEN UNCHANGED <<ring, owners, nodes>>
    ELSE /\ ring' = Filtered(ring, Positions(m))
         /\ nodes' = Without(nodes, {m})
         /\ UNCHANGED owners

\* Every copy of the node's positions goes, whoever owns them.
RemoveNode(m) ==
    IF m \notin DOMAIN nodes THEN UNCHANGED <<ring, owners, nodes>>
    ELSE /\ ring' = Filtered(ring, Positions(m))
         /\ owners' = Without(owners, Positions(m))
         /\ nodes' = Without(nodes, {m})

\* Mutant of emit: the channel is one event shorter.
emitShort(type, m) ==
    EventCh' = IF Len(EventCh) + 1 < ChannelCap THEN Append(EventCh, <<type, m>>) ELSE EventCh

\* An event that does not fit is dropped.
emit(type, m) ==
    EventCh' = IF Len(EventCh) < ChannelCap THEN Append(EventCh, <<type, m>>) ELSE EventCh

\* memberlist.Create announces the node itself to its delegate.
Init ==
    /\ ring = Sorted(VirtualNodes[Self])
    /\ \E a \in Addresses :
          /\ nodes = [m \in {Self} |-> [id |-> Self, address |-> a]]
          /\ owners = [p \in Positions(Self) |-> [id |-> Self, address |-> a]]
    /\ alive = {Self} /\ started = FALSE
    /\ EventCh = <<<<"join", Self>>>> /\ events = 1

\* The last step of NewManager adds the node again.
NewManager ==
    /\ ~started /\ started' = TRUE
    /\ AddNode(Self, nodes[Self].address)
    /\ UNCHANGED <<alive, EventCh, events>>

\* The address comes from the node's metadata, or is its gossip address if they
\* cannot be parsed.
NotifyJoin(m, address) ==
    /\ events < MaxEvents /\ events' = events + 1
    /\ m \notin alive /\ alive' = alive \cup {m}
    /\ AddNode(m, address)
    /\ emit("join", m)
    /\ UNCHANGED started

\* A member failed or left; the node itself only by its own Leave.
NotifyLeave(m) ==
    /\ events < MaxEvents /\ events' = events + 1
    /\ m \in alive /\ alive' = alive \ {m}
    /\ m = Self => started
    /\ RemoveNode(m)
    /\ emit("leave", m)
    /\ UNCHANGED started

Next == \/ NewManager
        \/ \E m \in Nodes \ {Self}, a \in Addresses : NotifyJoin(m, a)
        \/ \E m \in Nodes : NotifyLeave(m)

Spec == Init /\ [][Next]_vars
-----------------------------------------------------------------------------
(***************************************************************************)
(* Properties                                                              *)
(***************************************************************************)

\* Every variable has its type, and the ring is sorted.
TypeOK ==
    /\ ring \in Seq(Position)
    /\ \A i, j \in DOMAIN ring : i < j => ring[i] <= ring[j]
    /\ DOMAIN owners \subseteq Position /\ \A p \in DOMAIN owners : owners[p] \in Node
    /\ DOMAIN nodes \subseteq Nodes /\ \A m \in DOMAIN nodes : nodes[m] \in Node
    /\ alive \subseteq Nodes /\ started \in BOOLEAN
    /\ EventCh \in Seq({"join", "leave"} \X Nodes) /\ events \in Nat

\* The three parts of the ring agree, whatever positions nodes share and however
\* often a node came and went: the positions in the list are those that have an
\* owner, every owner is a current member at its current address, and a member
\* owns all the positions that are its own alone.
RingMatchesMembers ==
    /\ DOMAIN nodes = alive
    /\ Elements(ring) = DOMAIN owners
    /\ \A p \in DOMAIN owners : /\ owners[p].id \in alive
                                /\ p \in Positions(owners[p].id)
                                /\ owners[p] = nodes[owners[p].id]
    /\ \A m \in alive : \A p \in Private(m) : p \in DOMAIN owners /\ owners[p].id = m

\* How far m is from h: the distance to the nearest position it owns.
Distance(h, m) ==
    LET far == {(p - h) % Circle : p \in {q \in DOMAIN owners : owners[q].id = m}}
    IN CHOOSE d \in far : \A e \in far : d <= e

\* GetNSuccessors returns the n members nearest to the key in clockwise order,
\* each once, or all of them if there are fewer, and GetNode the nearest, though
\* the list holds positions twice and an owner many times.
SuccessorsAreNearest ==
    \A h \in Position, n \in 1 .. Cardinality(Nodes) :
        LET result == GetNSuccessors(h, n)
        IN /\ Len(result) = Capped(n)
           /\ \A i \in DOMAIN result :
                 Cardinality({m \in alive : Distance(h, m) < Distance(h, result[i])}) = i - 1
           /\ alive # {} => GetNode(h) = result[1]

\* The elements of s but m are in t, at the same place or, after m, one earlier.
KeepPlaces(s, t, m) ==
    \A i \in DOMAIN s : s[i] # m =>
        \E j \in DOMAIN t : /\ t[j] = s[i]
                            /\ j = IF m \in {s[k] : k \in 1 .. i - 1} THEN i - 1 ELSE i

\* Replica placement moves as little as it can: a node that joins is put into the
\* replica sets of some keys and pushes at most the last one out, a node that
\* leaves is taken out and the others keep their order, and a node that adds
\* itself again changes nothing.  Only a node that shares a position with another
\* may move more.
MinimalMovement ==
    [][\A h \in Position, n \in 1 .. Cardinality(Nodes) :
       \A before \in {GetNSuccessors(h, n)}, after \in {GetNSuccessors(h, n)'} :
       \A m \in {q \in Nodes : Private(q) = Positions(q)} :
            /\ (m \in alive' \ alive) => KeepPlaces(after, before, m)
            /\ (m \in alive \ alive') => KeepPlaces(before, after, m)
            /\ (m = Self /\ alive' = alive) => after = before]_vars

\* The last event about m in the channel is a join.
TellsJoin(ch, m) ==
    \E i \in DOMAIN ch : /\ ch[i] = <<"join", m>>
                         /\ \A j \in i + 1 .. Len(ch) : ch[j][2] # m

\* As long as every event found room in the channel, replaying it gives exactly
\* the members of the ring, the node itself and nodes that rejoin included.
ChannelTellsMembers ==
    events <= ChannelCap => {m \in Nodes : TellsJoin(EventCh, m)} = DOMAIN nodes
=============================================================================
