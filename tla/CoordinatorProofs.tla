------------------------- MODULE CoordinatorProofs -------------------------
(***************************************************************************)
(* The acknowledgements of the coordinator, for every set of nodes, every  *)
(* ring, every number of calls in flight and every kind of failure.        *)
(***************************************************************************)
EXTENDS Coordinator, FiniteSetTheorems, WellFoundedInduction, NaturalsInduction, TLAPS

Two(S) == \E m, n \in S : m # n

\* Of the engines S that executed an operation, r is one or there are two.
Carried(S, r) == r \in S \/ Two(S)

\* Some forwarded call found no other node in its ring.
LoneRing == \E d \in Calls : Forwarded(d) /\ calls[d].replicas = {calls[d].node}

\* S is n alone, or one other node because somebody is shutting down.
Alone(S, n) == \E m \in Nodes : S = {m} /\ (leaving = {} => m = n)

\* A forwarded call waits for two replicas or has a ring of one node alone.
LoneOrTwo(c) == \/ calls[c].need >= 2 /\ Two(calls[c].replicas)
                \/ calls[c].need >= 1 /\ Alone(calls[c].replicas, calls[c].node)

\* A forwarded call is for the operation of the call that made it.
Linked(c) == calls[c].caller \in Calls =>
                /\ Used(calls[c].caller)
                /\ calls[calls[c].caller].root = calls[c].root
                /\ calls[calls[c].caller].op = calls[c].op

\* What the answers a call has counted stand for.
Counted(c) == /\ calls[c].ok \subseteq calls[c].replicas
              /\ calls[c].waiting \subseteq calls[c].replicas
              /\ (leaving = {} /\ calls[c].op # "get") =>
                    \A r \in calls[c].ok : Carried(done[calls[c].root], r)
              /\ \A r \in calls[c].ok : r # calls[c].node => LoneRing

\* What the success of a call stands for.
Answered(c) == /\ calls[c].status = "notfound" => calls[c].op = "get"
               /\ (leaving = {} /\ calls[c].status = "ok" /\ calls[c].op # "get") =>
                    /\ calls[c].need >= 2 => Two(done[calls[c].root])
                    /\ Forwarded(c) => Carried(done[calls[c].root], calls[c].node)
               /\ Forwarded(c) /\ Succeeded(c) => LoneRing

CallOK(c) == /\ Linked(c)
             /\ Forwarded(c) => LoneOrTwo(c)
             /\ Counted(c)
             /\ Answered(c)

CInv == TypeOK /\ \A c \in Calls : Used(c) => CallOK(c)
-----------------------------------------------------------------------------
\* A set with two members or more has two different ones.
LEMMA TwoMembers ==
    ASSUME NEW S, IsFiniteSet(S), NEW k \in Nat, k >= 2, Cardinality(S) >= k
    PROVE  Two(S)
<1>1. Cardinality(S) \in Nat
  BY FS_CardinalityType
<1>2. S # {}
  BY <1>1, FS_EmptySet
<1>3. PICK m \in S : TRUE
  BY <1>2
<1>4. S # {m}
  BY <1>1, FS_Singleton
<1> QED BY <1>3, <1>4 DEF Two

\* Two different members make a set of at least two.
LEMMA TwoCounts ==
    ASSUME NEW S, IsFiniteSet(S), Two(S)
    PROVE  Cardinality(S) \in Nat /\ Cardinality(S) >= 2
<1>1. Cardinality(S) \in Nat
  BY FS_CardinalityType
<1>2. S # {} /\ \A m : S # {m}
  BY DEF Two
<1>3. Cardinality(S) # 0
  BY <1>2, FS_EmptySet
<1>4. Cardinality(S) # 1
  BY <1>2, FS_Singleton
<1> QED BY <1>1, <1>3, <1>4

\* A nonempty set of nodes has one that comes first on the ring.
LEMMA FirstNode ==
    ASSUME NEW S \in SUBSET Nodes, S # {}
    PROVE  \E m \in S : \A q \in S : Rank[m] <= Rank[q]
<1> DEFINE R == OpToRel(<, Nat)
           T == {Rank[q] : q \in S}
<1>1. T \subseteq Nat /\ T # {}
  BY RankAssumption
<1>2. PICK y \in T : \A z \in T : ~(<<z, y>> \in R)
  BY <1>1, NatLessThanWellFounded, WFMin
<1>3. PICK m \in S : y = Rank[m]
  BY <1>2
<1>4. ASSUME NEW q \in S PROVE Rank[m] <= Rank[q]
  <2>1. Rank[q] \in T /\ Rank[q] \in Nat /\ Rank[m] \in Nat
    BY RankAssumption
  <2>2. ~(Rank[q] < y)
    BY <1>2, <1>3, <2>1 DEF OpToRel
  <2> QED BY <1>3, <2>1, <2>2
<1> QED BY <1>4

\* The replicas of a key are nodes, finitely many.
LEMMA ReplicasType ==
    ASSUME TypeOK, NEW n \in Nodes
    PROVE  /\ Replicas(n) \in SUBSET Nodes
           /\ IsFiniteSet(Replicas(n))
           /\ Cardinality(Replicas(n)) \in Nat
<1>1. Replicas(n) \in SUBSET Nodes
  BY DEF TypeOK, Replicas
<1> QED BY <1>1, NodesAssumption, FS_Subset, FS_CardinalityType

\* getReplicas finds two different nodes, or one alone.
LEMMA ReplicasLoneOrTwo ==
    ASSUME TypeOK, NEW n \in Nodes
    PROVE  Alone(Replicas(n), n) \/ Two(Replicas(n))
<1> DEFINE V == view[n]
           Before(m) == {q \in V : Rank[q] < Rank[m]}
<1>0. CASE V = {}
  BY <1>0 DEF Replicas, Alone
<1> SUFFICES ASSUME V # {} PROVE Alone(Replicas(n), n) \/ Two(Replicas(n))
  BY <1>0
<1>1. V \in SUBSET Nodes /\ (leaving = {} => n \in V)
  BY DEF TypeOK
<1>2. \A m \in V : Rank[m] \in Nat
  BY <1>1, RankAssumption
<1>3. \A m \in V : Cardinality(Before(m)) < N => m \in Replicas(n)
  BY DEF Replicas
<1>4. PICK m1 \in V : \A q \in V : Rank[m1] <= Rank[q]
  BY <1>1, FirstNode
<1>5. m1 \in Replicas(n)
  <2>1. Before(m1) = {}
    BY <1>2, <1>4
  <2>2. Cardinality(Before(m1)) = 0
    BY <2>1, FS_EmptySet
  <2> QED BY <1>3, <2>2, NAssumption
<1>6. CASE V = {m1}
  <2>1. Replicas(n) \subseteq V
    BY DEF Replicas
  <2>2. Replicas(n) = {m1}
    BY <1>5, <1>6, <2>1
  <2> QED BY <1>1, <1>6, <2>2 DEF Alone
<1>7. CASE V # {m1}
  <2> DEFINE W == V \ {m1}
  <2>1. W \in SUBSET Nodes /\ W # {}
    BY <1>1, <1>7
  <2> HIDE DEF W
  <2>2. PICK m2 \in W : \A q \in W : Rank[m2] <= Rank[q]
    BY <2>1, FirstNode
  <2>3. m2 \in V /\ m2 # m1
    BY <2>2 DEF W
  <2>4. Before(m2) \subseteq {m1}
    BY <1>2, <2>2, <2>3 DEF W
  <2>5. IsFiniteSet({m1}) /\ Cardinality({m1}) = 1
    BY FS_Singleton
  <2>6. Cardinality(Before(m2)) \in Nat /\ Cardinality(Before(m2)) <= 1
    <3> HIDE DEF Before
    <3> QED BY <2>4, <2>5, FS_Subset, FS_CardinalityType
  <2>7. Cardinality(Before(m2)) < N
    BY <2>6, NAssumption
  <2>8. m2 \in Replicas(n)
    BY <1>3, <2>3, <2>7
  <2> QED BY <1>5, <2>3, <2>8 DEF Two
<1> QED BY <1>6, <1>7

\* quorumSizeFor asks for a natural number of answers.
LEMMA QuorumType ==
    ASSUME NEW level, NEW a \in Nat
    PROVE  quorumSizeFor(level, a) \in Nat
BY NAssumption DEF quorumSizeFor

\* At the default level it asks for one of one, and for two of two or more.
LEMMA QuorumDefault ==
    ASSUME NEW a \in Nat
    PROVE  /\ a = 1 => quorumSizeFor("quorum", a) >= 1
           /\ a >= 2 => quorumSizeFor("quorum", a) >= 2
<1> DEFINE n == CASE a = 0 -> 1
                  [] a \in 1 .. N -> a
                  [] OTHER -> N
<1>1. n \in Nat /\ n >= 1 /\ (a >= 2 => n >= 2)
  BY NAssumption
<1>2. quorumSizeFor("quorum", a) = (n \div 2) + 1
  BY DEF quorumSizeFor
<1> HIDE DEF n
<1> QED BY <1>1, <1>2
-----------------------------------------------------------------------------
\* What no step changes of a call in use, nor takes back from the history.
Same(c) == /\ calls'[c].op = calls[c].op
           /\ calls'[c].node = calls[c].node
           /\ calls'[c].caller = calls[c].caller
           /\ calls'[c].root = calls[c].root
           /\ calls'[c].replicas = calls[c].replicas
           /\ calls'[c].need = calls[c].need

Kept == /\ \A c \in Calls : Used(c) => Used(c)' /\ Same(c)
        /\ \A c \in Calls : done[c] \subseteq done'[c]
        /\ leaving \subseteq leaving'

\* A call in use is a record of type Call.
LEMMA UsedCall ==
    ASSUME TypeOK, NEW c \in Calls, Used(c)
    PROVE  calls[c] \in Call
<1>1. calls[c] \in Call \cup {Unused}
  BY DEF TypeOK
<1>2. Unused.status = "unused"
  BY DEF Unused
<1> QED BY <1>1, <1>2 DEF Used

\* The fields of a call in use.
LEMMA CallFields ==
    ASSUME TypeOK, NEW c \in Calls, Used(c)
    PROVE  /\ calls[c].op \in {"put", "get", "del"}
           /\ calls[c].node \in Nodes
           /\ calls[c].val \in Values \cup {None}
           /\ calls[c].caller \in Calls \cup {"client", "repair"}
           /\ calls[c].root \in Calls
           /\ calls[c].hops \in Nat
           /\ calls[c].replicas \subseteq Nodes
           /\ calls[c].need \in Nat
           /\ calls[c].waiting \subseteq Nodes
           /\ calls[c].ok \subseteq Nodes
           /\ calls[c].vals \in [Nodes -> Entry]
           /\ calls[c].status \in {"open", "ok", "notfound", "err"}
           /\ calls[c].res \in Entry
           /\ calls[c].repair \subseteq Nodes
BY UsedCall DEF Call

\* A new call is of type Call.
LEMMA NewCallType ==
    ASSUME TypeOK, NEW op \in {"put", "get", "del"}, NEW n \in Nodes,
           NEW v \in Values \cup {None}, NEW level,
           NEW caller \in Calls \cup {"client", "repair"}, NEW root \in Calls,
           NEW hops \in Nat
    PROVE  NewCall(op, n, v, level, caller, root, hops) \in Call
<1> DEFINE need == quorumSizeFor(level, Cardinality(Replicas(n)))
<1>1. Replicas(n) \in SUBSET Nodes /\ need \in Nat
  BY ReplicasType, QuorumType
<1>2. Absent \in Entry /\ [m \in Nodes |-> Absent] \in [Nodes -> Entry]
  BY DEF Absent, Entry
<1> HIDE DEF need
<1>3. [op |-> op, node |-> n, val |-> v, caller |-> caller, root |-> root,
       hops |-> hops, replicas |-> Replicas(n), need |-> need,
       waiting |-> Replicas(n), ok |-> {}, vals |-> [m \in Nodes |-> Absent],
       status |-> "open", res |-> Absent, repair |-> {}] \in Call
  BY <1>1, <1>2 DEF Call
<1> QED BY <1>3 DEF NewCall, need

\* What a step that keeps the calls keeps of the facts about them.
LEMMA Stable ==
    ASSUME CInv, Kept
    PROVE  /\ LoneRing => LoneRing'
           /\ \A root \in Calls : \A r : Carried(done[root], r) => Carried(done'[root], r)
           /\ \A root \in Calls : Two(done[root]) => Two(done'[root])
           /\ leaving' = {} => leaving = {}
           /\ \A c \in Calls : Used(c) => /\ Forwarded(c)' = Forwarded(c)
                                          /\ Linked(c)'
                                          /\ Forwarded(c) => LoneOrTwo(c)'
<1>1. \A root \in Calls : Two(done[root]) => Two(done'[root])
  BY DEF Kept, Two
<1>2. \A root \in Calls : \A r : Carried(done[root], r) => Carried(done'[root], r)
  BY <1>1 DEF Kept, Carried
<1>3. ASSUME LoneRing PROVE LoneRing'
  <2>1. PICK d \in Calls : Forwarded(d) /\ calls[d].replicas = {calls[d].node}
    BY <1>3 DEF LoneRing
  <2>2. Used(d) /\ Used(d)' /\ Same(d)
    BY <2>1 DEF Forwarded, Kept
  <2>3. Forwarded(d)' /\ calls'[d].replicas = {calls'[d].node}
    BY <2>1, <2>2 DEF Forwarded, Same
  <2> QED BY <2>3 DEF LoneRing
<1>4. ASSUME NEW c \in Calls, Used(c)
      PROVE  Forwarded(c)' = Forwarded(c) /\ Linked(c)' /\ (Forwarded(c) => LoneOrTwo(c)')
  <2>1. Used(c)' /\ Same(c) /\ CallOK(c)
    BY <1>4 DEF Kept, CInv
  <2>2. Forwarded(c)' = Forwarded(c)
    BY <1>4, <2>1 DEF Forwarded, Same
  <2>3. Forwarded(c) => LoneOrTwo(c)'
    BY <2>1 DEF CallOK, LoneOrTwo, Alone, Same, Kept
  <2>4. Linked(c)'
    <3>1. CASE calls[c].caller \in Calls
      <4>1. /\ Used(calls[c].caller)
            /\ calls[calls[c].caller].root = calls[c].root
            /\ calls[calls[c].caller].op = calls[c].op
        BY <2>1, <3>1 DEF CallOK, Linked
      <4>2. Used(calls[c].caller)' /\ Same(calls[c].caller)
        <5>1. PICK p \in Calls : p = calls[c].caller
          BY <3>1
        <5>2. calls'[c].caller = p
          BY <2>1, <5>1 DEF Same
        <5>3. Used(p)' /\ Same(p)
          BY <4>1, <5>1 DEF Kept
        <5> QED BY <5>1, <5>2, <5>3 DEF Same, Used
      <4> QED BY <2>1, <4>1, <4>2 DEF Linked, Same, Used
    <3>2. CASE calls[c].caller \notin Calls
      BY <2>1, <3>2 DEF Linked, Same
    <3> QED BY <3>1, <3>2
  <2> QED BY <2>2, <2>3, <2>4
<1>5. leaving' = {} => leaving = {}
  BY DEF Kept
<1> QED BY <1>1, <1>2, <1>3, <1>4, <1>5

\* A call that counts no answer and does not succeed stays as good as it was.
LEMMA Quiet ==
    ASSUME CInv, Kept, NEW c \in Calls, Used(c),
           calls'[c].ok = calls[c].ok, calls'[c].waiting \subseteq calls[c].waiting,
           calls'[c].status \in {calls[c].status, "err"}
    PROVE  CallOK(c)'
<1>1. Same(c) /\ CallOK(c) /\ calls[c].root \in Calls
  BY CallFields DEF Kept, CInv
<1>2. /\ LoneRing => LoneRing'
      /\ leaving' = {} => leaving = {}
      /\ \A r : Carried(done[calls[c].root], r) => Carried(done'[calls'[c].root], r)
      /\ Two(done[calls[c].root]) => Two(done'[calls'[c].root])
      /\ Forwarded(c)' = Forwarded(c) /\ Linked(c)' /\ (Forwarded(c) => LoneOrTwo(c)')
  BY <1>1, Stable DEF Same
<1>3. Counted(c)'
  <2>1. Counted(c)
    BY <1>1 DEF CallOK
  <2> QED BY <1>1, <1>2, <2>1 DEF Counted, Same
<1>4. Answered(c)'
  <2>1. Answered(c)
    BY <1>1 DEF CallOK
  <2>2. CASE calls'[c].status = "err"
    BY <2>2 DEF Answered, Succeeded
  <2>3. CASE calls'[c].status = calls[c].status
    <3>1. Succeeded(c)' = Succeeded(c)
      BY <2>3 DEF Succeeded
    <3> QED BY <1>1, <1>2, <2>1, <2>3, <3>1 DEF Answered, Same
  <2> QED BY <2>2, <2>3
<1> QED BY <1>2, <1>3, <1>4 DEF CallOK

\* Counting an answer needs what the answer stands for.
LEMMA Counts ==
    ASSUME CInv, Kept, NEW c \in Calls, Used(c), NEW r \in calls[c].waiting,
           calls'[c].ok = calls[c].ok \cup {r},
           calls'[c].waiting \subseteq calls[c].waiting,
           calls'[c].status = calls[c].status,
           (leaving' = {} /\ calls[c].op # "get") => Carried(done'[calls[c].root], r),
           r # calls[c].node => LoneRing'
    PROVE  CallOK(c)'
<1>1. Same(c) /\ CallOK(c) /\ calls[c].root \in Calls
  BY CallFields DEF Kept, CInv
<1>2. /\ LoneRing => LoneRing'
      /\ leaving' = {} => leaving = {}
      /\ \A q : Carried(done[calls[c].root], q) => Carried(done'[calls'[c].root], q)
      /\ Two(done[calls[c].root]) => Two(done'[calls'[c].root])
      /\ Forwarded(c)' = Forwarded(c) /\ Linked(c)' /\ (Forwarded(c) => LoneOrTwo(c)')
  BY <1>1, Stable DEF Same
<1>3. Counted(c)'
  <2>1. Counted(c)
    BY <1>1 DEF CallOK
  <2> QED BY <1>1, <1>2, <2>1 DEF Counted, Same
<1>4. Answered(c)'
  <2>1. Answered(c)
    BY <1>1 DEF CallOK
  <2>2. Succeeded(c)' = Succeeded(c)
    BY DEF Succeeded
  <2> QED BY <1>1, <1>2, <2>1, <2>2 DEF Answered, Same
<1> QED BY <1>2, <1>3, <1>4 DEF CallOK

\* A call that succeeds has the answers of as many replicas as it needs; a Get
\* that finds nothing has those of all.
LEMMA Returns ==
    ASSUME CInv, Kept, NEW c \in Calls, Used(c),
           calls'[c].ok = calls[c].ok, calls'[c].waiting \subseteq calls[c].waiting,
           \/ calls'[c].status = "ok" /\ Cardinality(calls[c].ok) >= calls[c].need
           \/ /\ calls'[c].status = "notfound" /\ calls[c].op = "get"
              /\ calls[c].ok = calls[c].replicas
    PROVE  CallOK(c)'
<1> DEFINE x == calls[c]
<1>1. Same(c) /\ CallOK(c) /\ x.root \in Calls /\ x.need \in Nat
  BY CallFields DEF Kept, CInv
<1>2. /\ LoneRing => LoneRing'
      /\ leaving' = {} => leaving = {}
      /\ \A r : Carried(done[x.root], r) => Carried(done'[calls'[c].root], r)
      /\ Two(done[x.root]) => Two(done'[calls'[c].root])
      /\ Forwarded(c)' = Forwarded(c) /\ Linked(c)' /\ (Forwarded(c) => LoneOrTwo(c)')
  BY <1>1, Stable DEF Same
<1>3. IsFiniteSet(x.ok)
  BY CallFields, NodesAssumption, FS_Subset DEF CInv
<1>4. Counted(c)'
  <2>1. Counted(c)
    BY <1>1 DEF CallOK
  <2> QED BY <1>1, <1>2, <2>1 DEF Counted, Same
<1>5. (calls'[c].status = "ok" /\ x.need >= 2) => Two(x.ok)
  BY <1>1, <1>3, TwoMembers
<1>6. (calls'[c].status = "ok" /\ x.need >= 1) => x.ok # {}
  BY <1>1, <1>3, FS_EmptySet
<1>7. ASSUME leaving = {}, x.op # "get", calls'[c].status = "ok"
      PROVE  /\ x.need >= 2 => Two(done[x.root])
             /\ Forwarded(c) => Carried(done[x.root], x.node)
  <2>1. \A r \in x.ok : r \in done[x.root] \/ Two(done[x.root])
    BY <1>1, <1>7 DEF CallOK, Counted, Carried
  <2>2. x.need >= 2 => Two(done[x.root])
    BY <1>5, <1>7, <2>1 DEF Two
  <2>3. ASSUME Forwarded(c) PROVE Carried(done[x.root], x.node)
    <3>1. CASE x.need >= 2
      BY <2>2, <3>1 DEF Carried
    <3>2. CASE x.need >= 1 /\ Alone(x.replicas, x.node)
      <4>0. x.replicas = {x.node}
        BY <1>7, <3>2 DEF Alone
      <4>1. x.node \in x.ok
        BY <1>1, <1>6, <1>7, <3>2, <4>0 DEF CallOK, Counted
      <4> QED BY <2>1, <4>1 DEF Carried
    <3> QED BY <1>1, <2>3, <3>1, <3>2 DEF CallOK, LoneOrTwo
  <2> QED BY <2>2, <2>3
<1>8. ASSUME Forwarded(c) PROVE LoneRing
  <2>1. CASE x.need >= 1 /\ Alone(x.replicas, x.node)
    <3>1. PICK m \in Nodes : x.replicas = {m}
      BY <2>1 DEF Alone
    <3>2. x.ok # {}
      BY <1>6, <2>1, <3>1
    <3>3. CASE m = x.node
      BY <1>8, <3>1, <3>3 DEF LoneRing
    <3>4. CASE m # x.node
      BY <1>1, <3>1, <3>2, <3>4 DEF CallOK, Counted
    <3> QED BY <3>3, <3>4
  <2>2. CASE x.need >= 2 /\ Two(x.replicas)
    <3>1. Two(x.ok)
      BY <1>5, <2>2
    <3>2. PICK r \in x.ok : r # x.node
      BY <3>1 DEF Two
    <3> QED BY <1>1, <3>2 DEF CallOK, Counted
  <2> QED BY <1>1, <1>8, <2>1, <2>2 DEF CallOK, LoneOrTwo
<1>9. Answered(c)'
  BY <1>1, <1>2, <1>7, <1>8 DEF Answered, Same
<1> QED BY <1>2, <1>4, <1>9 DEF CallOK

\* A call that starts, for a client at any level or forwarded at the default.
LEMMA Starts ==
    ASSUME CInv, Kept, NEW d \in Calls, NEW op, NEW n \in Nodes, NEW v, NEW level,
           NEW caller, NEW root, NEW hops,
           caller = "client" \/ level = "quorum",
           caller \in Calls => /\ Used(caller)
                               /\ calls[caller].root = root
                               /\ calls[caller].op = op,
           calls'[d] = NewCall(op, n, v, level, caller, root, hops)
    PROVE  CallOK(d)'
<1> DEFINE R == Replicas(n)
           need == quorumSizeFor(level, Cardinality(R))
<1>1. /\ calls'[d].op = op /\ calls'[d].node = n /\ calls'[d].caller = caller
      /\ calls'[d].root = root /\ calls'[d].replicas = R /\ calls'[d].need = need
      /\ calls'[d].ok = {} /\ calls'[d].waiting = R /\ calls'[d].status = "open"
  BY DEF NewCall
<1> HIDE DEF R, need
<1>2. Linked(d)'
  <2>1. caller \in Calls => Used(caller)' /\ Same(caller)
    BY DEF Kept
  <2> QED BY <1>1, <2>1 DEF Linked, Same, Used
<1>3. ASSUME Forwarded(d)' PROVE LoneOrTwo(d)'
  <2>1. level = "quorum"
    BY <1>1, <1>3 DEF Forwarded
  <2>2. TypeOK /\ IsFiniteSet(R) /\ Cardinality(R) \in Nat
    BY ReplicasType DEF CInv, R
  <2>3. CASE Alone(R, n)
    <3>1. Cardinality(R) = 1
      BY <2>3, FS_Singleton DEF Alone
    <3>2. need >= 1
      BY <2>1, <2>2, <3>1, QuorumDefault DEF need
    <3>3. \E m \in Nodes : R = {m} /\ (leaving' = {} => m = n)
      BY <2>3 DEF Alone, Kept
    <3> QED BY <1>1, <3>2, <3>3 DEF LoneOrTwo, Alone
  <2>4. CASE Two(R)
    <3>1. Cardinality(R) >= 2
      BY <2>2, <2>4, TwoCounts
    <3>2. need >= 2
      BY <2>1, <2>2, <3>1, QuorumDefault DEF need
    <3> QED BY <1>1, <2>4, <3>2 DEF LoneOrTwo
  <2> QED BY <2>2, <2>3, <2>4, ReplicasLoneOrTwo DEF R
<1>4. Counted(d)' /\ Answered(d)'
  BY <1>1 DEF Counted, Answered, Succeeded
<1> QED BY <1>2, <1>3, <1>4 DEF CallOK

\* A step that changes one call in use, and of it no lasting field.
LEMMA Update ==
    ASSUME CInv, NEW c \in Calls, Used(c), NEW y \in Call,
           calls' = [calls EXCEPT ![c] = y],
           y.op = calls[c].op, y.node = calls[c].node, y.caller = calls[c].caller,
           y.root = calls[c].root, y.replicas = calls[c].replicas,
           y.need = calls[c].need,
           \A e \in Calls : done[e] \subseteq done'[e],
           UNCHANGED <<view, leaving>>
    PROVE  /\ calls' \in [Calls -> Call \cup {Unused}] /\ calls'[c] = y
           /\ Kept
           /\ \A e \in Calls \ {c} : Used(e)' => CallOK(e)'
<1>1. calls \in [Calls -> Call \cup {Unused}]
  BY DEF CInv, TypeOK
<1>2. /\ calls' \in [Calls -> Call \cup {Unused}] /\ calls'[c] = y
      /\ \A e \in Calls \ {c} : calls'[e] = calls[e]
  BY <1>1
<1>3. Used(c)'
  BY <1>2 DEF Used, Call
<1>4. Kept
  BY <1>2, <1>3 DEF Kept, Same, Used
<1>5. ASSUME NEW e \in Calls \ {c}, Used(e)' PROVE CallOK(e)'
  <2>1. Used(e) /\ calls'[e] = calls[e]
    BY <1>2, <1>5 DEF Used
  <2> QED BY <1>4, <2>1, Quiet
<1> QED BY <1>2, <1>4, <1>5

\* A step that starts one call.
LEMMA StartOne ==
    ASSUME CInv, NEW d \in Calls, ~Used(d), NEW y \in Call,
           calls' = [calls EXCEPT ![d] = y], UNCHANGED <<done, view, leaving>>
    PROVE  /\ calls' \in [Calls -> Call \cup {Unused}] /\ calls'[d] = y
           /\ Kept
           /\ \A e \in Calls \ {d} : Used(e)' => CallOK(e)'
<1>1. calls \in [Calls -> Call \cup {Unused}]
  BY DEF CInv, TypeOK
<1>2. /\ calls' \in [Calls -> Call \cup {Unused}] /\ calls'[d] = y
      /\ \A e \in Calls \ {d} : calls'[e] = calls[e]
  BY <1>1
<1>3. Kept
  BY <1>2 DEF Kept, Same, Used
<1>4. ASSUME NEW e \in Calls \ {d}, Used(e)' PROVE CallOK(e)'
  <2>1. Used(e) /\ calls'[e] = calls[e]
    BY <1>2, <1>4 DEF Used
  <2> QED BY <1>3, <2>1, Quiet
<1> QED BY <1>2, <1>3, <1>4
-----------------------------------------------------------------------------
(***************************************************************************)
(* Every action preserves CInv.                                            *)
(***************************************************************************)

\* A client request starts a call that has counted nothing.
LEMMA RequestStep ==
    ASSUME CInv, NEW c \in Requests, NEW op \in Ops, NEW n \in Nodes,
           NEW v \in Values \cup {None}, NEW level, Request(c, op, n, v, level)
    PROVE  CInv'
<1>1. TypeOK /\ c \in Calls /\ op \in {"put", "get", "del"} /\ ~Used(c)
  BY CallsAssumption, OpsAssumption DEF CInv, Request
<1>2. PICK y : y = NewCall(op, n, v, level, "client", c, 0)
  OBVIOUS
<1>3. y \in Call
  BY <1>1, <1>2, NewCallType
<1>4. calls' = [calls EXCEPT ![c] = y] /\ UNCHANGED <<view, leaving, store, clock, hints, done>>
  BY <1>2 DEF Request, members
<1>5. /\ calls' \in [Calls -> Call \cup {Unused}] /\ calls'[c] = y /\ Kept
      /\ \A e \in Calls \ {c} : Used(e)' => CallOK(e)'
  BY <1>1, <1>3, <1>4, StartOne
<1>6. CallOK(c)'
  <2>1. "client" \notin Calls
    BY CallsAssumption
  <2>2. calls'[c] = NewCall(op, n, v, level, "client", c, 0)
    BY <1>2, <1>5
  <2> QED BY <1>1, <1>5, <2>1, <2>2, Starts
<1>7. TypeOK'
  BY <1>1, <1>4, <1>5 DEF TypeOK
<1> QED BY <1>5, <1>6, <1>7 DEF CInv

\* A forwarded request starts a call for the same operation.
LEMMA SendStep ==
    ASSUME CInv, NEW c \in Calls, NEW r \in Nodes, NEW d \in Calls, Send(c, r, d)
    PROVE  CInv'
<1>1. TypeOK /\ Used(c) /\ ~Used(d)
  BY DEF CInv, Send
<1>2. /\ calls[c].op \in {"put", "get", "del"} /\ calls[c].val \in Values \cup {None}
      /\ calls[c].root \in Calls /\ calls[c].hops + 1 \in Nat
  BY <1>1, CallFields
<1>3. PICK op, v, root, hops : /\ op = calls[c].op /\ v = calls[c].val
                               /\ root = calls[c].root /\ hops = calls[c].hops + 1
  OBVIOUS
<1>4. PICK y : y = NewCall(op, r, v, "quorum", c, root, hops)
  OBVIOUS
<1>5. y \in Call
  BY <1>1, <1>2, <1>3, <1>4, NewCallType
<1>6. calls' = [calls EXCEPT ![d] = y] /\ UNCHANGED <<view, leaving, store, clock, hints, done>>
  BY <1>3, <1>4 DEF Send, members
<1>7. /\ calls' \in [Calls -> Call \cup {Unused}] /\ calls'[d] = y /\ Kept
      /\ \A e \in Calls \ {d} : Used(e)' => CallOK(e)'
  BY <1>1, <1>5, <1>6, StartOne
<1>8. CallOK(d)'
  <2>1. calls'[d] = NewCall(op, r, v, "quorum", c, root, hops)
    BY <1>4, <1>7
  <2> QED BY <1>1, <1>3, <1>7, <2>1, Starts
<1>9. TypeOK'
  BY <1>1, <1>6, <1>7 DEF TypeOK
<1> QED BY <1>7, <1>8, <1>9 DEF CInv

\* The local engine executes the operation before its answer is counted.
LEMMA LocalStep ==
    ASSUME CInv, NEW c \in Calls, Local(c)
    PROVE  CInv'
<1>1. TypeOK /\ Used(c)
  BY DEF CInv, Local
<1>2. PICK n, t : n = calls[c].node /\ t = calls[c].root
  OBVIOUS
<1>3. /\ n \in calls[c].waiting /\ n \in Nodes /\ t \in Calls
      /\ calls[c].val \in Values \cup {None} /\ store[n] \in Entry
  BY <1>1, <1>2, CallFields DEF Local, TypeOK
<1>4. done' = [done EXCEPT ![t] = @ \cup {n}]
  BY <1>2 DEF Local, Execute
<1>5. /\ done' \in [Calls -> SUBSET Nodes] /\ n \in done'[t]
      /\ \A e \in Calls : done[e] \subseteq done'[e]
  BY <1>1, <1>3, <1>4 DEF TypeOK
<1>6. PICK y : y = [calls[c] EXCEPT !.waiting = @ \ {n}, !.ok = @ \cup {n},
                                    !.vals[n] = store[n]]
  OBVIOUS
<1>7. calls' = [calls EXCEPT ![c] = y]
  BY <1>1, <1>2, <1>6, UsedCall DEF Local, TypeOK, Call
<1>8. /\ y \in Call
      /\ y.op = calls[c].op /\ y.node = calls[c].node /\ y.caller = calls[c].caller
      /\ y.root = calls[c].root /\ y.replicas = calls[c].replicas
      /\ y.need = calls[c].need /\ y.status = calls[c].status
      /\ y.ok = calls[c].ok \cup {n} /\ y.waiting \subseteq calls[c].waiting
  BY <1>1, <1>3, <1>6, UsedCall, ZenonT(60) DEF Call
<1>9. /\ calls' \in [Calls -> Call \cup {Unused}] /\ calls'[c] = y /\ Kept
      /\ \A e \in Calls \ {c} : Used(e)' => CallOK(e)'
  <2>1. UNCHANGED <<view, leaving>>
    BY DEF Local, members
  <2> QED BY <1>1, <1>5, <1>7, <1>8, <2>1, Update
<1>10. CallOK(c)'
  BY <1>1, <1>2, <1>3, <1>5, <1>8, <1>9, Counts DEF Carried
<1>11. TypeOK'
  <2>1. store' \in [Nodes -> Entry] /\ clock' \in Nat
    BY <1>1, <1>2, <1>3 DEF Local, Execute, TypeOK, Entry, Absent
  <2>2. UNCHANGED <<view, leaving, hints>>
    BY DEF Local, members
  <2> QED BY <1>1, <1>5, <1>9, <2>1, <2>2 DEF TypeOK
<1> QED BY <1>9, <1>10, <1>11 DEF CInv

\* A step that changes one call and no history, of it the fields that pass.
LEMMA OneCallStep ==
    ASSUME CInv, NEW c \in Calls, Used(c), NEW y \in Call,
           calls' = [calls EXCEPT ![c] = y],
           y.op = calls[c].op, y.node = calls[c].node, y.caller = calls[c].caller,
           y.root = calls[c].root, y.replicas = calls[c].replicas,
           y.need = calls[c].need,
           y.ok = calls[c].ok, y.waiting \subseteq calls[c].waiting,
           \/ y.status \in {calls[c].status, "err"}
           \/ y.status = "ok" /\ Cardinality(calls[c].ok) >= calls[c].need
           \/ y.status = "notfound" /\ calls[c].op = "get" /\ y.ok = calls[c].replicas,
           UNCHANGED <<done, view, leaving>>,
           store' \in [Nodes -> Entry], clock' \in Nat,
           hints' \subseteq Nodes \X Nodes \X (Values \cup {None})
    PROVE  CInv'
<1>1. /\ calls' \in [Calls -> Call \cup {Unused}] /\ calls'[c] = y /\ Kept
      /\ \A e \in Calls \ {c} : Used(e)' => CallOK(e)'
  BY Update
<1>2. CallOK(c)'
  BY <1>1, Quiet, Returns
<1>3. TypeOK'
  BY <1>1 DEF CInv, TypeOK
<1> QED BY <1>1, <1>2, <1>3 DEF CInv

\* A local error ends the goroutine and counts nothing.
LEMMA LocalErrorStep ==
    ASSUME CInv, NEW c \in Calls, LocalError(c)
    PROVE  CInv'
<1>1. TypeOK /\ Used(c) /\ calls[c] \in Call
  BY UsedCall DEF CInv, LocalError
<1>2. PICK y : y = [calls[c] EXCEPT !.waiting = @ \ {calls[c].node}]
  OBVIOUS
<1>3. calls' = [calls EXCEPT ![c] = y]
  BY <1>1, <1>2 DEF LocalError, TypeOK, Call
<1>4. /\ y \in Call
      /\ y.op = calls[c].op /\ y.node = calls[c].node /\ y.caller = calls[c].caller
      /\ y.root = calls[c].root /\ y.replicas = calls[c].replicas
      /\ y.need = calls[c].need /\ y.status = calls[c].status
      /\ y.ok = calls[c].ok /\ y.waiting \subseteq calls[c].waiting
  BY <1>1, <1>2 DEF Call
<1>5. /\ UNCHANGED <<view, leaving, done>> /\ store' \in [Nodes -> Entry] /\ clock' \in Nat
      /\ hints' \subseteq Nodes \X Nodes \X (Values \cup {None})
  BY <1>1 DEF LocalError, members, TypeOK
<1> QED BY <1>1, <1>3, <1>4, <1>5, OneCallStep

\* The error path of a remote goroutine counts nothing.
LEMMA DropStep ==
    ASSUME CInv, NEW c \in Calls, NEW r \in Nodes, Used(c), Drop(c, r)
    PROVE  CInv'
<1>1. TypeOK /\ calls[c] \in Call
  BY UsedCall DEF CInv
<1>2. PICK y : y = [calls[c] EXCEPT !.waiting = @ \ {r}]
  OBVIOUS
<1>3. calls' = [calls EXCEPT ![c] = y]
  BY <1>1, <1>2 DEF Drop, TypeOK, Call
<1>4. /\ y \in Call
      /\ y.op = calls[c].op /\ y.node = calls[c].node /\ y.caller = calls[c].caller
      /\ y.root = calls[c].root /\ y.replicas = calls[c].replicas
      /\ y.need = calls[c].need /\ y.status = calls[c].status
      /\ y.ok = calls[c].ok /\ y.waiting \subseteq calls[c].waiting
  BY <1>1, <1>2 DEF Call
<1>5. UNCHANGED <<view, leaving, done>> /\ store' \in [Nodes -> Entry] /\ clock' \in Nat
  BY <1>1 DEF Drop, members, TypeOK
<1>6. hints' \subseteq Nodes \X Nodes \X (Values \cup {None})
  <2>1. calls[c].node \in Nodes /\ calls[c].val \in Values \cup {None}
    BY <1>1, CallFields
  <2> QED BY <1>1, <2>1 DEF Drop, TypeOK
<1> QED BY <1>1, <1>3, <1>4, <1>5, <1>6, OneCallStep

\* An answer that is counted comes from a forwarded call that succeeded.
LEMMA ReplyStep ==
    ASSUME CInv, NEW c \in Calls, NEW d \in Calls, Reply(c, d)
    PROVE  CInv'
<1>1. TypeOK /\ Used(c) /\ Used(d) /\ calls[c] \in Call
  BY UsedCall DEF CInv, Reply
<1>2. PICK r : r = calls[d].node
  OBVIOUS
<1>3. r \in Nodes /\ r \in calls[c].waiting /\ calls[d].res \in Entry
  BY <1>1, <1>2, CallFields DEF Reply
<1>4. CASE Drop(c, r)
  BY <1>1, <1>3, <1>4, DropStep
<1>5. CASE ~Drop(c, r)
  <2>1. Succeeded(d) /\ UNCHANGED <<view, leaving, store, clock, hints, done>>
    BY <1>2, <1>5 DEF Reply, members
  <2>2. PICK y : y = [calls[c] EXCEPT !.waiting = @ \ {r}, !.ok = @ \cup {r},
                                      !.vals[r] = calls[d].res]
    OBVIOUS
  <2>3. calls' = [calls EXCEPT ![c].waiting = @ \ {r}, ![c].ok = @ \cup {r},
                               ![c].vals[r] = calls[d].res]
    BY <1>2, <1>5 DEF Reply
  <2>4. calls' = [calls EXCEPT ![c] = y]
    BY <1>1, <2>2, <2>3 DEF TypeOK, Call
  <2>5. /\ y \in Call
        /\ y.op = calls[c].op /\ y.node = calls[c].node /\ y.caller = calls[c].caller
        /\ y.root = calls[c].root /\ y.replicas = calls[c].replicas
        /\ y.need = calls[c].need /\ y.status = calls[c].status
        /\ y.ok = calls[c].ok \cup {r} /\ y.waiting \subseteq calls[c].waiting
    BY <1>1, <1>3, <2>2 DEF Call
  <2>6. /\ calls' \in [Calls -> Call \cup {Unused}] /\ calls'[c] = y /\ Kept
        /\ \A e \in Calls \ {c} : Used(e)' => CallOK(e)'
    BY <1>1, <2>1, <2>4, <2>5, Update
  <2>7. CallOK(d) /\ calls[d].caller = c
    BY <1>1 DEF CInv, Reply
  <2>8. Forwarded(d) /\ calls[c].root = calls[d].root /\ calls[c].op = calls[d].op
    BY <1>1, <2>7, CallsAssumption DEF Forwarded, CallOK, Linked
  <2>9. LoneRing'
    BY <2>1, <2>6, <2>7, <2>8, Stable DEF CallOK, Answered
  <2>10. (leaving' = {} /\ calls[c].op # "get") => Carried(done'[calls[c].root], r)
    BY <1>2, <2>1, <2>7, <2>8 DEF CallOK, Answered, Succeeded
  <2>11. CallOK(c)'
    BY <1>1, <1>3, <2>5, <2>6, <2>9, <2>10, Counts
  <2>12. TypeOK'
    BY <1>1, <2>1, <2>6 DEF TypeOK
  <2> QED BY <2>6, <2>11, <2>12 DEF CInv
<1> QED BY <1>4, <1>5

\* Returning to the caller.
LEMMA FinishStep ==
    ASSUME CInv, NEW c \in Calls, Used(c), NEW status, Finish(c, status),
           \/ status = "err"
           \/ status = "ok" /\ Cardinality(calls[c].ok) >= calls[c].need
           \/ status = "notfound" /\ calls[c].op = "get" /\ calls[c].ok = calls[c].replicas
    PROVE  CInv'
<1>1. TypeOK /\ calls[c] \in Call
  BY UsedCall DEF CInv
<1>2. PICK y : y = [calls[c] EXCEPT !.status = status]
  OBVIOUS
<1>3. calls' = [calls EXCEPT ![c] = y]
  BY <1>1, <1>2 DEF Finish, TypeOK, Call
<1>4. /\ y \in Call
      /\ y.op = calls[c].op /\ y.node = calls[c].node /\ y.caller = calls[c].caller
      /\ y.root = calls[c].root /\ y.replicas = calls[c].replicas
      /\ y.need = calls[c].need /\ y.status = status
      /\ y.ok = calls[c].ok /\ y.waiting \subseteq calls[c].waiting
  BY <1>1, <1>2 DEF Call
<1>5. /\ UNCHANGED <<view, leaving, done>> /\ store' \in [Nodes -> Entry] /\ clock' \in Nat
      /\ hints' \subseteq Nodes \X Nodes \X (Values \cup {None})
  BY <1>1 DEF Finish, members, TypeOK
<1> QED BY <1>1, <1>3, <1>4, <1>5, OneCallStep

\* Put, Delete and a Get that fails return what their acknowledgements allow.
LEMMA ReturnStep ==
    ASSUME CInv, NEW c \in Calls, PutReturns(c) \/ DeleteReturns(c) \/ GetFails(c)
    PROVE  CInv'
<1>1. calls[c].status = "open" /\ Used(c)
  BY DEF PutReturns, DeleteReturns, GetFails, Open, Used
<1>2. CInv /\ Acks(c) \in Nat /\ calls[c].need \in Nat
  BY <1>1, CallFields, NodesAssumption, FS_Subset, FS_CardinalityType DEF CInv, Acks
<1>3. PICK status :
        /\ Finish(c, status)
        /\ \/ status = "err"
           \/ status = "ok" /\ Acks(c) >= calls[c].need
           \/ status = "notfound" /\ calls[c].op = "get" /\ calls[c].ok = calls[c].replicas
  <2>1. CASE PutReturns(c)
    BY <2>1 DEF PutReturns
  <2>2. CASE DeleteReturns(c)
    BY <1>2, <2>2 DEF DeleteReturns
  <2>3. CASE GetFails(c)
    BY <2>3 DEF GetFails, Open
  <2> QED BY <2>1, <2>2, <2>3
<1> QED BY <1>1, <1>3, FinishStep DEF Acks

\* A Get that returns a value has enough answers.
LEMMA GetReturnsStep ==
    ASSUME CInv, NEW c \in Calls, GetReturns(c)
    PROVE  CInv'
<1>1. TypeOK /\ Used(c) /\ calls[c] \in Call
  BY UsedCall DEF CInv, GetReturns, Open, Used
<1>2. Cardinality(calls[c].ok) >= calls[c].need
  BY DEF GetReturns, Acks
<1>3. PICK r \in Found(c) :
        calls' = [calls EXCEPT
              ![c].status = "ok", ![c].res = calls[c].vals[r],
              ![c].repair = {q \in calls[c].ok : q \notin Found(c)
                                      \/ calls[c].vals[q].ts < calls[c].vals[r].ts}]
  BY DEF GetReturns, Behind
<1>4. PICK latest, stale :
        /\ latest = calls[c].vals[r]
        /\ stale = {q \in calls[c].ok : q \notin Found(c)
                                      \/ calls[c].vals[q].ts < calls[c].vals[r].ts}
  OBVIOUS
<1>5. latest \in Entry /\ stale \subseteq Nodes
  BY <1>1, <1>4, CallFields DEF Found
<1>6. PICK y : y = [calls[c] EXCEPT !.status = "ok", !.res = latest, !.repair = stale]
  OBVIOUS
<1>7. calls' = [calls EXCEPT ![c] = y]
  BY <1>1, <1>3, <1>4, <1>6 DEF TypeOK, Call
<1>8. /\ y \in Call
      /\ y.op = calls[c].op /\ y.node = calls[c].node /\ y.caller = calls[c].caller
      /\ y.root = calls[c].root /\ y.replicas = calls[c].replicas
      /\ y.need = calls[c].need /\ y.status = "ok"
      /\ y.ok = calls[c].ok /\ y.waiting \subseteq calls[c].waiting
  BY <1>1, <1>5, <1>6 DEF Call
<1>9. /\ UNCHANGED <<view, leaving, done>> /\ store' \in [Nodes -> Entry] /\ clock' \in Nat
      /\ hints' \subseteq Nodes \X Nodes \X (Values \cup {None})
  BY <1>1 DEF GetReturns, members, TypeOK
<1> QED BY <1>1, <1>2, <1>7, <1>8, <1>9, OneCallStep

\* Read repair of the local engine, or one that does not arrive.
LEMMA RepairStep ==
    ASSUME CInv, NEW c \in Calls, NEW r \in Nodes, RepairLocal(c) \/ RepairFails(c, r)
    PROVE  CInv'
<1>1. TypeOK /\ Used(c) /\ calls[c] \in Call
  BY UsedCall DEF CInv, RepairLocal, RepairFails, NextRepair
<1>2. PICK n \in Nodes : calls' = [calls EXCEPT ![c].repair = @ \ {n}]
  BY <1>1, CallFields DEF RepairLocal, RepairFails
<1>3. PICK y : y = [calls[c] EXCEPT !.repair = @ \ {n}]
  OBVIOUS
<1>4. calls' = [calls EXCEPT ![c] = y]
  BY <1>1, <1>2, <1>3 DEF TypeOK, Call
<1>5. /\ y \in Call
      /\ y.op = calls[c].op /\ y.node = calls[c].node /\ y.caller = calls[c].caller
      /\ y.root = calls[c].root /\ y.replicas = calls[c].replicas
      /\ y.need = calls[c].need /\ y.status = calls[c].status
      /\ y.ok = calls[c].ok /\ y.waiting \subseteq calls[c].waiting
  BY <1>1, <1>3 DEF Call
<1>6. store' \in [Nodes -> Entry] /\ clock' \in Nat
  <2>1. calls[c].res.val \in Values \cup {None} /\ calls[c].node \in Nodes
    BY <1>1, CallFields DEF Entry
  <2> QED BY <1>1, <2>1 DEF RepairLocal, RepairFails, TypeOK, Entry
<1>7. UNCHANGED <<view, leaving, done>> /\ hints' \subseteq Nodes \X Nodes \X (Values \cup {None})
  BY <1>1 DEF RepairLocal, members, RepairFails, TypeOK
<1> QED BY <1>1, <1>4, <1>5, <1>6, <1>7, OneCallStep

\* A read repair sent to another node starts a call of its own.
LEMMA RepairSendStep ==
    ASSUME CInv, NEW c \in Calls, NEW r \in Nodes, NEW d \in Calls, RepairSend(c, r, d)
    PROVE  CInv'
<1>1. TypeOK /\ Used(c) /\ ~Used(d) /\ calls[c] \in Call /\ c # d
  BY UsedCall DEF CInv, RepairSend, NextRepair
<1>2. PICK v : v = calls[c].res.val
  OBVIOUS
<1>3. v \in Values \cup {None}
  BY <1>1, <1>2, CallFields DEF Entry
<1>4. PICK x, y : /\ x = [calls[c] EXCEPT !.repair = @ \ {r}]
                  /\ y = NewCall("put", r, v, "quorum", "repair", d, 1)
  OBVIOUS
<1>5. y \in Call
  BY <1>1, <1>3, <1>4, NewCallType
<1>6. /\ x \in Call
      /\ x.op = calls[c].op /\ x.node = calls[c].node /\ x.caller = calls[c].caller
      /\ x.root = calls[c].root /\ x.replicas = calls[c].replicas
      /\ x.need = calls[c].need /\ x.status = calls[c].status
      /\ x.ok = calls[c].ok /\ x.waiting = calls[c].waiting
  BY <1>1, <1>4 DEF Call
<1>7. calls' = [calls EXCEPT ![c].repair = @ \ {r}, ![d] = y]
  BY <1>2, <1>4 DEF RepairSend
<1>8. calls' = [calls EXCEPT ![c] = x, ![d] = y]
  BY <1>1, <1>4, <1>7 DEF TypeOK, Call
<1>9. /\ calls' \in [Calls -> Call \cup {Unused}]
      /\ calls'[c] = x /\ calls'[d] = y
      /\ \A e \in Calls \ {c, d} : calls'[e] = calls[e]
  BY <1>1, <1>5, <1>6, <1>8 DEF TypeOK
<1>10. UNCHANGED <<view, leaving, store, clock, hints, done>>
  BY DEF RepairSend, members
<1>11. Kept
  BY <1>1, <1>6, <1>9, <1>10 DEF Kept, Same, Used
<1>12. CallOK(d)'
  <2>1. "repair" \notin Calls
    BY CallsAssumption
  <2>2. calls'[d] = NewCall("put", r, v, "quorum", "repair", d, 1)
    BY <1>4, <1>9
  <2> QED BY <1>11, <2>1, <2>2, Starts
<1>13. ASSUME NEW e \in Calls \ {d}, Used(e)' PROVE CallOK(e)'
  <2>1. /\ Used(e) /\ calls'[e].ok = calls[e].ok
        /\ calls'[e].waiting = calls[e].waiting /\ calls'[e].status = calls[e].status
    BY <1>1, <1>6, <1>9, <1>13 DEF Used
  <2> QED BY <1>11, <2>1, Quiet
<1>14. TypeOK'
  BY <1>1, <1>9, <1>10 DEF TypeOK
<1> QED BY <1>12, <1>13, <1>14 DEF CInv

\* A node that stops fails its open calls; what was counted stays true.
LEMMA CrashStep ==
    ASSUME CInv, NEW n \in Nodes, Crash(n)
    PROVE  CInv'
<1>1. TypeOK
  BY DEF CInv
<1>2. ASSUME NEW c \in Calls
      PROVE  /\ calls'[c] \in Call \cup {Unused}
             /\ Used(c) <=> Used(c)'
             /\ Used(c) => /\ Same(c) /\ calls'[c].ok = calls[c].ok
                           /\ calls'[c].waiting \subseteq calls[c].waiting
                           /\ calls'[c].status \in {calls[c].status, "err"}
  <2>1. CASE Used(c) /\ calls[c].node = n
    <3>1. calls[c] \in Call
      BY <1>1, <2>1, UsedCall
    <3>2. calls'[c] = [calls[c] EXCEPT !.waiting = {}, !.repair = {},
                            !.status = IF @ = "open" THEN "err" ELSE @]
      BY <2>1 DEF Crash
    <3>3. calls'[c] \in Call
      BY <3>1, <3>2 DEF Call
    <3>4. /\ Same(c) /\ calls'[c].ok = calls[c].ok
          /\ calls'[c].waiting \subseteq calls[c].waiting
          /\ calls'[c].status \in {calls[c].status, "err"}
      BY <3>1, <3>2 DEF Call, Same
    <3> QED BY <2>1, <3>3, <3>4 DEF Used
  <2>2. CASE ~(Used(c) /\ calls[c].node = n)
    <3>1. calls'[c] = calls[c]
      BY <2>2 DEF Crash
    <3> QED BY <1>1, <3>1 DEF TypeOK, Same, Used
  <2> QED BY <2>1, <2>2
<1>3. calls' \in [Calls -> Call \cup {Unused}]
  <2>1. calls' = [c \in Calls |-> calls'[c]]
    BY DEF Crash
  <2> QED BY <1>2, <2>1
<1>4. UNCHANGED <<view, leaving, store, clock, done>> /\ hints' \subseteq hints
  BY DEF Crash, members
<1>5. Kept
  BY <1>2, <1>4 DEF Kept
<1>6. \A c \in Calls : Used(c)' => CallOK(c)'
  BY <1>2, <1>5, Quiet
<1>7. TypeOK'
  BY <1>1, <1>3, <1>4 DEF TypeOK
<1> QED BY <1>6, <1>7 DEF CInv

\* Membership events change rings only, and later calls.
LEMMA ViewStep ==
    ASSUME CInv, TypeOK', leaving \subseteq leaving', UNCHANGED <<calls, done>>
    PROVE  CInv'
<1>1. Kept
  BY DEF Kept, Same, Used
<1>2. ASSUME NEW c \in Calls, Used(c)' PROVE CallOK(c)'
  <2>1. Used(c) /\ calls'[c] = calls[c]
    BY <1>2 DEF Used
  <2> QED BY <1>1, <2>1, Quiet
<1> QED BY <1>2 DEF CInv
-----------------------------------------------------------------------------
(***************************************************************************)
(* The theorems.                                                           *)
(***************************************************************************)

\* CInv holds in every initial state and after every step of every behaviour.
THEOREM CoordinatorInvariance == Spec => []CInv
<1>1. Init => CInv
  <2> SUFFICES ASSUME Init PROVE CInv
    OBVIOUS
  <2>1. ~(\E c \in Calls : Used(c))
    BY DEF Init, Used, Unused
  <2>2. Absent \in Entry /\ [val : Values, ts : 1 .. Age] \subseteq Entry
    BY HopsAssumption DEF Absent, Entry
  <2>3. TypeOK
    BY <2>2, HopsAssumption DEF Init, TypeOK
  <2> QED BY <2>1, <2>3 DEF CInv
<1>2. CInv /\ [Next]_vars => CInv'
  <2> SUFFICES ASSUME CInv, [Next]_vars PROVE CInv'
    OBVIOUS
  <2>1. ASSUME NEW c \in Calls, CallStep(c) PROVE CInv'
    <3>1. CASE \E r \in Nodes : Lose(c, r)
      BY <3>1, DropStep DEF Lose
    <3>2. CASE \E r \in Nodes : RepairLocal(c) \/ RepairFails(c, r)
      BY <3>2, RepairStep
    <3>3. CASE RepairLocal(c)
      <4>1. calls[c].node \in Nodes
        BY <3>3, CallFields DEF CInv, RepairLocal
      <4> QED BY <3>3, <4>1, RepairStep
    <3>4. CASE \E r \in Nodes, d \in Calls : Send(c, r, d) \/ RepairSend(c, r, d)
      BY <3>4, SendStep, RepairSendStep
    <3>5. CASE Local(c) \/ LocalError(c) \/ \E d \in Calls : Reply(c, d)
      BY <3>5, LocalStep, LocalErrorStep, ReplyStep
    <3>6. CASE PutReturns(c) \/ DeleteReturns(c) \/ GetFails(c) \/ GetReturns(c)
      BY <3>6, ReturnStep, GetReturnsStep
    <3> QED BY <2>1, <3>1, <3>2, <3>3, <3>4, <3>5, <3>6 DEF CallStep
  <2>2. ASSUME NEW m \in Nodes, NEW n \in Nodes, NodeJoin(n, m) \/ NodeLeave(n, m)
        PROVE  CInv'
    <3>1. TypeOK'
      BY <2>2 DEF CInv, TypeOK, NodeJoin, NodeLeave
    <3> QED BY <2>2, <3>1, ViewStep DEF NodeJoin, NodeLeave
  <2>3. CASE UNCHANGED vars
    <3>1. TypeOK'
      BY <2>3 DEF CInv, TypeOK, vars
    <3> QED BY <2>3, <3>1, ViewStep DEF vars
  <2>4. ASSUME NEW n \in Nodes, Leave(n) PROVE CInv'
    <3>1. TypeOK'
      BY <2>4 DEF CInv, TypeOK, Leave
    <3> QED BY <2>4, <3>1, ViewStep DEF Leave
  <2> QED BY <2>1, <2>2, <2>3, <2>4, RequestStep, CrashStep DEF Next
<1> QED BY <1>1, <1>2, PTL DEF Spec

\* The state of the coordinator is always of its type, and a node is in its own
\* ring until its own Leave.
THEOREM CoordinatorTypes == Spec => []TypeOK
<1>1. CInv => TypeOK
  BY DEF CInv
<1> QED BY <1>1, CoordinatorInvariance, PTL

\* A Put or Delete acknowledged with two answers or more has been executed by
\* the engines of two nodes, as long as no node shuts down.
THEOREM AckedWritesAreTwice == Spec => []AckedAtTwoNodes
<1>1. CInv => AckedAtTwoNodes
  BY DEF CInv, CallOK, Answered, AckedAtTwoNodes, Two
<1> QED BY <1>1, CoordinatorInvariance, PTL

\* Where every ring has two nodes, no forwarded request ever succeeds.
THEOREM ForwardingNeedsLoneRing == Spec => []ForwardedSuccessNeedsLoneRing
<1>1. CInv => ForwardedSuccessNeedsLoneRing
  BY DEF CInv, CallOK, Answered, ForwardedSuccessNeedsLoneRing, Forwarded, LoneRing
<1> QED BY <1>1, CoordinatorInvariance, PTL
-----------------------------------------------------------------------------
(***************************************************************************)
(* Read repair                                                             *)
(***************************************************************************)

\* A call that has a replica to repair counted the answer of another node.
RecOK(x) == x.repair # {} => \E r \in x.ok : r # x.node

RInv == \A c \in Calls : Used(c) => RecOK(calls[c])

LEMMA NewCallOK ==
    ASSUME NEW op, NEW n, NEW v, NEW level, NEW caller, NEW root, NEW hops
    PROVE  RecOK(NewCall(op, n, v, level, caller, root, hops))
<1>1. NewCall(op, n, v, level, caller, root, hops).repair = {}
  BY DEF NewCall
<1> QED BY <1>1 DEF RecOK

\* A step that sets one call to a record that is as it should be.
LEMMA OneRecord ==
    ASSUME CInv, RInv, NEW c \in Calls, NEW y, calls' = [calls EXCEPT ![c] = y], RecOK(y)
    PROVE  RInv'
<1>1. calls'[c] = y /\ \A e \in Calls \ {c} : calls'[e] = calls[e]
  BY DEF CInv, TypeOK
<1>2. ASSUME NEW e \in Calls, Used(e)' PROVE RecOK(calls'[e])
  <2>1. CASE e = c
    BY <1>1, <2>1
  <2>2. CASE e # c
    BY <1>1, <1>2, <2>2 DEF RInv, Used
  <2> QED BY <2>1, <2>2
<1> QED BY <1>2 DEF RInv, RecOK

\* A call that goes on, with no more to repair and no answer uncounted.
LEMMA LessToDo ==
    ASSUME NEW x, NEW y, RecOK(x), y.node = x.node, x.ok \subseteq y.ok,
           y.repair \subseteq x.repair
    PROVE  RecOK(y)
BY DEF RecOK

\* The goroutines of the replicas, with an answer or without.
LEMMA RAnswerStep ==
    ASSUME CInv, RInv, NEW c \in Calls, Local(c) \/ \E d \in Calls : Reply(c, d) /\ Succeeded(d)
    PROVE  RInv'
<1>1. TypeOK /\ Used(c) /\ calls[c] \in Call /\ RecOK(calls[c])
  BY UsedCall DEF CInv, Local, Reply, RInv
<1>2. PICK n, e : calls' = [calls EXCEPT ![c].waiting = @ \ {n}, ![c].ok = @ \cup {n},
                                         ![c].vals[n] = e]
  <2>1. CASE Local(c)
    BY <2>1 DEF Local
  <2>2. CASE \E d \in Calls : Reply(c, d) /\ Succeeded(d)
    <3>1. PICK d \in Calls : Reply(c, d) /\ Succeeded(d)
      BY <2>2
    <3>2. calls[d].status # "err"
      BY <3>1 DEF Succeeded
    <3> QED BY <3>1, <3>2 DEF Reply
  <2> QED BY <2>1, <2>2
<1>3. PICK y : y = [calls[c] EXCEPT !.waiting = @ \ {n}, !.ok = @ \cup {n}, !.vals[n] = e]
  OBVIOUS
<1>4. calls' = [calls EXCEPT ![c] = y]
  BY <1>1, <1>2, <1>3 DEF TypeOK, Call
<1>5. y.node = calls[c].node /\ y.ok = calls[c].ok \cup {n} /\ y.repair = calls[c].repair
  BY <1>1, <1>3 DEF Call
<1>6. RecOK(y)
  BY <1>1, <1>5, LessToDo
<1> QED BY <1>4, <1>6, OneRecord

\* The error path of a goroutine, and the steps of readRepair, leave less to do.
LEMMA RLessStep ==
    ASSUME CInv, RInv, NEW c \in Calls, Used(c), NEW r,
           \/ calls' = [calls EXCEPT ![c].waiting = @ \ {r}]
           \/ calls' = [calls EXCEPT ![c].repair = @ \ {r}]
           \/ calls' = [calls EXCEPT ![c].status = r]
    PROVE  RInv'
<1>1. TypeOK /\ calls[c] \in Call /\ RecOK(calls[c])
  BY UsedCall DEF CInv, RInv
<1>2. PICK y : /\ calls' = [calls EXCEPT ![c] = y]
               /\ \/ y = [calls[c] EXCEPT !.waiting = @ \ {r}]
                  \/ y = [calls[c] EXCEPT !.repair = @ \ {r}]
                  \/ y = [calls[c] EXCEPT !.status = r]
  <2>1. CASE calls' = [calls EXCEPT ![c].waiting = @ \ {r}]
    <3>1. calls' = [calls EXCEPT ![c] = [calls[c] EXCEPT !.waiting = @ \ {r}]]
      BY <1>1, <2>1 DEF TypeOK, Call
    <3> QED BY <3>1
  <2>2. CASE calls' = [calls EXCEPT ![c].repair = @ \ {r}]
    <3>1. calls' = [calls EXCEPT ![c] = [calls[c] EXCEPT !.repair = @ \ {r}]]
      BY <1>1, <2>2 DEF TypeOK, Call
    <3> QED BY <3>1
  <2>3. CASE calls' = [calls EXCEPT ![c].status = r]
    <3>1. calls' = [calls EXCEPT ![c] = [calls[c] EXCEPT !.status = r]]
      BY <1>1, <2>3 DEF TypeOK, Call
    <3> QED BY <3>1
  <2> QED BY <2>1, <2>2, <2>3
<1>3. y.node = calls[c].node /\ y.ok = calls[c].ok /\ y.repair \subseteq calls[c].repair
  BY <1>1, <1>2 DEF Call
<1>4. RecOK(y)
  BY <1>1, <1>3, LessToDo
<1> QED BY <1>2, <1>4, OneRecord

\* A replica that is behind is not the one that has the latest value, so the answers
\* of two replicas were counted and one of them is a remote one.
LEMMA RGetReturnsStep ==
    ASSUME CInv, RInv, NEW c \in Calls, GetReturns(c)
    PROVE  RInv'
<1>1. TypeOK /\ Used(c) /\ calls[c] \in Call
  BY UsedCall DEF CInv, GetReturns, Open, Used
<1>2. PICK r \in Found(c) :
        calls' = [calls EXCEPT ![c].status = "ok", ![c].res = calls[c].vals[r],
                               ![c].repair = Behind(c, calls[c].vals[r])]
  BY DEF GetReturns
<1>3. PICK latest, stale : latest = calls[c].vals[r] /\ stale = Behind(c, calls[c].vals[r])
  OBVIOUS
<1>4. PICK y : y = [calls[c] EXCEPT !.status = "ok", !.res = latest, !.repair = stale]
  OBVIOUS
<1>5. calls' = [calls EXCEPT ![c] = y]
  BY <1>1, <1>2, <1>3, <1>4 DEF TypeOK, Call
<1>6. y.node = calls[c].node /\ y.ok = calls[c].ok /\ y.repair = stale
  BY <1>1, <1>4 DEF Call
<1>7. r \in calls[c].ok /\ r \in Nodes /\ latest.ts \in Nat
  <2>1. r \in calls[c].ok /\ r \in Nodes
    BY <1>1, CallFields DEF Found
  <2>2. calls[c].vals \in [Nodes -> Entry]
    BY <1>1 DEF Call
  <2> QED BY <1>3, <2>1, <2>2 DEF Entry
<1>8. ASSUME NEW q \in stale PROVE q \in calls[c].ok /\ q # r
  <2>1. q \in calls[c].ok /\ (q \notin Found(c) \/ calls[c].vals[q].ts < latest.ts)
    BY <1>3 DEF Behind
  <2>2. ~(latest.ts < latest.ts)
    BY <1>7
  <2> QED BY <1>2, <1>3, <2>1, <2>2
<1>9. RecOK(y)
  BY <1>6, <1>7, <1>8 DEF RecOK
<1> QED BY <1>5, <1>9, OneRecord

LEMMA RRepairSendStep ==
    ASSUME CInv, RInv, NEW c \in Calls, NEW r \in Nodes, NEW d \in Calls, RepairSend(c, r, d)
    PROVE  RInv'
<1>1. TypeOK /\ Used(c) /\ ~Used(d) /\ calls[c] \in Call /\ c # d /\ RecOK(calls[c])
  BY UsedCall DEF CInv, RepairSend, NextRepair, RInv
<1>2. PICK x, y : /\ x = [calls[c] EXCEPT !.repair = @ \ {r}]
                  /\ y = NewCall("put", r, calls[c].res.val, "quorum", "repair", d, 1)
  OBVIOUS
<1>3. calls' = [calls EXCEPT ![c].repair = @ \ {r}, ![d] = y]
  BY <1>2 DEF RepairSend
<1>4. calls' = [calls EXCEPT ![c] = x, ![d] = y]
  BY <1>1, <1>2, <1>3 DEF TypeOK, Call
<1>5. /\ calls'[c] = x /\ calls'[d] = y
      /\ \A e \in Calls \ {c, d} : calls'[e] = calls[e]
  BY <1>1, <1>4 DEF TypeOK
<1>6. RecOK(x)
  <2>1. x.node = calls[c].node /\ x.ok = calls[c].ok /\ x.repair \subseteq calls[c].repair
    BY <1>1, <1>2 DEF Call
  <2> QED BY <1>1, <2>1, LessToDo
<1>7. RecOK(y)
  BY <1>2, NewCallOK
<1>8. ASSUME NEW e \in Calls, Used(e)' PROVE RecOK(calls'[e])
  <2>1. CASE e \notin {c, d}
    BY <1>5, <1>8, <2>1 DEF RInv, Used
  <2> QED BY <1>5, <1>6, <1>7, <2>1
<1> QED BY <1>8 DEF RInv, RecOK

LEMMA RCrashStep ==
    ASSUME CInv, RInv, NEW n \in Nodes, Crash(n)
    PROVE  RInv'
<1>1. ASSUME NEW c \in Calls, Used(c)' PROVE RecOK(calls'[c])
  <2>1. CASE Used(c) /\ calls[c].node = n
    <3>1. calls[c] \in Call
      BY <2>1, UsedCall DEF CInv
    <3>2. calls'[c] = [calls[c] EXCEPT !.waiting = {}, !.repair = {},
                                       !.status = IF @ = "open" THEN "err" ELSE @]
      BY <2>1 DEF Crash
    <3>3. calls'[c].repair = {}
      BY <3>1, <3>2 DEF Call
    <3> QED BY <3>3 DEF RecOK
  <2>2. CASE ~(Used(c) /\ calls[c].node = n)
    <3>1. calls'[c] = calls[c]
      BY <2>2 DEF Crash
    <3> QED BY <1>1, <3>1 DEF RInv, Used
  <2> QED BY <2>1, <2>2
<1> QED BY <1>1 DEF RInv, RecOK

\* What readRepair starts from holds in every state.
THEOREM RepairInvariance == Spec => []RInv
<1>1. Init => RInv
  BY DEF Init, RInv, Used, Unused
<1>2. CInv /\ RInv /\ [Next]_vars => RInv'
  <2> SUFFICES ASSUME CInv, RInv, [Next]_vars PROVE RInv'
    OBVIOUS
  <2>1. ASSUME NEW c \in Requests, NEW op \in Ops, NEW n \in Nodes,
               NEW v \in Values \cup {None}, NEW level, Request(c, op, n, v, level)
        PROVE  RInv'
    <3>1. PICK y : y = NewCall(op, n, v, level, "client", c, 0)
      OBVIOUS
    <3>2. RecOK(y)
      BY <3>1, NewCallOK
    <3>3. calls' = [calls EXCEPT ![c] = y] /\ c \in Calls
      BY <2>1, <3>1, CallsAssumption DEF Request
    <3> QED BY <3>2, <3>3, OneRecord
  <2>2. ASSUME NEW c \in Calls, NEW r \in Nodes, NEW d \in Calls, Send(c, r, d) PROVE RInv'
    <3>1. PICK y : y = NewCall(calls[c].op, r, calls[c].val, "quorum", c,
                               calls[c].root, calls[c].hops + 1)
      OBVIOUS
    <3>2. RecOK(y)
      BY <3>1, NewCallOK
    <3>3. calls' = [calls EXCEPT ![d] = y]
      BY <2>2, <3>1 DEF Send
    <3> QED BY <3>2, <3>3, OneRecord
  <2>3. ASSUME NEW c \in Calls, Used(c), NEW r, Drop(c, r) PROVE RInv'
    BY <2>3, RLessStep DEF Drop
  <2>4. ASSUME NEW c \in Calls, CallStep(c) PROVE RInv'
    <3>1. CASE Local(c)
      BY <3>1, RAnswerStep
    <3>2. CASE LocalError(c)
      BY <3>2, RLessStep DEF LocalError
    <3>3. CASE \E r \in Nodes, d \in Calls : Send(c, r, d) \/ RepairSend(c, r, d)
      BY <2>2, <3>3, RRepairSendStep
    <3>4. CASE \E d \in Calls : Reply(c, d)
      <4>1. PICK d \in Calls : Reply(c, d)
        BY <3>4
      <4>2. Used(c) /\ (Succeeded(d) \/ Drop(c, calls[d].node))
        BY <4>1 DEF Reply
      <4> QED BY <2>3, <4>1, <4>2, RAnswerStep
    <3>5. CASE \E r \in Nodes : Lose(c, r)
      BY <2>3, <3>5 DEF Lose
    <3>6. CASE \E r \in Nodes : RepairFails(c, r)
      BY <3>6, RLessStep DEF RepairFails, NextRepair
    <3>7. CASE PutReturns(c) \/ DeleteReturns(c) \/ GetFails(c)
      <4>1. Used(c)
        BY <3>7 DEF PutReturns, DeleteReturns, GetFails, Open, Used
      <4>2. PICK status : Finish(c, status)
        BY <3>7 DEF PutReturns, DeleteReturns, GetFails
      <4> QED BY <4>1, <4>2, RLessStep DEF Finish
    <3>8. CASE GetReturns(c)
      BY <3>8, RGetReturnsStep
    <3>9. CASE RepairLocal(c)
      BY <3>9, RLessStep DEF RepairLocal
    <3> QED BY <2>4, <3>1, <3>2, <3>3, <3>4, <3>5, <3>6, <3>7, <3>8, <3>9 DEF CallStep
  <2>5. ASSUME calls' = calls PROVE RInv'
    BY <2>5 DEF RInv, Used, RecOK
  <2>6. CASE \E m, n \in Nodes : NodeJoin(n, m) \/ NodeLeave(n, m)
    BY <2>5, <2>6 DEF NodeJoin, NodeLeave
  <2>7. CASE \E n \in Nodes : Leave(n) \/ Crash(n)
    BY <2>5, <2>7, RCrashStep DEF Leave
  <2>8. CASE UNCHANGED vars
    BY <2>5, <2>8 DEF vars
  <2> QED BY <2>1, <2>4, <2>6, <2>7, <2>8 DEF Next
<1> QED BY <1>1, <1>2, CoordinatorInvariance, PTL DEF Spec

\* readRepair has a replica to repair only if some forwarded request found a ring with
\* no other node in it: while the rings are complete, Get repairs nothing.
THEOREM RepairWaitsForLoneRing == Spec => []RepairNeedsLoneRing
<1>1. CInv /\ RInv => RepairNeedsLoneRing
  <2> SUFFICES ASSUME CInv, RInv, NEW c \in Calls, Used(c), calls[c].repair # {}
               PROVE  LoneRing
    BY DEF RepairNeedsLoneRing, LoneRing
  <2>1. PICK r \in calls[c].ok : r # calls[c].node
    BY DEF RInv, RecOK
  <2> QED BY <2>1 DEF CInv, CallOK, Counted
<1> QED BY <1>1, CoordinatorInvariance, RepairInvariance, PTL
=============================================================================
