------------------------ MODULE HintedHandoffProofs ------------------------
(***************************************************************************)
(* The bookkeeping of hinted handoff, for every number of peers and hints  *)
(* and every kind of failure.                                              *)
(***************************************************************************)
EXTENDS HintedHandoff, TLAPS

\* The types of the variables.
Typed ==
    /\ now \in Nat /\ last \in Nat /\ sent \in 0 .. last
    /\ hints \in [Peers -> Seq(Hint)]
    /\ todo \subseteq Peers /\ cur \in Peers \cup {NoPeer}
    /\ pending \in Seq(Hint) /\ remaining \in Seq(Hint)
    /\ \A S \in {disk, delivered, failed, expired, forgotten, overlapped, cut, ioerr} :
          S \subseteq 1 .. last

\* The hints of a peer are hints that were stored, each for one peer.
Filed == /\ \A p \in Peers : Ids(hints[p]) \subseteq 1 .. last /\ Sorted(hints[p])
         /\ \A p, q \in Peers : p # q => Ids(hints[p]) \cap Ids(hints[q]) = {}

\* What Deliver has done so far with a hint of the peer it works for.
Handled(i) == \/ i \in Ids(pending)
              \/ i \in delivered \cup expired
              \/ i \in failed /\ i \in Ids(remaining)
              \/ i \in overlapped /\ \A k \in Ids(pending) : k < i

\* Deliver works through the list of the peer in order, and holds nothing when
\* it does not run.
Working ==
    /\ cur = NoPeer => pending = <<>> /\ remaining = <<>> /\ sent = 0
    /\ cur # NoPeer =>
        /\ Ids(pending) \subseteq Ids(hints[cur]) /\ Ids(remaining) \subseteq Ids(hints[cur])
        /\ Sorted(pending) /\ Sorted(remaining)
        /\ \A a \in Ids(remaining), b \in Ids(pending) : a < b
        /\ \A i \in Ids(hints[cur]) : Handled(i)

\* A delivered hint is in the map only behind Deliver's back: in the list of
\* the peer that Deliver works for, and not in its copies.
Undelivered ==
    /\ \A p \in Peers : p # cur => Ids(hints[p]) \cap delivered = {}
    /\ Ids(pending) \cap delivered = {} /\ Ids(remaining) \cap delivered = {}
    /\ cut \subseteq delivered
    /\ sent # 0 => sent \in delivered /\ sent \notin cut

Books == /\ Typed /\ Filed /\ Working
         /\ HintsAccounted /\ OvertakenOnlyAfterFailure /\ RecordsUntilDelivered

HInv == Books /\ Undelivered

\* TypeOK is the types and the order of the map.
LEMMA TypesAndOrder == TypeOK <=> Typed /\ Filed
BY DEF TypeOK, Typed, Filed
-----------------------------------------------------------------------------
(***************************************************************************)
(* Lists of hints.                                                         *)
(***************************************************************************)

\* Appending a hint adds its id, and keeps a list sorted if the id is greater.
LEMMA AppendIds ==
    ASSUME NEW s \in Seq(Hint), NEW h \in Hint
    PROVE  /\ Append(s, h) \in Seq(Hint)
           /\ Ids(Append(s, h)) = Ids(s) \cup {h.id}
           /\ (Sorted(s) /\ \A i \in Ids(s) : i < h.id) => Sorted(Append(s, h))
<1> DEFINE t == Append(s, h)
<1>1. /\ t \in Seq(Hint) /\ DOMAIN s = 1 .. Len(s) /\ DOMAIN t = 1 .. Len(s) + 1
      /\ t[Len(s) + 1] = h /\ \A a \in DOMAIN s : t[a] = s[a]
  OBVIOUS
<1>2. Len(s) \in Nat
  OBVIOUS
<1> HIDE DEF t
<1>3. Ids(t) \subseteq Ids(s) \cup {h.id}
  BY <1>1, <1>2 DEF Ids
<1>4. Ids(s) \cup {h.id} \subseteq Ids(t)
  BY <1>1, <1>2 DEF Ids
<1>5. ASSUME Sorted(s), \A i \in Ids(s) : i < h.id PROVE Sorted(t)
  <2> SUFFICES ASSUME NEW a \in DOMAIN t, NEW b \in DOMAIN t, a < b
               PROVE  t[a].id < t[b].id
    BY DEF Sorted
  <2>1. a \in DOMAIN s
    BY <1>1, <1>2
  <2>2. CASE b \in DOMAIN s
    BY <1>1, <1>5, <2>1, <2>2 DEF Sorted
  <2>3. CASE b = Len(s) + 1
    <3>1. s[a].id \in Ids(s)
      BY <2>1 DEF Ids
    <3> QED BY <1>1, <1>5, <2>1, <2>3, <3>1
  <2> QED BY <1>1, <1>2, <2>2, <2>3
<1> QED BY <1>1, <1>3, <1>4, <1>5 DEF t

\* The empty list has no ids.
LEMMA EmptyIds == Ids(<<>>) = {} /\ Sorted(<<>>)
BY DEF Ids, Sorted

\* The first hint of a sorted list is older than the rest.
LEMMA HeadIds ==
    ASSUME NEW s \in Seq(Hint), s # <<>>
    PROVE  /\ Head(s) \in Hint /\ Tail(s) \in Seq(Hint)
           /\ Ids(s) = {Head(s).id} \cup Ids(Tail(s))
           /\ Sorted(s) => /\ Sorted(Tail(s))
                           /\ \A k \in Ids(Tail(s)) : Head(s).id < k
<1> DEFINE t == Tail(s)
<1>1. /\ Head(s) = s[1] /\ Len(s) \in Nat \ {0}
      /\ t \in Seq(Hint) /\ DOMAIN s = 1 .. Len(s) /\ DOMAIN t = 1 .. Len(s) - 1
      /\ \A a \in DOMAIN t : t[a] = s[a + 1]
  OBVIOUS
<1>2. Head(s) \in Hint
  OBVIOUS
<1> HIDE DEF t
<1>3. Ids(s) \subseteq {Head(s).id} \cup Ids(t)
  <2> SUFFICES ASSUME NEW a \in DOMAIN s PROVE s[a].id \in {Head(s).id} \cup Ids(t)
    BY DEF Ids
  <2>1. CASE a = 1
    BY <1>1, <2>1
  <2>2. CASE a # 1
    <3>1. a - 1 \in DOMAIN t /\ t[a - 1] = s[a]
      BY <1>1, <2>2
    <3> QED BY <3>1 DEF Ids
  <2> QED BY <2>1, <2>2
<1>4. {Head(s).id} \cup Ids(t) \subseteq Ids(s)
  BY <1>1 DEF Ids
<1>5. ASSUME Sorted(s) PROVE Sorted(t) /\ \A k \in Ids(t) : Head(s).id < k
  <2>1. Sorted(t)
    <3> SUFFICES ASSUME NEW a \in DOMAIN t, NEW b \in DOMAIN t, a < b
                 PROVE  t[a].id < t[b].id
      BY DEF Sorted
    <3>1. a + 1 \in DOMAIN s /\ b + 1 \in DOMAIN s /\ a + 1 < b + 1
      BY <1>1
    <3> QED BY <1>1, <1>5, <3>1 DEF Sorted
  <2>2. ASSUME NEW k \in Ids(t) PROVE Head(s).id < k
    <3>1. PICK a \in DOMAIN t : k = t[a].id
      BY <2>2 DEF Ids
    <3>2. 1 \in DOMAIN s /\ a + 1 \in DOMAIN s /\ 1 < a + 1
      BY <1>1
    <3> QED BY <1>1, <1>5, <3>1, <3>2 DEF Sorted
  <2> QED BY <2>1, <2>2
<1> QED BY <1>1, <1>2, <1>3, <1>4, <1>5 DEF t

\* What the map holds.
LEMMA InMemoryIds == \A i : i \in InMemory <=> \E p \in Peers : i \in Ids(hints[p])
BY DEF InMemory
-----------------------------------------------------------------------------
(***************************************************************************)
(* Every action preserves HInv.                                            *)
(***************************************************************************)

\* A step of the clock or of the list of peers to visit.
LEMMA IdleStep ==
    ASSUME HInv, now' \in Nat, todo' \subseteq Peers,
           UNCHANGED <<hints, disk, cur, pending, remaining, sent, last, history>>
    PROVE  Books'
<1>1. Typed'
  BY DEF HInv, Books, Typed, history
<1>2. Filed' /\ Working'
  BY DEF HInv, Books, Filed, Working, Handled, history
<1>3. HintsAccounted' /\ OvertakenOnlyAfterFailure' /\ RecordsUntilDelivered'
  BY DEF HInv, Books, HintsAccounted, OvertakenOnlyAfterFailure, RecordsUntilDelivered,
         InMemory, history
<1> QED BY <1>1, <1>2, <1>3 DEF Books

\* A new hint is the newest of its peer, and known to nobody else.
LEMMA StoreStep ==
    ASSUME HInv, NEW p \in Peers, Store(p)
    PROVE  Books'
<1> DEFINE n == last + 1
           h == [id |-> n, at |-> now]
<1>1. /\ Typed /\ last \in Nat /\ hints \in [Peers -> Seq(Hint)]
      /\ n \in Nat \ {0} /\ h \in Hint /\ h.id = n
  BY SMTT(30) DEF HInv, Books, Typed, Hint
<1>2. /\ last' = n /\ hints' = [hints EXCEPT ![p] = Append(@, h)]
      /\ overlapped' = IF cur = p THEN overlapped \cup {n} ELSE overlapped
      /\ UNCHANGED <<now, todo, cur, pending, remaining, sent,
                     delivered, failed, expired, forgotten, cut>>
  BY DEF Store, Queue, loop
<1>3. \/ disk' = disk \cup {n} /\ ioerr' = ioerr
      \/ disk' = disk /\ ioerr' = ioerr \cup {n}
  BY DEF Store, Persist
<1> HIDE DEF h
<1>4. /\ Append(hints[p], h) \in Seq(Hint)
      /\ Ids(Append(hints[p], h)) = Ids(hints[p]) \cup {n}
      /\ (Sorted(hints[p]) /\ \A i \in Ids(hints[p]) : i < n) => Sorted(Append(hints[p], h))
  BY <1>1, AppendIds
<1>5. /\ hints' \in [Peers -> Seq(Hint)] /\ hints'[p] = Append(hints[p], h)
      /\ \A q \in Peers \ {p} : hints'[q] = hints[q]
  BY <1>1, <1>2, <1>4
<1>6. \A q \in Peers : Ids(hints[q]) \subseteq 1 .. last /\ Sorted(hints[q])
  BY DEF HInv, Books, Filed
<1> HIDE DEF n
<1>7. \A i \in 1 .. last : i \in Nat /\ i < n /\ i \in 1 .. n
  BY <1>1 DEF n
<1>8. Ids(hints'[p]) = Ids(hints[p]) \cup {n} /\ Sorted(hints'[p])
  BY <1>4, <1>5, <1>6, <1>7
<1>9. n \in 1 .. n /\ n \notin 1 .. last /\ \A i \in 1 .. n : i \in 1 .. last \/ i = n
  BY <1>1 DEF n
<1>10. Typed'
  <2>1. \A S \in {disk', delivered', failed', expired', forgotten', overlapped', cut', ioerr'} :
          S \subseteq 1 .. n
    BY <1>1, <1>2, <1>3, <1>7, <1>9 DEF Typed
  <2>2. sent \in 0 .. n
    BY <1>1 DEF Typed, n
  <2> QED BY <1>1, <1>2, <1>5, <2>1, <2>2 DEF Typed
<1>11. Filed'
  <2>1. \A q \in Peers : Ids(hints'[q]) \subseteq 1 .. n /\ Sorted(hints'[q])
    BY <1>5, <1>6, <1>7, <1>8, <1>9
  <2>2. ASSUME NEW a \in Peers, NEW b \in Peers, a # b
        PROVE  Ids(hints'[a]) \cap Ids(hints'[b]) = {}
    <3>1. Ids(hints[a]) \cap Ids(hints[b]) = {}
      BY <2>2 DEF HInv, Books, Filed
    <3>2. n \notin Ids(hints[a]) /\ n \notin Ids(hints[b])
      BY <1>6, <1>9
    <3> QED BY <1>5, <1>8, <2>2, <3>1, <3>2
  <2> QED BY <1>2, <2>1, <2>2 DEF Filed
<1>12. Working'
  <2> SUFFICES ASSUME cur # NoPeer PROVE Working'
    BY <1>2 DEF HInv, Books, Working
  <2>1. cur \in Peers /\ Working
    BY <1>1 DEF HInv, Books, Typed
  <2>2. Ids(hints[cur]) \subseteq Ids(hints'[cur])
    BY <1>5, <1>8, <2>1
  <2>3. \A k \in Ids(pending) : k < n
    BY <1>6, <1>7, <2>1 DEF Working
  <2>4. ASSUME NEW i \in Ids(hints'[cur]) PROVE Handled(i)'
    <3>1. CASE i \in Ids(hints[cur])
      <4>1. Handled(i)
        BY <2>1, <3>1 DEF Working
      <4> QED BY <1>2, <4>1 DEF Handled
    <3>2. CASE i = n /\ cur = p
      BY <1>2, <2>3, <3>2 DEF Handled
    <3> QED BY <1>5, <1>8, <2>1, <2>4, <3>1, <3>2
  <2> QED BY <1>2, <2>1, <2>2, <2>4 DEF Working
<1>13. HintsAccounted'
  <2> SUFFICES ASSUME NEW i \in 1 .. n
               PROVE  i \in InMemory' \cup delivered' \cup expired' \cup forgotten' \cup overlapped'
    BY <1>2 DEF HintsAccounted
  <2>1. i \in InMemory => i \in InMemory'
    BY <1>5, <1>8 DEF InMemory
  <2>2. n \in InMemory'
    BY <1>8 DEF InMemory
  <2> QED BY <1>2, <1>9, <2>1, <2>2 DEF HInv, Books, HintsAccounted
<1>14. OvertakenOnlyAfterFailure'
  <2> SUFFICES ASSUME NEW q \in Peers, NEW i \in Ids(hints'[q]), NEW j \in Ids(hints'[q]),
                      i < j, j \in delivered, i \notin delivered
               PROVE  i \in failed \cup expired
    BY <1>2 DEF OvertakenOnlyAfterFailure
  <2>1. j # n /\ delivered \subseteq 1 .. last
    BY <1>1, <1>9 DEF Typed
  <2>2. j \in Ids(hints[q]) /\ j \in 1 .. last
    BY <1>5, <1>8, <2>1
  <2>3. i # n
    BY <1>7, <2>2, <1>1 DEF n
  <2>4. i \in Ids(hints[q])
    BY <1>5, <1>8, <2>3
  <2> QED BY <2>2, <2>4 DEF HInv, Books, OvertakenOnlyAfterFailure
<1>15. RecordsUntilDelivered'
  <2>1. n \notin delivered /\ n \notin disk /\ n \notin cut
    BY <1>1, <1>9 DEF Typed
  <2> QED BY <1>2, <1>3, <1>9, <2>1 DEF HInv, Books, RecordsUntilDelivered
<1> QED BY <1>10, <1>11, <1>12, <1>13, <1>14, <1>15 DEF Books

\* Deliver starts with the whole list of the peer before it.
LEMMA BeginStep ==
    ASSUME HInv, NEW p \in Peers, DeliverBegin(p)
    PROVE  Books'
<1>1. /\ Typed /\ p # NoPeer /\ cur' = p /\ pending' = hints[p] /\ remaining' = <<>>
      /\ todo' = todo \ {p} /\ hints[p] \in Seq(Hint)
      /\ UNCHANGED <<now, hints, disk, sent, last, history>>
  BY PeersAssumption DEF HInv, Books, Typed, DeliverBegin
<1>2. Typed'
  BY <1>1 DEF Typed, history
<1>3. Filed'
  BY <1>1 DEF HInv, Books, Filed
<1>4. Working'
  <2>1. Sorted(hints[p])
    BY DEF HInv, Books, Filed
  <2>2. \A i \in Ids(hints'[p]) : Handled(i)'
    BY <1>1 DEF Handled
  <2> QED BY <1>1, <2>1, <2>2, EmptyIds DEF Working
<1>5. HintsAccounted' /\ OvertakenOnlyAfterFailure' /\ RecordsUntilDelivered'
  BY <1>1 DEF HInv, Books, HintsAccounted, OvertakenOnlyAfterFailure, RecordsUntilDelivered,
              InMemory, history
<1> QED BY <1>2, <1>3, <1>4, <1>5 DEF Books

\* What Deliver knows of the hint it looks at.
LEMMA NextHint ==
    ASSUME HInv, pending # <<>>
    PROVE  /\ cur \in Peers /\ cur # NoPeer
           /\ Head(pending) \in Hint /\ Tail(pending) \in Seq(Hint)
           /\ Head(pending).id \in 1 .. last
           /\ Head(pending).id \in Ids(hints[cur])
           /\ Ids(pending) = {Head(pending).id} \cup Ids(Tail(pending))
           /\ Sorted(Tail(pending))
           /\ \A k \in Ids(Tail(pending)) : Head(pending).id < k
<1>1. /\ pending \in Seq(Hint) /\ cur \in Peers /\ cur # NoPeer
      /\ Sorted(pending) /\ Ids(pending) \subseteq Ids(hints[cur])
      /\ Ids(hints[cur]) \subseteq 1 .. last
  BY DEF HInv, Books, Typed, Working, Filed
<1> QED BY <1>1, HeadIds

\* Deliver is done with a hint: it expired, was delivered, or is to be kept.
LEMMA AdvanceStep ==
    ASSUME HInv, sent = 0, pending # <<>>, NEW i, i = Head(pending).id, pending' = Tail(pending),
           UNCHANGED <<now, hints, disk, todo, cur, last, forgotten, overlapped, cut, ioerr>>,
           \/ /\ expired' = expired \cup {i}
              /\ UNCHANGED <<remaining, sent, delivered, failed>>
           \/ /\ delivered' = delivered \cup {i} /\ sent' = i
              /\ UNCHANGED <<remaining, failed, expired>>
           \/ /\ remaining' = Append(remaining, Head(pending)) /\ failed' = failed \cup {i}
              /\ UNCHANGED <<sent, delivered, expired>>
    PROVE  Books'
<1>1. /\ cur \in Peers /\ cur # NoPeer
      /\ Head(pending) \in Hint /\ Tail(pending) \in Seq(Hint)
      /\ i \in 1 .. last /\ i \in Ids(hints[cur])
      /\ Ids(pending) = {i} \cup Ids(pending')
      /\ Sorted(pending') /\ \A k \in Ids(pending') : i < k
  BY NextHint
<1>2. Typed /\ Working /\ Filed /\ remaining \in Seq(Hint)
  BY DEF HInv, Books, Typed
<1>3. /\ remaining' \in Seq(Hint)
      /\ Ids(remaining) \subseteq Ids(remaining') /\ Ids(remaining') \subseteq Ids(remaining) \cup {i}
      /\ Sorted(remaining')
  <2>1. Sorted(remaining) /\ \A a \in Ids(remaining) : a < i
    BY <1>1, <1>2 DEF Working
  <2>2. /\ Append(remaining, Head(pending)) \in Seq(Hint)
        /\ Ids(Append(remaining, Head(pending))) = Ids(remaining) \cup {i}
        /\ Sorted(Append(remaining, Head(pending)))
    BY <1>1, <1>2, <2>1, AppendIds
  <2> QED BY <1>2, <2>1, <2>2
<1>4. /\ delivered \subseteq delivered' /\ failed \subseteq failed' /\ expired \subseteq expired'
      /\ delivered' \subseteq delivered \cup {i}
      /\ \/ i \in delivered' \cup expired'
         \/ i \in failed' /\ i \in Ids(remaining')
  <2>1. Ids(Append(remaining, Head(pending))) = Ids(remaining) \cup {i}
    BY <1>1, <1>2, AppendIds
  <2> QED BY <2>1
<1>5. Typed'
  <2>1. \A S \in {disk', delivered', failed', expired', forgotten', overlapped', cut', ioerr'} :
          S \subseteq 1 .. last
    BY <1>1, <1>2 DEF Typed
  <2>2. sent' \in 0 .. last
    BY <1>1, <1>2 DEF Typed
  <2> QED BY <1>1, <1>2, <1>3, <2>1, <2>2 DEF Typed
<1>6. Filed'
  BY <1>2 DEF Filed
<1>7. Working'
  <2>1. Ids(pending') \subseteq Ids(hints[cur]) /\ Ids(remaining') \subseteq Ids(hints[cur])
    BY <1>1, <1>2, <1>3 DEF Working
  <2>2. \A a \in Ids(remaining'), b \in Ids(pending') : a < b
    BY <1>1, <1>2, <1>3 DEF Working
  <2>3. ASSUME NEW j \in Ids(hints[cur]) PROVE Handled(j)'
    <3>1. Handled(j)
      BY <1>1, <1>2, <2>3 DEF Working
    <3>2. CASE j = i
      BY <1>4, <3>2 DEF Handled
    <3>3. CASE j # i
      BY <1>1, <1>3, <1>4, <3>1, <3>3 DEF Handled
    <3> QED BY <3>2, <3>3
  <2> QED BY <1>1, <1>3, <2>1, <2>2, <2>3 DEF Working
<1>8. HintsAccounted'
  <2>1. InMemory' = InMemory
    BY DEF InMemory
  <2> QED BY <1>4, <2>1 DEF HInv, Books, HintsAccounted
<1>9. OvertakenOnlyAfterFailure'
  <2> SUFFICES ASSUME NEW q \in Peers, NEW a \in Ids(hints[q]), NEW b \in Ids(hints[q]),
                      a < b, b \in delivered', a \notin delivered'
               PROVE  a \in failed' \cup expired'
    BY DEF OvertakenOnlyAfterFailure
  <2>1. CASE b \in delivered
    BY <1>4, <2>1 DEF HInv, Books, OvertakenOnlyAfterFailure
  <2>2. CASE b = i
    <3>1. q = cur
      BY <1>1, <1>2, <2>2 DEF Filed
    <3>2. Handled(a)
      BY <1>1, <1>2, <3>1 DEF Working
    <3>3. a \in Nat /\ b \in Nat /\ last \in Nat
      BY <1>2 DEF Filed, Typed
    <3>4. a \notin Ids(pending)
      BY <1>1, <2>2, <3>3
    <3>5. ~(\A k \in Ids(pending) : k < a)
      BY <1>1, <2>2, <3>3
    <3> QED BY <1>4, <3>2, <3>4, <3>5 DEF Handled
  <2> QED BY <1>4, <2>1, <2>2
<1>10. RecordsUntilDelivered'
  <2>1. i \notin delivered /\ i # 0
    BY <1>1, <1>2 DEF HInv, Undelivered, Typed
  <2> QED BY <2>1 DEF HInv, Books, RecordsUntilDelivered
<1> QED BY <1>5, <1>6, <1>7, <1>8, <1>9, <1>10 DEF Books

\* The record of the hint just delivered goes, or the engine refuses.
LEMMA DeleteStep ==
    ASSUME HInv, DeleteRecord
    PROVE  Books'
<1>1. /\ sent # 0 /\ sent' = 0
      /\ \/ disk' = disk \ {sent} /\ ioerr' = ioerr
         \/ disk' = disk /\ ioerr' = ioerr \cup {sent}
      /\ UNCHANGED <<now, hints, todo, cur, pending, remaining, last,
                     delivered, failed, expired, forgotten, overlapped, cut>>
  BY DEF DeleteRecord, Persist, Erased
<1>2. Typed /\ Filed /\ Working /\ sent \in 1 .. last /\ cur # NoPeer
  BY <1>1 DEF HInv, Books, Typed, Working
<1>3. Typed'
  <2>1. \A S \in {disk', delivered', failed', expired', forgotten', overlapped', cut', ioerr'} :
          S \subseteq 1 .. last
    BY <1>1, <1>2 DEF Typed
  <2> QED BY <1>1, <1>2, <2>1 DEF Typed
<1>4. Filed' /\ Working'
  BY <1>1, <1>2 DEF Filed, Working, Handled
<1>5. HintsAccounted' /\ OvertakenOnlyAfterFailure'
  BY <1>1 DEF HInv, Books, HintsAccounted, OvertakenOnlyAfterFailure, InMemory
<1>6. RecordsUntilDelivered'
  <2>1. sent \in delivered /\ sent \notin cut
    BY <1>1 DEF HInv, Undelivered
  <2>2. \A i \in 1 .. last : i # 0
    BY <1>2 DEF Typed
  <2> QED BY <1>1, <2>1, <2>2 DEF HInv, Books, RecordsUntilDelivered
<1> QED BY <1>3, <1>4, <1>5, <1>6 DEF Books

\* The list becomes what is left; only overlapped hints are lost.
LEMMA EndStep ==
    ASSUME HInv, DeliverEnd
    PROVE  Books'
<1>1. /\ Typed /\ Filed /\ Working /\ cur \in Peers /\ cur # NoPeer
      /\ sent = 0 /\ pending = <<>> /\ remaining \in Seq(Hint)
      /\ hints' = [hints EXCEPT ![cur] = remaining]
      /\ cur' = NoPeer /\ remaining' = <<>>
      /\ UNCHANGED <<now, disk, todo, pending, sent, last, history>>
  BY DEF HInv, Books, Typed, DeliverEnd, Left
<1>2. PICK p \in Peers : p = cur
  BY <1>1
<1>3. /\ hints' \in [Peers -> Seq(Hint)] /\ hints'[p] = remaining
      /\ \A q \in Peers \ {p} : hints'[q] = hints[q]
  BY <1>1, <1>2 DEF Typed
<1>4. Ids(remaining) \subseteq Ids(hints[p]) /\ Sorted(remaining) /\ Ids(pending) = {}
  BY <1>1, <1>2, EmptyIds DEF Working
<1>5. \A i \in Ids(hints[p]) : i \in Ids(remaining) \cup delivered \cup expired \cup overlapped
  BY <1>1, <1>2, <1>4 DEF Working, Handled
<1>6. Typed'
  BY <1>1, <1>3 DEF Typed, history
<1>7. \A q \in Peers : Ids(hints'[q]) \subseteq Ids(hints[q])
  BY <1>3, <1>4
<1>8. Filed'
  BY <1>1, <1>3, <1>4, <1>7 DEF Filed
<1>9. Working'
  BY <1>1 DEF Working
<1>10. HintsAccounted'
  <2> SUFFICES ASSUME NEW i \in 1 .. last
               PROVE  i \in InMemory' \cup delivered \cup expired \cup forgotten \cup overlapped
    BY <1>1 DEF HintsAccounted, history
  <2>1. ASSUME i \in InMemory PROVE i \in InMemory' \cup delivered \cup expired \cup overlapped
    <3>1. PICK q \in Peers : i \in Ids(hints[q])
      BY <2>1 DEF InMemory
    <3>2. CASE q = p
      BY <1>3, <1>5, <3>1, <3>2 DEF InMemory
    <3>3. CASE q # p
      BY <1>3, <3>1, <3>3 DEF InMemory
    <3> QED BY <3>2, <3>3
  <2> QED BY <2>1 DEF HInv, Books, HintsAccounted
<1>11. OvertakenOnlyAfterFailure'
  BY <1>1, <1>7 DEF HInv, Books, OvertakenOnlyAfterFailure, history
<1>12. RecordsUntilDelivered'
  BY <1>1 DEF HInv, Books, RecordsUntilDelivered, history
<1> QED BY <1>6, <1>8, <1>9, <1>10, <1>11, <1>12 DEF Books

\* A restart forgets every hint in memory.
LEMMA RestartStep ==
    ASSUME HInv, Restart
    PROVE  Books'
<1>1. /\ Typed /\ hints' = [p \in Peers |-> <<>>] /\ todo' = {} /\ cur' = NoPeer
      /\ pending' = <<>> /\ remaining' = <<>> /\ sent' = 0
      /\ forgotten' = forgotten \cup InMemory /\ cut' = cut \cup ({sent} \ {0})
      /\ UNCHANGED <<now, disk, last, delivered, failed, expired, overlapped, ioerr>>
  BY DEF HInv, Books, Restart
<1>2. \A p \in Peers : hints'[p] = <<>> /\ Ids(hints'[p]) = {} /\ Sorted(hints'[p])
  BY <1>1, EmptyIds
<1>3. InMemory \subseteq 1 .. last
  BY DEF HInv, Books, Filed, InMemory
<1>4. Typed'
  <2>1. hints' \in [Peers -> Seq(Hint)]
    BY <1>1
  <2>2. \A S \in {disk', delivered', failed', expired', forgotten', overlapped', cut', ioerr'} :
          S \subseteq 1 .. last
    <3>1. sent \in 0 .. last /\ cut \subseteq 1 .. last
      BY <1>1 DEF Typed
    <3>2. cut' \subseteq 1 .. last
      BY <1>1, <3>1 DEF Typed
    <3> QED BY <1>1, <1>3, <3>2 DEF Typed
  <2>3. <<>> \in Seq(Hint)
    OBVIOUS
  <2> QED BY <1>1, <2>1, <2>2, <2>3 DEF Typed
<1>5. Filed' /\ Working'
  BY <1>1, <1>2 DEF Filed, Working
<1>6. HintsAccounted'
  BY <1>1 DEF HInv, Books, HintsAccounted
<1>7. OvertakenOnlyAfterFailure'
  BY <1>1, <1>2 DEF HInv, Books, OvertakenOnlyAfterFailure
<1>8. RecordsUntilDelivered'
  <2>1. \A i \in 1 .. last : i # 0
    BY <1>1 DEF Typed
  <2> QED BY <1>1, <2>1 DEF HInv, Books, RecordsUntilDelivered
<1> QED BY <1>4, <1>5, <1>6, <1>7, <1>8 DEF Books

\* Deliver never holds, and never puts back, a hint that was delivered.
LEMMA UndeliveredStep ==
    ASSUME HInv, [Next]_vars
    PROVE  Undelivered'
<1>0. Typed /\ Filed /\ Working /\ Undelivered
  BY DEF HInv, Books
<1>1. CASE UNCHANGED <<hints, cur, pending, remaining, sent, delivered, cut>>
  BY <1>0, <1>1 DEF Undelivered
<1>2. CASE UNCHANGED vars \/ PassTime \/ TickerFires \/ \E p \in Peers : SkipPeer(p)
  BY <1>1, <1>2 DEF vars, PassTime, TickerFires, SkipPeer, loop, history
<1>3. ASSUME NEW p \in Peers, Store(p) PROVE Undelivered'
  <2> DEFINE h == [id |-> last + 1, at |-> now]
  <2>1. /\ hints' = [hints EXCEPT ![p] = Append(@, h)]
        /\ UNCHANGED <<cur, pending, remaining, sent, delivered, cut>>
    BY <1>3 DEF Store, Queue, loop
  <2>2. /\ hints \in [Peers -> Seq(Hint)] /\ h \in Hint /\ h.id = last + 1
        /\ last \in Nat /\ delivered \subseteq 1 .. last
    BY <1>0 DEF Typed, Hint
  <2>3. last + 1 \notin delivered
    BY <2>2
  <2> HIDE DEF h
  <2>4. Ids(Append(hints[p], h)) = Ids(hints[p]) \cup {last + 1}
    BY <2>2, AppendIds
  <2>5. hints'[p] = Append(hints[p], h) /\ \A q \in Peers \ {p} : hints'[q] = hints[q]
    BY <2>1, <2>2
  <2>6. \A q \in Peers : q # cur => Ids(hints'[q]) \cap delivered = {}
    <3>1. \A q \in Peers : q # cur => Ids(hints[q]) \cap delivered = {}
      BY <1>0 DEF Undelivered
    <3> QED BY <2>3, <2>4, <2>5, <3>1
  <2> QED BY <1>0, <2>1, <2>6 DEF Undelivered
<1>4. ASSUME NEW p \in Peers, DeliverBegin(p) PROVE Undelivered'
  <2>1. /\ cur = NoPeer /\ cur' = p /\ pending' = hints[p] /\ remaining' = <<>>
        /\ UNCHANGED <<hints, sent, delivered, cut>>
    BY <1>4 DEF DeliverBegin, history
  <2>2. \A q \in Peers : Ids(hints[q]) \cap delivered = {}
    BY <1>0, <2>1, PeersAssumption DEF Undelivered
  <2> QED BY <1>0, <2>1, <2>2, EmptyIds DEF Undelivered
<1>5. CASE Expire \/ \E i \in 1 .. MaxHints : SendOk(i) \/ SendError(i)
  <2>1. /\ pending # <<>> /\ pending' = Tail(pending) /\ UNCHANGED <<hints, cur, cut>>
        /\ sent = 0
        /\ \/ UNCHANGED <<remaining, sent, delivered>>
           \/ /\ remaining' = remaining /\ sent' = Head(pending).id
              /\ delivered' = delivered \cup {Head(pending).id}
           \/ /\ remaining' = Append(remaining, Head(pending))
              /\ UNCHANGED <<sent, delivered>>
    BY <1>5 DEF Expire, SendOk, SendError, Upcoming
  <2>2. /\ cur \in Peers /\ cur # NoPeer /\ Head(pending) \in Hint
        /\ Head(pending).id \in 1 .. last /\ Head(pending).id \in Ids(hints[cur])
        /\ Ids(pending) = {Head(pending).id} \cup Ids(Tail(pending))
        /\ \A k \in Ids(Tail(pending)) : Head(pending).id < k
    BY <2>1, NextHint
  <2>3. remaining \in Seq(Hint) /\ \A a \in Ids(remaining) : a < Head(pending).id
    BY <1>0, <2>2 DEF Typed, Working
  <2>4. Ids(Append(remaining, Head(pending))) = Ids(remaining) \cup {Head(pending).id}
    BY <2>2, <2>3, AppendIds
  <2>5. \A p \in Peers : p # cur => Head(pending).id \notin Ids(hints[p])
    BY <1>0, <2>2 DEF Filed
  <2>6. /\ Head(pending).id \notin Ids(Tail(pending)) /\ Head(pending).id \notin Ids(remaining)
        /\ Head(pending).id \notin delivered
    BY <1>0, <2>2, <2>3 DEF Undelivered
  <2>7. \A p \in Peers : p # cur' => Ids(hints'[p]) \cap delivered' = {}
    BY <1>0, <2>1, <2>5 DEF Undelivered
  <2>8. Ids(pending') \cap delivered' = {} /\ Ids(remaining') \cap delivered' = {}
    BY <1>0, <2>1, <2>2, <2>4, <2>6 DEF Undelivered
  <2>9. cut' \subseteq delivered' /\ (sent' # 0 => sent' \in delivered' /\ sent' \notin cut')
    BY <1>0, <2>1, <2>6 DEF Undelivered
  <2> QED BY <2>7, <2>8, <2>9 DEF Undelivered
<1>6. CASE DeleteRecord
  BY <1>0, <1>6 DEF DeleteRecord, Undelivered
<1>7. CASE DeliverEnd
  <2>1. /\ hints' = [hints EXCEPT ![cur] = remaining] /\ cur' = NoPeer
        /\ remaining' = <<>> /\ UNCHANGED <<pending, sent, delivered, cut>>
    BY <1>7 DEF DeliverEnd, Left, history
  <2>2. \A p \in Peers : Ids(hints'[p]) \cap delivered = {}
    BY <1>0, <2>1 DEF Undelivered, Typed
  <2> QED BY <1>0, <2>1, <2>2, EmptyIds DEF Undelivered
<1>8. CASE Restart
  <2>1. /\ \A p \in Peers : hints'[p] = <<>>
        /\ pending' = <<>> /\ remaining' = <<>> /\ sent' = 0
        /\ cut' = cut \cup ({sent} \ {0}) /\ delivered' = delivered
    BY <1>8 DEF Restart
  <2> QED BY <1>0, <2>1, EmptyIds DEF Undelivered
<1> QED BY <1>2, <1>3, <1>4, <1>5, <1>6, <1>7, <1>8 DEF Next, LoopStep
-----------------------------------------------------------------------------
(***************************************************************************)
(* The theorems.                                                           *)
(***************************************************************************)

\* HInv holds in every initial state and after every step of every behaviour.
THEOREM HintInvariance == Spec => []HInv
<1>1. Init => HInv
  <2> SUFFICES ASSUME Init PROVE HInv
    OBVIOUS
  <2>1. \A p \in Peers : hints[p] = <<>> /\ Ids(hints[p]) = {} /\ Sorted(hints[p])
    BY EmptyIds DEF Init
  <2>2. last = 0 /\ 1 .. last = {} /\ cur = NoPeer
    BY DEF Init
  <2>3. Typed
    BY DEF Init, Typed
  <2>4. Filed /\ Working
    BY <2>1, <2>2 DEF Filed, Working, Init
  <2>5. HintsAccounted /\ OvertakenOnlyAfterFailure /\ RecordsUntilDelivered
    BY <2>1, <2>2 DEF HintsAccounted, OvertakenOnlyAfterFailure, RecordsUntilDelivered
  <2>6. Undelivered
    BY <2>1, EmptyIds DEF Init, Undelivered
  <2> QED BY <2>3, <2>4, <2>5, <2>6 DEF HInv, Books
<1>2. HInv /\ [Next]_vars => Books'
  <2> SUFFICES ASSUME HInv, [Next]_vars PROVE Books'
    OBVIOUS
  <2>1. now \in Nat /\ todo \subseteq Peers
    BY DEF HInv, Books, Typed
  <2>2. CASE UNCHANGED vars
    BY <2>1, <2>2, IdleStep DEF vars, history
  <2>3. CASE TickerFires \/ \E p \in Peers : SkipPeer(p)
    <3>1. /\ UNCHANGED <<now, hints, disk, cur, pending, remaining, sent, last, history>>
          /\ todo' \subseteq Peers
      BY <2>1, <2>3 DEF TickerFires, SkipPeer
    <3> QED BY <2>1, <3>1, IdleStep
  <2>4. CASE PassTime
    <3>1. /\ UNCHANGED <<hints, disk, todo, cur, pending, remaining, sent, last, history>>
          /\ now' \in Nat
      BY <2>1, <2>4 DEF PassTime, loop
    <3> QED BY <2>1, <3>1, IdleStep
  <2>5. CASE Expire
    BY <2>5, AdvanceStep DEF Expire, Upcoming
  <2>6. ASSUME NEW i \in 1 .. MaxHints, SendOk(i) PROVE Books'
    BY <2>6, AdvanceStep DEF SendOk, Upcoming
  <2>7. ASSUME NEW i \in 1 .. MaxHints, SendError(i) PROVE Books'
    BY <2>7, AdvanceStep DEF SendError, Upcoming
  <2>8. CASE \E p \in Peers : Store(p) \/ DeliverBegin(p)
    BY <2>8, StoreStep, BeginStep
  <2>9. CASE DeleteRecord \/ DeliverEnd \/ Restart
    BY <2>9, DeleteStep, EndStep, RestartStep
  <2> QED BY <2>2, <2>3, <2>4, <2>5, <2>6, <2>7, <2>8, <2>9 DEF Next, LoopStep
<1>3. HInv /\ [Next]_vars => HInv'
  BY <1>2, UndeliveredStep DEF HInv
<1> QED BY <1>1, <1>3, PTL DEF Spec

\* A hint that is no longer pending was delivered, expired, was in memory when
\* the process stopped, or was stored during a delivery to its peer.
THEOREM HintLossAccounted == Spec => []HintsAccounted
<1>1. HInv => HintsAccounted
  BY DEF HInv, Books
<1> QED BY <1>1, HintInvariance, PTL

\* An older hint follows a newer one only after one of its deliveries failed.
THEOREM HintOrder == Spec => []OvertakenOnlyAfterFailure
<1>1. HInv => OvertakenOnlyAfterFailure
  BY DEF HInv, Books
<1> QED BY <1>1, HintInvariance, PTL

\* Without engine errors the records in the engine are those of the hints that
\* were not delivered, of the one whose record Deliver is about to delete, and
\* of those for which a stop of the process prevented it.
THEOREM HintRecords == Spec => []RecordsUntilDelivered
<1>1. HInv => RecordsUntilDelivered
  BY DEF HInv, Books
<1> QED BY <1>1, HintInvariance, PTL

\* Types; every list is in order, and no hint is on two of them.
THEOREM HintTypes == Spec => []TypeOK
<1>1. HInv => TypeOK
  BY TypesAndOrder DEF HInv, Books
<1> QED BY <1>1, HintInvariance, PTL
-----------------------------------------------------------------------------
(***************************************************************************)
(* The refinement of module Handoff.                                       *)
(***************************************************************************)

\* The elements of a list after each of the operations on lists.
LEMMA ListElems ==
    ASSUME NEW s \in Seq(Hint), NEW h \in Hint
    PROVE  /\ Elems(<<>>) = {} /\ Elems(s) \subseteq Hint
           /\ Elems(Append(s, h)) = Elems(s) \cup {h}
           /\ \A e \in Elems(s) : e.id \in Ids(s)
           /\ s # <<>> => Elems(s) = {Head(s)} \cup Elems(Tail(s))
<1>1. Elems(<<>>) = {} /\ Elems(s) \subseteq Hint /\ \A e \in Elems(s) : e.id \in Ids(s)
  BY DEF Elems, Ids
<1>2. Elems(Append(s, h)) = Elems(s) \cup {h}
  <2> DEFINE t == Append(s, h)
  <2>1. /\ DOMAIN s = 1 .. Len(s) /\ DOMAIN t = 1 .. Len(s) + 1 /\ Len(s) \in Nat
        /\ t[Len(s) + 1] = h /\ \A a \in DOMAIN s : t[a] = s[a]
    OBVIOUS
  <2> HIDE DEF t
  <2>2. Elems(t) = Elems(s) \cup {h}
    BY <2>1 DEF Elems
  <2> QED BY <2>2 DEF t
<1>3. ASSUME s # <<>> PROVE Elems(s) = {Head(s)} \cup Elems(Tail(s))
  <2> DEFINE t == Tail(s)
  <2>1. /\ Head(s) = s[1] /\ Len(s) \in Nat \ {0}
        /\ DOMAIN s = 1 .. Len(s) /\ DOMAIN t = 1 .. Len(s) - 1
        /\ \A a \in DOMAIN t : t[a] = s[a + 1]
    BY <1>3
  <2> HIDE DEF t
  <2>2. ASSUME NEW a \in DOMAIN s PROVE s[a] \in {Head(s)} \cup Elems(t)
    <3>1. CASE a = 1
      BY <2>1, <3>1
    <3>2. CASE a # 1
      <4>1. a - 1 \in DOMAIN t /\ t[a - 1] = s[a]
        BY <2>1, <3>2
      <4> QED BY <4>1 DEF Elems
    <3> QED BY <3>1, <3>2
  <2>3. {Head(s)} \cup Elems(t) \subseteq Elems(s)
    BY <2>1 DEF Elems
  <2> QED BY <2>2, <2>3 DEF Elems, t
<1> QED BY <1>1, <1>2, <1>3

\* What may still reach a peer, peer by peer.
LEMMA WaitingAt ==
    /\ Waiting = [p \in Peers |-> Waiting[p]]
    /\ \A p \in Peers : Waiting[p] = IF p = cur THEN Elems(pending) \cup Elems(remaining)
                                     ELSE Elems(hints[p])
BY DEF Waiting

\* The same after a step.
LEMMA WaitingThen ==
    /\ Waiting' = [p \in Peers |-> Waiting'[p]]
    /\ \A p \in Peers : Waiting'[p] = IF p = cur' THEN Elems(pending') \cup Elems(remaining')
                                      ELSE Elems(hints'[p])
BY DEF Waiting, Elems

\* The hint Deliver takes from its copy can no longer reach the peer afterwards,
\* unless it is kept among the remaining ones.
LEMMA TakenOut ==
    ASSUME HInv, pending # <<>>, pending' = Tail(pending), UNCHANGED <<hints, cur>>
    PROVE  /\ cur \in Peers /\ Head(pending) \in Waiting[cur]
           /\ Head(pending).id \notin delivered
           /\ remaining' = remaining =>
                 Waiting' = [Waiting EXCEPT ![cur] = @ \ {Head(pending)}]
           /\ remaining' = Append(remaining, Head(pending)) => Waiting' = Waiting
<1>1. /\ cur \in Peers /\ cur # NoPeer /\ Head(pending) \in Hint
      /\ Ids(pending) = {Head(pending).id} \cup Ids(Tail(pending))
      /\ \A k \in Ids(Tail(pending)) : Head(pending).id < k
      /\ Head(pending).id \in 1 .. last /\ Tail(pending) \in Seq(Hint)
  BY NextHint
<1>2. /\ pending \in Seq(Hint) /\ remaining \in Seq(Hint)
      /\ \A a \in Ids(remaining) : a < Head(pending).id
  BY <1>1 DEF HInv, Books, Typed, Working
<1>3. Elems(pending) = {Head(pending)} \cup Elems(Tail(pending))
  BY <1>1, <1>2, ListElems
<1>4. Head(pending) \notin Elems(Tail(pending)) /\ Head(pending) \notin Elems(remaining)
  <2>1. Head(pending).id \notin Ids(Tail(pending)) /\ Head(pending).id \notin Ids(remaining)
    BY <1>1, <1>2
  <2> QED BY <1>1, <1>2, <2>1, ListElems
<1>5. Waiting[cur] = Elems(pending) \cup Elems(remaining)
  BY <1>1, WaitingAt
<1>6. \A p \in Peers \ {cur} : Waiting'[p] = Waiting[p]
  BY WaitingAt, WaitingThen
<1>7. Waiting'[cur] = Elems(Tail(pending)) \cup Elems(remaining')
  BY <1>1, WaitingThen
<1>8. Head(pending).id \notin delivered
  BY <1>1 DEF HInv, Undelivered
<1>9. ASSUME remaining' = remaining
      PROVE  Waiting' = [Waiting EXCEPT ![cur] = @ \ {Head(pending)}]
  <2>1. Waiting'[cur] = Waiting[cur] \ {Head(pending)}
    BY <1>3, <1>4, <1>5, <1>7, <1>9
  <2> QED BY <1>1, <1>6, <2>1, WaitingAt, WaitingThen
<1>10. ASSUME remaining' = Append(remaining, Head(pending)) PROVE Waiting' = Waiting
  <2>1. Elems(remaining') = Elems(remaining) \cup {Head(pending)}
    BY <1>1, <1>2, <1>10, ListElems
  <2>2. Waiting'[cur] = Waiting[cur]
    BY <1>3, <1>5, <1>7, <2>1
  <2> QED BY <1>6, <2>2, WaitingAt, WaitingThen
<1> QED BY <1>1, <1>3, <1>5, <1>8, <1>9, <1>10

\* Every step of the detailed specification is a step of Handoff, or changes
\* nothing it speaks of.
LEMMA StepImplements ==
    ASSUME HInv, [Next]_vars
    PROVE  [Promise!Next]_(Promise!vars)
<1> USE DEF Promise!vars
<1>0. Typed /\ Filed /\ Working
  BY DEF HInv, Books
<1>1. CASE UNCHANGED <<now, last, cur, hints, pending, remaining, delivered>>
  BY <1>1, WaitingAt, WaitingThen
<1>2. CASE UNCHANGED vars \/ TickerFires \/ DeleteRecord \/ \E p \in Peers : SkipPeer(p)
  BY <1>1, <1>2 DEF vars, TickerFires, DeleteRecord, SkipPeer, history
<1>3. CASE PassTime
  <2>1. now' = now + 1 /\ UNCHANGED <<hints, last, cur, pending, remaining, delivered>>
    BY <1>3 DEF PassTime, loop, history
  <2>2. Waiting' = Waiting
    BY <2>1, WaitingAt, WaitingThen
  <2> QED BY <2>1, <2>2 DEF Promise!Tick, Promise!Next
<1>4. ASSUME NEW p \in Peers, Store(p) PROVE Promise!Next
  <2> DEFINE h == [id |-> last + 1, at |-> now]
  <2>1. /\ last' = last + 1 /\ hints' = [hints EXCEPT ![p] = Append(@, h)]
        /\ UNCHANGED <<now, cur, pending, remaining, delivered>>
    BY <1>4 DEF Store, Queue, loop
  <2>2. hints \in [Peers -> Seq(Hint)] /\ h \in Hint
    BY <1>0 DEF Typed, Hint
  <2>3. Elems(Append(hints[p], h)) = Elems(hints[p]) \cup {h}
    <3> HIDE DEF h
    <3> QED BY <2>2, ListElems
  <2>4. hints'[p] = Append(hints[p], h) /\ \A q \in Peers \ {p} : hints'[q] = hints[q]
    <3> HIDE DEF h
    <3> QED BY <2>1, <2>2
  <2>5. CASE p = cur
    <3>1. \A q \in Peers : Waiting'[q] = Waiting[q]
      BY <2>1, <2>4, <2>5, WaitingAt, WaitingThen
    <3>2. Waiting' = Waiting
      BY <3>1, WaitingAt, WaitingThen
    <3> QED BY <2>1, <2>5, <3>2 DEF Promise!Accept, Promise!Next
  <2>6. CASE p # cur
    <3>1. Waiting'[p] = Waiting[p] \cup {h} /\ \A q \in Peers \ {p} : Waiting'[q] = Waiting[q]
      <4> HIDE DEF h
      <4> QED BY <2>1, <2>3, <2>4, <2>6, WaitingAt, WaitingThen
    <3>2. Waiting' = [Waiting EXCEPT ![p] = @ \cup {h}]
      <4> HIDE DEF h
      <4> QED BY <3>1, WaitingAt, WaitingThen
    <3> QED BY <2>1, <2>6, <3>2 DEF Promise!Accept, Promise!Next
  <2> QED BY <2>5, <2>6
<1>5. ASSUME NEW p \in Peers, DeliverBegin(p) PROVE Promise!Next
  <2>1. /\ cur = NoPeer /\ cur' = p /\ pending' = hints[p] /\ remaining' = <<>>
        /\ UNCHANGED <<now, hints, last, delivered>>
    BY <1>5 DEF DeliverBegin, history
  <2>2. Elems(<<>>) = {}
    BY DEF Elems
  <2>3. \A q \in Peers : Waiting'[q] = Waiting[q]
    BY <2>1, <2>2, PeersAssumption, WaitingAt, WaitingThen
  <2>4. Waiting' = Waiting
    BY <2>3, WaitingAt, WaitingThen
  <2> QED BY <2>1, <2>4 DEF Promise!Begin, Promise!Next
<1>6. CASE Expire
  <2>1. /\ pending # <<>> /\ pending' = Tail(pending) /\ now - Head(pending).at > HintTTL
        /\ UNCHANGED <<now, hints, cur, remaining, last, delivered>>
    BY <1>6 DEF Expire, Upcoming, Stale
  <2>2. /\ cur \in Peers /\ Head(pending) \in Waiting[cur]
        /\ Waiting' = [Waiting EXCEPT ![cur] = @ \ {Head(pending)}]
    BY <2>1, TakenOut
  <2>3. Promise!Expire(Head(pending))
    BY <2>1, <2>2 DEF Promise!Expire, Promise!Leave
  <2> QED BY <2>2, <2>3 DEF Promise!Next
<1>7. ASSUME NEW i \in 1 .. MaxHints, SendOk(i) PROVE Promise!Next
  <2>1. /\ pending # <<>> /\ pending' = Tail(pending) /\ ~(now - Head(pending).at > HintTTL)
        /\ Head(pending).id = i /\ delivered' = delivered \cup {i}
        /\ UNCHANGED <<now, hints, cur, remaining, last>>
    BY <1>7 DEF SendOk, Upcoming, Stale
  <2>2. /\ cur \in Peers /\ Head(pending) \in Waiting[cur] /\ i \notin delivered
        /\ Waiting' = [Waiting EXCEPT ![cur] = @ \ {Head(pending)}]
    BY <2>1, TakenOut
  <2>3. now - Head(pending).at <= HintTTL
    <3>1. Head(pending) \in Hint
      BY <2>1, NextHint
    <3> QED BY <1>0, <2>1, <3>1, TTLAssumption DEF Hint, Typed
  <2>4. Promise!Deliver(Head(pending))
    BY <2>1, <2>2, <2>3 DEF Promise!Deliver, Promise!Leave
  <2> QED BY <2>2, <2>4 DEF Promise!Next
<1>8. ASSUME NEW i \in 1 .. MaxHints, SendError(i) PROVE [Promise!Next]_(Promise!vars)
  <2>1. /\ pending # <<>> /\ pending' = Tail(pending)
        /\ remaining' = Append(remaining, Head(pending))
        /\ UNCHANGED <<now, hints, cur, last, delivered>>
    BY <1>8 DEF SendError, Upcoming
  <2>2. Waiting' = Waiting
    BY <2>1, TakenOut
  <2> QED BY <2>1, <2>2
<1>9. CASE DeliverEnd
  <2>1. /\ cur \in Peers /\ cur # NoPeer /\ pending = <<>> /\ cur' = NoPeer
        /\ hints' = [hints EXCEPT ![cur] = remaining]
        /\ UNCHANGED <<now, last, delivered>>
    BY <1>0, <1>9 DEF DeliverEnd, Left, history, Typed
  <2>2. Elems(pending) = {}
    BY <2>1 DEF Elems
  <2>3. hints'[cur] = remaining /\ \A q \in Peers \ {cur} : hints'[q] = hints[q]
    BY <1>0, <2>1 DEF Typed
  <2>4. \A q \in Peers : Waiting'[q] = Waiting[q]
    <3>1. \A q \in Peers : Waiting'[q] = Elems(hints'[q])
      BY <2>1, PeersAssumption, WaitingThen
    <3>2. Waiting[cur] = Elems(remaining)
      BY <2>1, <2>2, WaitingAt
    <3> QED BY <2>3, <3>1, <3>2, WaitingAt
  <2>5. Waiting' = Waiting
    BY <2>4, WaitingAt, WaitingThen
  <2> QED BY <2>1, <2>5 DEF Promise!End, Promise!Next
<1>10. CASE Restart
  <2>1. /\ hints' = [p \in Peers |-> <<>>] /\ cur' = NoPeer
        /\ UNCHANGED <<now, last, delivered>>
    BY <1>10 DEF Restart
  <2>2. Elems(<<>>) = {}
    BY DEF Elems
  <2>3. \A q \in Peers : Waiting'[q] = {}
    BY <2>1, <2>2, PeersAssumption, WaitingThen
  <2>4. Waiting' = [q \in Peers |-> {}]
    BY <2>3, WaitingThen
  <2> QED BY <2>1, <2>4 DEF Promise!Restart, Promise!Next
<1> QED BY <1>2, <1>3, <1>4, <1>5, <1>6, <1>7, <1>8, <1>9, <1>10 DEF Next, LoopStep

\* Hinted handoff implements Handoff: a hint reaches its peer at most once and
\* not too late, and is lost only by age, by a restart, or because it came while
\* Deliver was busy with its peer, for every number of peers and hints.
THEOREM HandoffRefined == Spec => KeepsPromise
<1>1. Init => Promise!Init
  <2> SUFFICES ASSUME Init PROVE Promise!Init
    OBVIOUS
  <2>1. Elems(<<>>) = {}
    BY DEF Elems
  <2>2. \A p \in Peers : Waiting[p] = {}
    BY <2>1, WaitingAt DEF Init
  <2>3. Waiting = [p \in Peers |-> {}]
    BY <2>2, WaitingAt
  <2> QED BY <2>3 DEF Init, Promise!Init
<1>2. HInv /\ [Next]_vars => [Promise!Next]_(Promise!vars)
  BY StepImplements
<1> QED BY <1>1, <1>2, HintInvariance, PTL DEF Spec, KeepsPromise, Promise!Spec
=============================================================================
