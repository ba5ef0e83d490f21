------------------------ MODULE StorageEngineProofs ------------------------
(***************************************************************************)
(* The invariants of StorageEngine for every set of keys and writers and   *)
(* every size, threshold and bound.  None of them is inductive alone: what *)
(* recovery finds depends on how the snapshot files came to be, so the     *)
(* invariant also speaks of the snapshots being built and of the writes    *)
(* that are in the log and not yet acknowledged.                           *)
(***************************************************************************)
EXTENDS StorageEngine, FiniteSetTheorems, WellFoundedInduction, NaturalsInduction, TLAPS

\* A record superseded only writes acknowledged before it, and an
\* acknowledged record is whole.
LogInv ==
    \A i \in 1 .. Len(log) :
        /\ log[i].after \subseteq acked
        /\ \A j \in log[i].after : j < i
        /\ i \in acked => log[i].tear = "none"

\* A writer past its append owns a position of the log nobody else owns.
WriterInv ==
    \A w \in Writers :
        /\ wpc[w] # "idle" => /\ wrec[w] \in Record
                              /\ wrec[w].tear = "none"
                              /\ wrec[w].after \subseteq acked
        /\ wpc[w] = "apply" => /\ widx[w] \in 1 .. Len(log)
                               /\ widx[w] \notin acked
                               /\ log[widx[w]] = wrec[w]
                               /\ \A v \in Writers :
                                     (v # w /\ wpc[v] = "apply") => widx[v] # widx[w]

\* Nothing runs in a process that is not running.
QuietInv ==
    ~Running => /\ \A w \in Writers : wpc[w] = "idle"
                /\ \A p \in Snappers : spc[p] = "idle"

\* A snapshot shows no key as it was before a write acknowledged when the
\* memtable was copied.
SnapOK(s) ==
    /\ s.mem \in [Keys -> (0 .. Len(log)) \cup {Garbage}]
    /\ s.applied \subseteq acked
    /\ s.upto \in 0 .. Len(log)
    /\ s.at \in 0 .. clock
    /\ \A i \in s.applied \ forgotten : ~Undone(i, s.mem[log[i].key])

SnapInv ==
    /\ \A s \in snaps : SnapOK(s)
    /\ \A p \in Snappers : SnapOK(sdata[p])

IInv == TypeOK /\ LogInv /\ WriterInv /\ QuietInv /\ ReadsSeeAcked /\ SnapInv
-----------------------------------------------------------------------------
\* A bounded nonempty set of naturals has a greatest element.
LEMMA GreatestExists ==
    ASSUME NEW n \in Nat, NEW S \in SUBSET (0 .. n), S # {}
    PROVE  \E m \in S : \A x \in S : m >= x
<1> DEFINE R == OpToRel(<, Nat)
           T == {n - x : x \in S}
<1>1. T \subseteq Nat /\ T # {}
  <2>1. ASSUME NEW x \in S PROVE n - x \in Nat
    <3>1. x \in 0 .. n
      OBVIOUS
    <3> QED BY <3>1
  <2>2. PICK x \in S : TRUE
    OBVIOUS
  <2>3. n - x \in T
    BY <2>2
  <2> QED BY <2>1, <2>3
<1>2. IsWellFoundedOn(R, Nat)
  BY NatLessThanWellFounded
<1>3. PICK y \in T : \A z \in T : ~(<<z, y>> \in R)
  BY <1>1, <1>2, WFMin
<1>4. PICK m \in S : y = n - m
  BY <1>3
<1>5. ASSUME NEW x \in S PROVE m >= x
  <2>1. n - x \in T /\ n - x \in Nat /\ y \in Nat
    BY <1>1, <1>3
  <2>2. ~(<<n - x, y>> \in R)
    BY <1>3, <2>1
  <2>3. ~(n - x < y)
    BY <2>1, <2>2 DEF OpToRel
  <2> QED BY <2>3, <1>4
<1> QED BY <1>4, <1>5

\* What Max returns on positions of the log.
LEMMA MaxProps ==
    ASSUME NEW n \in Nat, NEW S \in SUBSET (0 .. n), S # {}
    PROVE  Max(S) \in S /\ \A x \in S : Max(S) >= x
BY GreatestExists DEF Max

\* A set of snapshots created at bounded times has a newest one.
LEMMA NewestProps ==
    ASSUME NEW n \in Nat, NEW T, T # {}, \A s \in T : s.at \in 0 .. n
    PROVE  LET m == CHOOSE s \in T : \A u \in T : s.at >= u.at
           IN  m \in T /\ \A u \in T : m.at >= u.at
<1> DEFINE A == {s.at : s \in T}
<1>1. A \in SUBSET (0 .. n) /\ A # {}
  OBVIOUS
<1>2. PICK m \in A : \A x \in A : m >= x
  BY <1>1, GreatestExists
<1>3. \E s \in T : \A u \in T : s.at >= u.at
  BY <1>2
<1> QED BY <1>3

\* The snapshot Open loads is one of the files, and none is newer.
LEMMA LatestProps ==
    ASSUME NEW n \in Nat, \A s \in snaps : s.at \in 0 .. n
    PROVE  /\ snaps = {} => LoadLatest = NoSnapshot
           /\ snaps # {} => /\ LoadLatest \in snaps
                            /\ \A u \in snaps : LoadLatest.at >= u.at
BY NewestProps DEF LoadLatest

\* The same of the snapshot Open would load, under the invariant; NoSnapshot,
\* loaded when there is no file, satisfies it vacuously.
LEMMA LatestOK ==
    ASSUME IInv
    PROVE  SnapOK(LoadLatest) /\ LoadLatest \in Snapshot
<1>1. Len(log) \in Nat /\ clock \in Nat
  BY DEF IInv, TypeOK
<1>2. SnapOK(NoSnapshot) /\ NoSnapshot \in Snapshot
  BY <1>1 DEF SnapOK, NoSnapshot, Snapshot
<1>3. \A s \in snaps : s.at \in 0 .. clock
  BY DEF IInv, SnapInv, SnapOK
<1>4. snaps # {} => LoadLatest \in snaps
  BY <1>1, <1>3, LatestProps
<1>5. snaps = {} => LoadLatest = NoSnapshot
  BY <1>1, <1>3, LatestProps
<1>6. \A s \in snaps : SnapOK(s) /\ s \in Snapshot
  BY DEF IInv, SnapInv, TypeOK
<1> QED BY <1>2, <1>4, <1>5, <1>6

\* What recovery puts under a key: the snapshot's write, garbage, or the
\* newest replayed write of that key.
LEMMA RecoveredCases ==
    ASSUME IInv, NEW s \in Snapshot, NEW misread \in BOOLEAN, NEW k \in Keys
    PROVE  LET m == Recovered(s, misread)[k]
               written == {i \in Replayed(s) : log[i].key = k}
           IN \/ m = s.mem[k] /\ misread /\ Misplaced(s)
              \/ m = Garbage /\ ~Misplaced(s) /\ Spliced(s, k)
              \/ m = s.mem[k] /\ written = {}
              \/ m \in written /\ \A i \in written : m >= i
<1> DEFINE written == {i \in Replayed(s) : log[i].key = k}
<1>1. Len(log) \in Nat /\ base \in Nat /\ s.off \in Nat
  BY DEF IInv, TypeOK, Snapshot
<1>2. written \in SUBSET (0 .. Len(log))
  BY <1>1 DEF Replayed, Reached
<1>3. written # {} => Max(written) \in written /\ \A i \in written : Max(written) >= i
  BY <1>1, <1>2, MaxProps
<1>4. Recovered(s, misread)[k] =
        CASE misread /\ Misplaced(s) -> s.mem[k]
          [] misread /\ ~Misplaced(s) /\ Spliced(s, k) -> Garbage
          [] OTHER -> IF written = {} THEN s.mem[k] ELSE Max(written)
  BY DEF Recovered
<1>5. CASE misread /\ Misplaced(s)
  BY <1>4, <1>5
<1>6. CASE misread /\ ~Misplaced(s) /\ Spliced(s, k)
  BY <1>4, <1>6
<1>7. CASE ~(misread /\ Misplaced(s)) /\ ~(misread /\ ~Misplaced(s) /\ Spliced(s, k))
  <2>1. Recovered(s, misread)[k] = IF written = {} THEN s.mem[k] ELSE Max(written)
    BY <1>4, <1>7
  <2> QED BY <2>1, <1>3
<1> QED BY <1>5, <1>6, <1>7

\* Open rebuilds a memtable that points into the log.
LEMMA RecoveredType ==
    ASSUME IInv, NEW misread \in BOOLEAN
    PROVE  Recovered(LoadLatest, misread) \in [Keys -> (0 .. Len(log)) \cup {Garbage}]
<1> DEFINE s == LoadLatest
<1>1. s \in Snapshot /\ s.mem \in [Keys -> (0 .. Len(log)) \cup {Garbage}]
  BY LatestOK DEF SnapOK
<1>2. Len(log) \in Nat /\ base \in Nat /\ s.off \in Nat
  BY <1>1 DEF IInv, TypeOK, Snapshot
<1>3. Replayed(s) \subseteq 0 .. Len(log)
  BY <1>2 DEF Replayed, Reached
<1>4. ASSUME NEW k \in Keys
      PROVE  Recovered(s, misread)[k] \in (0 .. Len(log)) \cup {Garbage}
  BY <1>1, <1>3, RecoveredCases
<1>5. Recovered(s, misread) = [k \in Keys |-> Recovered(s, misread)[k]]
  BY DEF Recovered
<1> QED BY <1>4, <1>5

\* An acknowledged write after the offset that Replay does not return has a
\* torn record before it.
LEMMA TornBefore ==
    ASSUME IInv, NEW s \in Snapshot, base + s.off = s.upto,
           NEW i \in acked, i > s.upto, i \notin Replayed(s)
    PROVE  \E t \in s.upto + 1 .. Len(log) : log[t].tear # "none" /\ t < i
<1>1. Len(log) \in Nat /\ base \in Nat /\ s.off \in Nat /\ s.upto \in Nat
  BY DEF IInv, TypeOK, Snapshot
<1>2. i \in 1 .. Len(log) /\ log[i].tear = "none"
  BY DEF IInv, TypeOK, LogInv
<1>3. Reached(s) = s.upto + 1 .. Len(log)
  BY DEF Reached
<1>4. i \in Reached(s)
  BY <1>1, <1>2, <1>3
<1>5. PICK u \in Reached(s) : u <= i /\ log[u].tear # "none"
  BY <1>4 DEF Replayed
<1>6. u < i
  BY <1>1, <1>2, <1>3, <1>5
<1> QED BY <1>3, <1>5, <1>6

\* The invariant bounds what a recovery started now could lose.
LEMMA LossIsAccounted ==
    ASSUME IInv
    PROVE  AccountedLoss
<1> DEFINE s == LoadLatest
<1> SUFFICES ASSUME NEW i \in acked \ forgotten, Lost(i), base + s.off = s.upto,
                    ~(i <= s.upto /\ i \notin s.applied)
             PROVE  \E t \in s.upto + 1 .. Len(log) :
                         /\ log[t].tear # "none"
                         /\ \/ t < i
                            \/ log[t].tear = "payload" /\ log[t].key = log[i].key
  BY DEF AccountedLoss
<1> DEFINE k == log[i].key
           written == {j \in Replayed(s) : log[j].key = k}
<1>1. s \in Snapshot /\ SnapOK(s)
  BY LatestOK
<1>2. Len(log) \in Nat /\ base \in Nat /\ s.off \in Nat /\ s.upto \in Nat
  BY <1>1 DEF IInv, TypeOK, Snapshot
<1>3. i \in 1 .. Len(log) /\ log[i] \in Record
  <2>1. i \in 1 .. Len(log)
    BY DEF IInv, TypeOK
  <2>2. log \in Seq(Record)
    BY DEF IInv, TypeOK
  <2> QED BY <2>1, <2>2
<1>4. k \in Keys
  BY <1>3 DEF Record
<1>5. Reached(s) = s.upto + 1 .. Len(log)
  BY DEF Reached
<1>6. ~Misplaced(s)
  BY DEF Misplaced
<1>7. PICK misread \in BOOLEAN : Undone(i, Recovered(s, misread)[k])
  BY DEF Lost
<1>8. CASE Spliced(s, k)
  BY <1>5, <1>8 DEF Spliced, FirstTorn
<1>9. CASE Recovered(s, misread)[k] = s.mem[k] /\ written = {}
  <2>1. i \notin Replayed(s)
    BY <1>9
  <2>2. i > s.upto
    <3> SUFFICES ASSUME i <= s.upto PROVE FALSE
      BY <1>2, <1>3
    <3>1. i \in s.applied \ forgotten
      OBVIOUS
    <3> QED BY <1>1, <1>7, <1>9, <3>1 DEF SnapOK
  <2> QED BY <1>1, <2>1, <2>2, TornBefore
<1>10. CASE /\ Recovered(s, misread)[k] \in written
            /\ \A j \in written : Recovered(s, misread)[k] >= j
  <2> DEFINE m == Recovered(s, misread)[k]
  <2>1. m \in Reached(s) /\ m \in Replayed(s)
    BY <1>10 DEF Replayed
  <2>2. m \in s.upto + 1 .. Len(log)
    BY <1>5, <2>1
  <2>3. m # 0 /\ m # Garbage
    BY <1>2, <2>2 DEF Garbage
  <2>4. m \in log[i].after
    BY <1>7, <2>3 DEF Undone
  <2>5. m < i
    BY <1>3, <2>4 DEF IInv, LogInv
  <2>6. i > s.upto
    BY <1>2, <1>3, <2>2, <2>5
  <2>7. i \notin Replayed(s)
    <3> SUFFICES ASSUME i \in Replayed(s) PROVE FALSE
      OBVIOUS
    <3>1. i \in written
      OBVIOUS
    <3>2. m >= i
      BY <1>10, <3>1
    <3> QED BY <1>2, <1>3, <2>2, <2>5, <3>2
  <2> QED BY <1>1, <2>6, <2>7, TornBefore
<1> QED BY <1>1, <1>4, <1>6, <1>8, <1>9, <1>10, RecoveredCases
-----------------------------------------------------------------------------
\* The log only grows.
Grows == /\ log' \in Seq(Record)
         /\ Len(log) <= Len(log')
         /\ \A i \in 1 .. Len(log) : log'[i] = log[i]

\* Snapshots, and what a memtable shows of acknowledged writes, depend on parts
\* of the state that only grow.
LEMMA GrowthKeeps ==
    ASSUME IInv, Grows, acked \subseteq acked', forgotten \subseteq forgotten',
           clock' \in Nat, clock <= clock'
    PROVE  /\ \A s \in Snapshot : SnapOK(s) => SnapOK(s)'
           /\ \A i \in acked, m \in Int : Undone(i, m)' <=> Undone(i, m)
<1>1. /\ Len(log) \in Nat /\ Len(log') \in Nat /\ clock \in Nat
      /\ acked \subseteq 1 .. Len(log)
  BY DEF IInv, TypeOK, Grows
<1>2. \A i \in acked : log'[i] = log[i]
  BY <1>1 DEF Grows
<1>3. \A i \in acked, m \in Int : Undone(i, m)' <=> Undone(i, m)
  BY <1>2 DEF Undone, Garbage
<1>4. ASSUME NEW s \in Snapshot, SnapOK(s)
      PROVE  SnapOK(s)'
  <2>1. /\ s.mem \in [Keys -> (0 .. Len(log')) \cup {Garbage}]
        /\ s.applied \subseteq acked'
        /\ s.upto \in 0 .. Len(log')
        /\ s.at \in 0 .. clock'
    BY <1>1, <1>4 DEF SnapOK, Grows
  <2>2. ASSUME NEW i \in s.applied \ forgotten' PROVE ~Undone(i, s.mem[log[i].key])'
    <3>1. i \in s.applied \ forgotten /\ i \in acked
      BY <1>4 DEF SnapOK
    <3>2. ~Undone(i, s.mem[log[i].key])
      BY <1>4, <3>1 DEF SnapOK
    <3> QED BY <1>2, <3>1, <3>2 DEF Undone, Garbage
  <2> QED BY <2>1, <2>2 DEF SnapOK
<1> QED BY <1>3, <1>4

\* One more item in the log.
LEMMA WriteGrows ==
    ASSUME IInv, NEW w \in Writers, NEW tear \in {"none"} \cup Tears, Write(w, tear)
    PROVE  /\ Grows
           /\ Len(log') = Len(log) + 1
           /\ log'[Len(log) + 1] \in Record
           /\ log'[Len(log) + 1].after = wrec[w].after
           /\ log'[Len(log) + 1].tear = tear
           /\ tear = "none" => log'[Len(log) + 1] = wrec[w]
           /\ base' \in 0 .. Len(log)
           /\ RotatedSize \in Nat
           /\ RotatedSize <= Len(log) - base'
<1>1. wpc[w] # "idle" /\ walOpen
  BY DEF Write
<1>2. wrec[w] \in Record /\ wrec[w].tear = "none"
  BY <1>1 DEF IInv, WriterInv
<1> DEFINE r == [wrec[w] EXCEPT !.tear = tear]
<1>3. r \in Record /\ r.after = wrec[w].after /\ r.tear = tear
  BY <1>2 DEF Record
<1>4. tear = "none" => r = wrec[w]
  BY <1>2 DEF Record
<1>5. log \in Seq(Record) /\ log' = Append(log, r)
  BY DEF Write, IInv, TypeOK
<1> HIDE DEF r
<1>6. /\ Len(log') = Len(log) + 1 /\ log' \in Seq(Record)
      /\ \A i \in 1 .. Len(log) : log'[i] = log[i]
      /\ log'[Len(log) + 1] = r
  BY <1>3, <1>5
<1>7. Grows
  BY <1>5, <1>6 DEF Grows
<1>8. /\ base' \in 0 .. Len(log) /\ RotatedSize \in Nat
      /\ RotatedSize <= Len(log) - base'
  BY <1>1 DEF Write, RotatedBase, RotatedSize, IInv, TypeOK
<1> QED BY <1>3, <1>4, <1>6, <1>7, <1>8

\* The end of the process, whatever the last bytes written.
LEMMA StopKeeps ==
    ASSUME IInv, Stop, Grows, base' \in 0 .. Len(log'), LogInv'
    PROVE  IInv'
<1>1. Len(log) \in Nat /\ Len(log') \in Nat
  BY DEF IInv, TypeOK, Grows
<1>2. TypeOK'
  <2>1. NoSnapshot \in Snapshot
    BY DEF NoSnapshot, Snapshot
  <2>2. SnapshotThreshold \in Nat \ {0}
    BY SizesAssumption
  <2>3. sdata' \in [Snappers -> Snapshot] /\ spc' \in [Snappers -> {"idle"}]
    BY <2>1 DEF Stop
  <2>4. /\ snaps' \subseteq Snapshot /\ clock' \in Nat
        /\ acked' \subseteq 1 .. Len(log') /\ forgotten' \subseteq acked'
    BY <1>1 DEF Stop, history, IInv, TypeOK, Grows
  <2>5. /\ log' \in Seq(Record) /\ walOpen' = FALSE /\ size' = 0
        /\ writeCount' \in 0 .. SnapshotThreshold - 1
        /\ phase' = "down"
    BY <2>2 DEF Stop, Grows
  <2>6. /\ mem' \in [Keys -> (0 .. Len(log')) \cup {Garbage}]
        /\ wpc' \in [Writers -> {"idle", "append", "apply"}]
        /\ wrec' \in [Writers -> Record \cup {NoRecord}]
        /\ widx' \in [Writers -> 0 .. Len(log')]
    BY <1>1 DEF Stop
  <2> QED BY <2>3, <2>4, <2>5, <2>6 DEF TypeOK
<1>3. WriterInv' /\ QuietInv' /\ ReadsSeeAcked'
  BY DEF Stop, WriterInv, QuietInv, ReadsSeeAcked
<1>4. SnapInv'
  <2>1. \A s \in Snapshot : SnapOK(s) => SnapOK(s)'
    BY GrowthKeeps DEF Stop, history, IInv, TypeOK
  <2>2. \A s \in snaps' : SnapOK(s)'
    BY <2>1 DEF Stop, IInv, TypeOK, SnapInv
  <2>3. /\ Len(log') \in Nat /\ clock' \in Nat
    BY <1>1, <1>2 DEF TypeOK
  <2>4. ASSUME NEW p \in Snappers PROVE SnapOK(sdata[p])'
    <3>1. sdata'[p] = NoSnapshot
      BY DEF Stop
    <3> QED BY <2>3, <3>1 DEF SnapOK, NoSnapshot
  <2> QED BY <2>2, <2>4 DEF SnapInv
<1> QED BY <1>2, <1>3, <1>4 DEF IInv

\* A step that leaves the files and the histories alone keeps what is said of
\* the log and of the snapshots.
LEMMA FilesFrame ==
    ASSUME IInv, UNCHANGED <<disk, sdata, clock, history>>
    PROVE  LogInv' /\ SnapInv'
BY DEF IInv, disk, history, LogInv, SnapInv, SnapOK, Undone

LEMMA OpenKeeps ==
    ASSUME IInv, Open
    PROVE  IInv'
<1>1. PICK misread \in BOOLEAN : mem' = Recovered(LoadLatest, misread)
  BY DEF Open
<1>2. mem' \in [Keys -> (0 .. Len(log)) \cup {Garbage}]
  BY <1>1, RecoveredType
<1>3. /\ UNCHANGED <<log, base, snaps, writeCount, wpc, wrec, widx, spc, sdata, clock, acked>>
      /\ phase = "down" /\ phase' = "up" /\ size' = Len(log) - base /\ walOpen' = TRUE
      /\ forgotten' = forgotten \cup {i \in acked : Undone(i, mem'[log[i].key])}
  BY DEF Open, disk, writers
<1>4. TypeOK'
  <2>1. forgotten' \subseteq acked'
    BY <1>3 DEF IInv, TypeOK
  <2>2. size' \in Nat /\ size' <= Len(log') - base'
    BY <1>3 DEF IInv, TypeOK
  <2> QED BY <1>2, <1>3, <2>1, <2>2 DEF IInv, TypeOK
<1>5. LogInv' /\ WriterInv'
  BY <1>3 DEF IInv, LogInv, WriterInv
<1>6. QuietInv'
  BY <1>3 DEF QuietInv, Running
<1>7. ReadsSeeAcked'
  BY <1>3 DEF ReadsSeeAcked, Undone
<1>8. SnapInv'
  <2>1. \A s \in Snapshot : SnapOK(s) => SnapOK(s)'
    <3>1. Grows /\ clock' \in Nat /\ clock <= clock'
      BY <1>3 DEF Grows, IInv, TypeOK
    <3> QED BY <1>3, <3>1, GrowthKeeps
  <2> QED BY <1>3, <2>1 DEF IInv, TypeOK, SnapInv, SnapOK, Undone
<1> QED BY <1>4, <1>5, <1>6, <1>7, <1>8 DEF IInv

LEMMA OpenFailsKeeps ==
    ASSUME IInv, OpenFails
    PROVE  IInv'
<1>1. /\ UNCHANGED <<log, base, snaps, size, walOpen, mem, writeCount, wpc, wrec, widx,
                     spc, sdata, clock, acked, forgotten>>
      /\ phase = "down" /\ phase' = "failed"
  BY DEF OpenFails, disk, wal, writers, history
<1>2. TypeOK' /\ WriterInv'
  BY <1>1 DEF IInv, TypeOK, WriterInv
<1>3. QuietInv' /\ ReadsSeeAcked'
  BY <1>1 DEF IInv, QuietInv, ReadsSeeAcked, Running
<1>4. LogInv' /\ SnapInv'
  BY <1>1, FilesFrame DEF disk, history
<1> QED BY <1>2, <1>3, <1>4 DEF IInv

LEMMA BeginKeeps ==
    ASSUME IInv, NEW w \in Writers, NEW k \in Keys, NEW op \in {"put", "del"}, Begin(w, k, op)
    PROVE  IInv'
<1> DEFINE r == [key |-> k, op |-> op, tear |-> "none", after |-> {i \in acked : log[i].key = k}]
<1>1. /\ UNCHANGED <<phase, log, base, snaps, size, walOpen, mem, writeCount, widx,
                     spc, sdata, clock, acked, forgotten>>
      /\ phase = "up" /\ wpc[w] = "idle"
      /\ wpc' = [wpc EXCEPT ![w] = "append"]
      /\ wrec' = [wrec EXCEPT ![w] = r]
  BY DEF Begin, disk, wal, history
<1>2. r \in Record /\ r.tear = "none" /\ r.after \subseteq acked
  <2>1. {i \in acked : log[i].key = k} \subseteq acked
    OBVIOUS
  <2>2. acked \subseteq Nat \ {0}
    <3>1. acked \subseteq 1 .. Len(log)
      BY DEF IInv, TypeOK
    <3> QED BY <3>1
  <2>3. {i \in acked : log[i].key = k} \in SUBSET (Nat \ {0})
    BY <2>1, <2>2
  <2> QED BY <2>1, <2>3 DEF Record
<1> HIDE DEF r
<1>3. TypeOK'
  BY <1>1, <1>2 DEF IInv, TypeOK
<1>4. WriterInv'
  BY <1>1, <1>2 DEF IInv, TypeOK, WriterInv
<1>5. QuietInv' /\ ReadsSeeAcked'
  BY <1>1 DEF IInv, QuietInv, ReadsSeeAcked, Running, Undone
<1>6. LogInv' /\ SnapInv'
  BY <1>1, FilesFrame DEF disk, history
<1> QED BY <1>3, <1>4, <1>5, <1>6 DEF IInv

\* A record reaches the file: the log keeps its shape, and the other writers'
\* records stay where they are.
LEMMA WriteKeeps ==
    ASSUME IInv, NEW w \in Writers, NEW tear \in {"none"} \cup Tears, Write(w, tear),
           UNCHANGED <<phase, snaps, mem, sdata, clock, acked, forgotten>>
    PROVE  LogInv' /\ SnapInv' /\ ReadsSeeAcked'
<1>1. /\ Grows /\ Len(log') = Len(log) + 1
      /\ log'[Len(log) + 1].after = wrec[w].after
  BY WriteGrows
<1>2. Len(log) \in Nat /\ acked \subseteq 1 .. Len(log) /\ clock \in Nat
  BY DEF IInv, TypeOK
<1>3. wrec[w].after \subseteq acked
  BY DEF Write, IInv, WriterInv
<1>4. LogInv'
  <2> SUFFICES ASSUME NEW i \in 1 .. Len(log')
               PROVE  /\ log'[i].after \subseteq acked
                      /\ \A j \in log'[i].after : j < i
                      /\ i \in acked => log'[i].tear = "none"
    BY DEF LogInv
  <2>1. CASE i \in 1 .. Len(log)
    BY <1>1, <2>1 DEF Grows, IInv, LogInv
  <2>2. CASE i = Len(log) + 1
    <3>1. log'[i].after = wrec[w].after
      BY <1>1, <2>2
    <3>2. \A j \in acked : j \in 1 .. Len(log)
      BY <1>2
    <3>3. \A j \in acked : j < i
      BY <1>2, <2>2, <3>2
    <3>4. i \notin acked
      BY <2>2, <3>3, <1>2
    <3> QED BY <1>3, <3>1, <3>3, <3>4
  <2> QED BY <1>1, <1>2, <2>1, <2>2
<1>5. \A s \in Snapshot : SnapOK(s) => SnapOK(s)'
  BY <1>1, <1>2, GrowthKeeps
<1>6. SnapInv'
  BY <1>5, ZenonT(40) DEF IInv, TypeOK, SnapInv, SnapOK, Undone
<1>7. ReadsSeeAcked'
  BY <1>1, <1>2 DEF Grows, IInv, ReadsSeeAcked, Undone
<1> QED BY <1>4, <1>6, <1>7

LEMMA WalAppendKeeps ==
    ASSUME IInv, NEW w \in Writers, WalAppend(w)
    PROVE  IInv'
<1>1. /\ UNCHANGED <<phase, snaps, walOpen, mem, writeCount, wrec, spc, sdata, clock,
                     acked, forgotten>>
      /\ Write(w, "none") /\ wpc[w] = "append" /\ walOpen
      /\ size' = RotatedSize + 1
      /\ wpc' = [wpc EXCEPT ![w] = "apply"]
      /\ widx' = [widx EXCEPT ![w] = Len(log) + 1]
  BY DEF WalAppend, Write, history
<1>2. /\ Grows /\ Len(log') = Len(log) + 1 /\ log'[Len(log) + 1] = wrec[w]
      /\ base' \in 0 .. Len(log) /\ RotatedSize \in Nat
      /\ RotatedSize <= Len(log) - base'
  BY <1>1, WriteGrows
<1>3. Len(log) \in Nat /\ acked \subseteq 1 .. Len(log)
  BY DEF IInv, TypeOK
<1>4. TypeOK'
  BY <1>1, <1>2, <1>3, SMTT(30) DEF Grows, IInv, TypeOK
<1>5. LogInv' /\ SnapInv' /\ ReadsSeeAcked'
  BY <1>1, WriteKeeps
<1>6. WriterInv'
  BY <1>1, <1>2, <1>3 DEF Grows, IInv, TypeOK, WriterInv
<1>7. QuietInv'
  BY <1>1 DEF IInv, QuietInv, Running
<1> QED BY <1>4, <1>5, <1>6, <1>7 DEF IInv

\* A writer gives up, with or without bytes of its record in the file.
LEMMA FailKeeps ==
    ASSUME IInv, NEW w \in Writers, wpc[w] = "append", Fail(w), Grows,
           base' \in 0 .. Len(log'), size' \in Nat, walOpen' \in BOOLEAN,
           walOpen' => size' <= Len(log') - base', LogInv', SnapInv', ReadsSeeAcked'
    PROVE  IInv'
<1>1. /\ UNCHANGED <<phase, snaps, mem, writeCount, widx, spc, sdata, clock, acked, forgotten>>
      /\ wpc' = [wpc EXCEPT ![w] = "idle"]
      /\ wrec' = [wrec EXCEPT ![w] = NoRecord]
  BY DEF Fail, history
<1>2. Len(log) \in Nat /\ Len(log') \in Nat
  BY DEF Grows, IInv, TypeOK
<1>3. TypeOK'
  BY <1>1, <1>2 DEF Grows, IInv, TypeOK
<1>4. WriterInv'
  BY <1>1, <1>2 DEF Grows, IInv, TypeOK, WriterInv
<1>5. QuietInv'
  BY <1>1 DEF IInv, TypeOK, QuietInv, Running
<1> QED BY <1>3, <1>4, <1>5 DEF IInv

LEMMA ErrorsKeep ==
    ASSUME IInv, NEW w \in Writers,
           \/ SyncError(w) \/ AppendError(w) \/ RotateError(w)
           \/ \E t \in Tears : PartialWrite(w, t)
    PROVE  IInv'
<1> DEFINE Same == UNCHANGED <<phase, snaps, mem, sdata, clock, acked, forgotten>>
<1>1. Len(log) \in Nat /\ size \in Nat /\ base \in 0 .. Len(log) /\ walOpen \in BOOLEAN
  BY DEF IInv, TypeOK
<1>2. ASSUME NEW tear \in {"none"} \cup Tears, Write(w, tear), Fail(w), UNCHANGED walOpen,
             size' \in {RotatedSize, RotatedSize + 1}
      PROVE  IInv'
  <2>1. Same /\ wpc[w] = "append"
    BY <1>2 DEF Fail, Write, history
  <2>2. /\ Grows /\ Len(log') = Len(log) + 1 /\ base' \in 0 .. Len(log)
        /\ RotatedSize \in Nat /\ RotatedSize <= Len(log) - base'
    BY <1>2, WriteGrows
  <2>3. LogInv' /\ SnapInv' /\ ReadsSeeAcked'
    BY <1>2, <2>1, WriteKeeps
  <2>4. /\ base' \in 0 .. Len(log') /\ size' \in Nat /\ walOpen' \in BOOLEAN
        /\ size' <= Len(log') - base'
    BY <1>1, <1>2, <2>2
  <2> QED BY <1>2, <2>1, <2>2, <2>3, <2>4, FailKeeps
<1>3. ASSUME wpc[w] = "append", Fail(w), UNCHANGED log,
             base' \in 0 .. Len(log), size' \in Nat, walOpen' \in BOOLEAN,
             walOpen' => size' <= Len(log) - base'
      PROVE  IInv'
  <2>1. Same
    BY <1>3 DEF Fail, history
  <2>2. Grows
    BY <1>3 DEF Grows, IInv, TypeOK
  <2>3. LogInv' /\ SnapInv' /\ ReadsSeeAcked'
    BY <1>3, <2>1 DEF IInv, LogInv, SnapInv, SnapOK, Undone, ReadsSeeAcked
  <2>4. base' \in 0 .. Len(log') /\ (walOpen' => size' <= Len(log') - base')
    BY <1>3
  <2> QED BY <1>3, <2>2, <2>3, <2>4, FailKeeps
<1>4. CASE SyncError(w)
  BY <1>2, <1>4 DEF SyncError
<1>5. CASE \E t \in Tears : PartialWrite(w, t)
  BY <1>2, <1>5 DEF PartialWrite
<1>6. CASE AppendError(w)
  <2>1. wpc[w] = "append" /\ Fail(w) /\ UNCHANGED <<log, walOpen>>
    BY <1>6 DEF AppendError
  <2>2. /\ base' \in 0 .. Len(log) /\ size' \in Nat
        /\ walOpen' => size' <= Len(log) - base'
    BY <1>1, <1>6, <2>1 DEF AppendError, RotatedBase, RotatedSize, IInv, TypeOK
  <2> QED BY <1>1, <1>3, <2>1, <2>2
<1>7. CASE RotateError(w)
  <2>1. wpc[w] = "append" /\ Fail(w) /\ UNCHANGED <<log, size>> /\ walOpen' = FALSE
    BY <1>7 DEF RotateError
  <2>2. base' \in 0 .. Len(log) /\ size' \in Nat
    BY <1>1, <1>7, <2>1 DEF RotateError
  <2> QED BY <1>3, <2>1, <2>2
<1> QED BY <1>4, <1>5, <1>6, <1>7

LEMMA ApplyKeeps ==
    ASSUME IInv, NEW w \in Writers, Apply(w)
    PROVE  IInv'
<1> DEFINE i == widx[w]
           r == wrec[w]
<1>1. /\ UNCHANGED <<phase, log, base, snaps, size, walOpen, sdata, clock, forgotten>>
      /\ wpc[w] = "apply"
      /\ mem' = [mem EXCEPT ![r.key] = i]
      /\ acked' = acked \cup {i}
      /\ wpc' = [wpc EXCEPT ![w] = "idle"]
      /\ wrec' = [wrec EXCEPT ![w] = NoRecord]
      /\ widx' = [widx EXCEPT ![w] = 0]
  BY DEF Apply, Applied, disk, wal
<1>2. /\ i \in 1 .. Len(log) /\ i \notin acked /\ log[i] = r
      /\ r \in Record /\ r.tear = "none" /\ r.after \subseteq acked
  BY <1>1 DEF IInv, WriterInv
<1>3. r.key \in Keys
  BY <1>2 DEF Record
<1>4. /\ writeCount' \in 0 .. SnapshotThreshold - 1
      /\ \/ UNCHANGED spc
         \/ \E s \in Spawned : spc' = [spc EXCEPT ![s] = "all"]
  <2>1. SnapshotThreshold \in Nat \ {0} /\ writeCount \in 0 .. SnapshotThreshold - 1
    BY SizesAssumption DEF IInv, TypeOK
  <2>2. (writeCount + 1) % SnapshotThreshold \in 0 .. SnapshotThreshold - 1
    BY <2>1
  <2> QED BY <2>1, <2>2 DEF Apply, Applied
<1>5. TypeOK'
  <2>1. spc' \in [Snappers -> {"idle", "wait", "stopped", "all", "size", "create",
                               "rename", "prune", "wal", "done"}]
    BY <1>4 DEF IInv, TypeOK, Snappers
  <2>2. mem' \in [Keys -> (0 .. Len(log)) \cup {Garbage}]
    BY <1>1, <1>2, <1>3 DEF IInv, TypeOK
  <2>3. acked' \subseteq 1 .. Len(log) /\ forgotten' \subseteq acked'
    BY <1>1, <1>2 DEF IInv, TypeOK
  <2>4. /\ wpc' \in [Writers -> {"idle", "append", "apply"}]
        /\ wrec' \in [Writers -> Record \cup {NoRecord}]
        /\ widx' \in [Writers -> 0 .. Len(log)]
    BY <1>1 DEF IInv, TypeOK
  <2> QED BY <1>1, <1>4, <2>1, <2>2, <2>3, <2>4 DEF IInv, TypeOK
<1>6. LogInv'
  BY <1>1, <1>2 DEF IInv, LogInv
<1>7. WriterInv'
  BY <1>1, <1>2 DEF IInv, TypeOK, WriterInv
<1>8. Running
  BY <1>1 DEF IInv, QuietInv
<1>9. QuietInv'
  BY <1>1, <1>8 DEF QuietInv, Running
<1>10. ReadsSeeAcked'
  <2> SUFFICES ASSUME NEW j \in acked' \ forgotten'
               PROVE  ~Undone(j, mem'[log[j].key])
    BY <1>1 DEF ReadsSeeAcked, Undone
  <2>1. i \notin log[j].after /\ i # Garbage /\ i # 0
    <3>1. Len(log) \in Nat /\ j \in 1 .. Len(log)
      BY <1>1, <1>2 DEF IInv, TypeOK
    <3>2. log[j].after \subseteq acked
      BY <3>1 DEF IInv, LogInv
    <3> QED BY <1>2, <3>1, <3>2 DEF Garbage
  <2>2. CASE log[j].key = r.key
    <3>1. mem'[log[j].key] = i
      BY <1>1, <1>3, <2>2 DEF IInv, TypeOK
    <3> QED BY <2>1, <3>1 DEF Undone
  <2>3. CASE log[j].key # r.key
    <3>1. j \in acked \ forgotten /\ j \in 1 .. Len(log)
      BY <1>1, <1>2, <2>3 DEF IInv, TypeOK
    <3>2. log[j].key \in Keys
      <4>1. log \in Seq(Record)
        BY DEF IInv, TypeOK
      <4>2. log[j] \in Record
        BY <3>1, <4>1
      <4> QED BY <4>2 DEF Record
    <3>3. mem'[log[j].key] = mem[log[j].key]
      BY <1>1, <2>3, <3>2 DEF IInv, TypeOK
    <3> QED BY <1>8, <3>1, <3>3 DEF IInv, ReadsSeeAcked, Running
  <2> QED BY <2>2, <2>3
<1>11. SnapInv'
  <2>1. Grows /\ clock' \in Nat /\ clock <= clock'
    BY <1>1 DEF Grows, IInv, TypeOK
  <2>2. \A s \in Snapshot : SnapOK(s) => SnapOK(s)'
    BY <1>1, <2>1, GrowthKeeps
  <2> QED BY <1>1, <2>2 DEF IInv, TypeOK, SnapInv, SnapOK, Undone
<1> QED BY <1>5, <1>6, <1>7, <1>9, <1>10, <1>11 DEF IInv

\* takeSnapshot and Close touch their goroutine's state and the snapshot files.
LEMMA SnapFrame ==
    ASSUME IInv, UNCHANGED <<log, base, mem, writeCount, wpc, wrec, widx, acked, forgotten>>,
           UNCHANGED <<phase, size, walOpen>>
    PROVE  LogInv' /\ WriterInv' /\ ReadsSeeAcked'
BY DEF IInv, LogInv, WriterInv, ReadsSeeAcked, Undone

\* One snapshot goroutine moves on to pc c with data d.
LEMMA SnapMoveKeeps ==
    ASSUME IInv, NEW p \in Snappers, NEW d \in Snapshot,
           NEW c \in {"idle", "wal", "size", "create", "rename", "prune"},
           UNCHANGED snapUnchanged, spc[p] # "idle",
           spc' = [spc EXCEPT ![p] = c], sdata' = [sdata EXCEPT ![p] = d],
           snaps' \subseteq snaps \cup {sdata[p]}, clock' \in Nat, clock <= clock',
           SnapOK(d)'
    PROVE  IInv'
<1>1. UNCHANGED <<phase, log, base, size, walOpen, mem, writeCount, wpc, wrec, widx,
                  acked, forgotten>>
  BY DEF snapUnchanged, wal, writers, history
<1>2. TypeOK'
  <2>1. spc' \in [Snappers -> {"idle", "wait", "stopped", "all", "size", "create",
                               "rename", "prune", "wal", "done"}]
    BY DEF IInv, TypeOK
  <2>2. sdata' \in [Snappers -> Snapshot] /\ snaps' \subseteq Snapshot
    BY DEF IInv, TypeOK
  <2> QED BY <1>1, <2>1, <2>2 DEF IInv, TypeOK
<1>3. LogInv' /\ WriterInv' /\ ReadsSeeAcked'
  BY <1>1, SnapFrame
<1>4. QuietInv'
  <2>1. Running
    BY DEF IInv, QuietInv
  <2> QED BY <1>1, <2>1 DEF QuietInv, Running
<1>5. SnapInv'
  <2>1. Grows
    BY <1>1 DEF Grows, IInv, TypeOK
  <2>2. \A s \in Snapshot : SnapOK(s) => SnapOK(s)'
    BY <1>1, <2>1, GrowthKeeps
  <2>3. \A s \in snaps' : SnapOK(s)'
    BY <2>2 DEF IInv, TypeOK, SnapInv
  <2>4. ASSUME NEW q \in Snappers PROVE SnapOK(sdata[q])'
    <3>1. CASE q = p
      <4>1. sdata'[q] = d
        BY <3>1 DEF IInv, TypeOK
      <4> QED BY <4>1 DEF SnapOK, Undone
    <3>2. CASE q # p
      <4>1. sdata'[q] = sdata[q] /\ sdata[q] \in Snapshot /\ SnapOK(sdata[q])
        BY <3>2 DEF IInv, TypeOK, SnapInv
      <4>2. ASSUME NEW e \in Snapshot, SnapOK(e), e = sdata'[q] PROVE SnapOK(sdata[q])'
        BY <2>2, <4>2 DEF SnapOK, Undone
      <4> QED BY <4>1, <4>2
    <3> QED BY <3>1, <3>2
  <2> QED BY <2>3, <2>4 DEF SnapInv
<1> QED BY <1>2, <1>3, <1>4, <1>5 DEF IInv

LEMMA SnapStepKeeps ==
    ASSUME IInv, NEW p \in Snappers, SnapStep(p)
    PROVE  IInv'
<1> DEFINE d == sdata[p]
<1>1. d \in Snapshot /\ SnapOK(d) /\ clock \in Nat /\ Len(log) \in Nat
  BY DEF IInv, TypeOK, SnapInv
<1>2. NoSnapshot \in Snapshot
  BY DEF NoSnapshot, Snapshot
<1>4. CASE SnapAll(p)
  <2>1. /\ mem \in [Keys -> (0 .. Len(log)) \cup {Garbage}]
        /\ acked \subseteq 1 .. Len(log)
    BY DEF IInv, TypeOK
  <2>2. [NoSnapshot EXCEPT !.mem = mem, !.applied = acked] \in Snapshot
    <3>1. mem \in [Keys -> Nat \cup {Garbage}] /\ acked \in SUBSET (Nat \ {0})
      BY <1>1, <2>1
    <3> QED BY <3>1 DEF NoSnapshot, Snapshot
  <2>. PICK e \in Snapshot : e = [NoSnapshot EXCEPT !.mem = mem, !.applied = acked]
    BY <2>2
  <2>8. e.mem = mem /\ e.applied = acked /\ e.upto = 0 /\ e.at = 0
    BY DEF NoSnapshot
  <2>3. /\ spc[p] = "all" /\ UNCHANGED <<snapUnchanged, snaps, clock>>
        /\ spc' = [spc EXCEPT ![p] = "size"] /\ sdata' = [sdata EXCEPT ![p] = e]
    BY <1>4 DEF SnapAll
  <2>4. ReadsSeeAcked /\ Running
    BY <2>3 DEF IInv, QuietInv
  <2>5. \A i \in acked \ forgotten : ~Undone(i, mem[log[i].key])
    BY <2>4 DEF ReadsSeeAcked, Running
  <2>6. UNCHANGED <<log, mem, acked, forgotten, clock>>
    BY <2>3 DEF snapUnchanged, history
  <2>7. SnapOK(e)'
    BY <1>1, <2>1, <2>8, <2>5, <2>6 DEF SnapOK, Undone
  <2>9. /\ UNCHANGED snapUnchanged /\ snaps' \subseteq snaps \cup {d} /\ spc[p] # "idle"
        /\ clock' \in Nat /\ clock <= clock'
    BY <1>1, <2>3
  <2> QED BY <2>3, <2>7, <2>9, SnapMoveKeeps
<1>5. CASE SnapSize(p)
  <2>6. [d EXCEPT !.off = size, !.upto = Len(log)] \in Snapshot
    BY <1>1 DEF Snapshot, IInv, TypeOK
  <2>. PICK e \in Snapshot : e = [d EXCEPT !.off = size, !.upto = Len(log)]
    BY <2>6
  <2>1. /\ e.mem = d.mem /\ e.applied = d.applied
        /\ e.at = d.at /\ e.upto = Len(log)
    BY <1>1 DEF Snapshot
  <2>2. sdata' = [sdata EXCEPT ![p] = e]
    BY <1>5 DEF SnapSize, IInv, TypeOK
  <2>3. /\ spc[p] = "size" /\ UNCHANGED <<snapUnchanged, snaps, clock>>
        /\ spc' = [spc EXCEPT ![p] = "create"]
    BY <1>5 DEF SnapSize
  <2>4. UNCHANGED <<log, acked, forgotten, clock>>
    BY <2>3 DEF snapUnchanged, history
  <2>5. SnapOK(e)'
    BY <1>1, <2>1, <2>4 DEF SnapOK, Undone
  <2>9. /\ UNCHANGED snapUnchanged /\ snaps' \subseteq snaps \cup {d} /\ spc[p] # "idle"
        /\ clock' \in Nat /\ clock <= clock'
    BY <1>1, <2>3
  <2> QED BY <2>2, <2>3, <2>5, <2>9, SnapMoveKeeps
<1>6. CASE SnapCreate(p)
  <2>6. [d EXCEPT !.at = clock + 1] \in Snapshot
    BY <1>1 DEF Snapshot
  <2>. PICK e \in Snapshot : e = [d EXCEPT !.at = clock + 1]
    BY <2>6
  <2>1. /\ e.mem = d.mem /\ e.applied = d.applied
        /\ e.upto = d.upto /\ e.at = clock + 1
    BY <1>1 DEF Snapshot
  <2>2. sdata' = [sdata EXCEPT ![p] = e]
    BY <1>6 DEF SnapCreate, IInv, TypeOK
  <2>3. /\ spc[p] = "create" /\ UNCHANGED <<snapUnchanged, snaps>> /\ clock' = clock + 1
        /\ spc' = [spc EXCEPT ![p] = "rename"]
    BY <1>6 DEF SnapCreate
  <2>4. UNCHANGED <<log, acked, forgotten>>
    BY <2>3 DEF snapUnchanged, history
  <2>5. SnapOK(e)'
    BY <1>1, <2>1, <2>3, <2>4 DEF SnapOK, Undone
  <2>9. /\ UNCHANGED snapUnchanged /\ snaps' \subseteq snaps \cup {d} /\ spc[p] # "idle"
        /\ clock' \in Nat /\ clock <= clock'
    BY <1>1, <2>3
  <2> QED BY <2>2, <2>3, <2>5, <2>9, SnapMoveKeeps
<1>7. CASE SnapRename(p)
  <2>1. /\ spc[p] = "rename" /\ UNCHANGED <<snapUnchanged, sdata, clock>>
        /\ spc' = [spc EXCEPT ![p] = "prune"] /\ snaps' = snaps \cup {d}
    BY <1>7 DEF SnapRename
  <2>2. sdata' = [sdata EXCEPT ![p] = d]
    BY <2>1 DEF IInv, TypeOK
  <2>3. UNCHANGED <<log, acked, forgotten, clock>>
    BY <2>1 DEF snapUnchanged, history
  <2>. PICK e \in Snapshot : e = d
    BY <1>1
  <2>4. SnapOK(e)'
    BY <1>1, <2>3 DEF SnapOK, Undone
  <2>9. /\ UNCHANGED snapUnchanged /\ snaps' \subseteq snaps \cup {d} /\ spc[p] # "idle"
        /\ clock' \in Nat /\ clock <= clock'
    BY <1>1, <2>1
  <2> QED BY <2>1, <2>2, <2>4, <2>9, SnapMoveKeeps
<1>8. CASE SnapFail(p) \/ SnapPrune(p) \/ SnapPruneError(p)
  <2>1. /\ spc[p] # "idle" /\ UNCHANGED <<snapUnchanged, clock>>
        /\ spc' = [spc EXCEPT ![p] = AfterSnapshot(p)]
        /\ sdata' = [sdata EXCEPT ![p] = NoSnapshot]
        /\ snaps' \subseteq snaps
    BY <1>8 DEF SnapFail, SnapPrune, SnapPruneError, Outdated
  <2>2. AfterSnapshot(p) \in {"idle", "wal"}
    BY DEF AfterSnapshot
  <2>. PICK e \in Snapshot : e = NoSnapshot
    BY <1>2
  <2>3. SnapOK(e)'
    BY <1>1, <2>1 DEF snapUnchanged, SnapOK, NoSnapshot
  <2>9. /\ UNCHANGED snapUnchanged /\ snaps' \subseteq snaps \cup {d} /\ spc[p] # "idle"
        /\ clock' \in Nat /\ clock <= clock'
    BY <1>1, <2>1
  <2> QED BY <2>1, <2>2, <2>3, <2>9, SnapMoveKeeps
<1> QED BY <1>4, <1>5, <1>6, <1>7, <1>8 DEF SnapStep

LEMMA CloseKeeps ==
    ASSUME IInv, TickerFires \/ CloseBegin \/ TickerStops \/ CloseWait \/ CloseWAL
    PROVE  IInv'
<1>1. /\ UNCHANGED <<log, base, size, mem, writeCount, wpc, wrec, widx, sdata, snaps, clock,
                     acked, forgotten>>
      /\ Running /\ phase' \in {"up", "closing", "exiting"}
      /\ walOpen' \in BOOLEAN /\ (walOpen' => walOpen)
  <2>1. \A p \in Snappers : spc[p] # "idle" => Running
    BY DEF IInv, QuietInv
  <2>2. "closer" \in Snappers
    BY DEF Snappers
  <2>3. phase \in {"down", "up", "closing", "exiting", "failed"} /\ walOpen \in BOOLEAN
    BY DEF IInv, TypeOK
  <2>4. CASE TickerFires
    BY <2>3, <2>4 DEF TickerFires, snapUnchanged, wal, writers, history, Running
  <2>5. CASE CloseBegin
    BY <2>3, <2>5 DEF CloseBegin, closeUnchanged, wal, writers, history, Running
  <2>6. CASE TickerStops
    BY <2>3, <2>6 DEF TickerStops, closeUnchanged, wal, writers, history, Running
  <2>7. CASE CloseWait
    BY <2>1, <2>2, <2>3, <2>7
       DEF CloseWait, closeUnchanged, wal, writers, history, Running
  <2>8. CASE CloseWAL
    BY <2>1, <2>2, <2>3, <2>8 DEF CloseWAL, closeUnchanged, writers, history
  <2> QED BY <2>4, <2>5, <2>6, <2>7, <2>8
<1>2. spc' \in [Snappers -> {"idle", "wait", "stopped", "all", "size", "create",
                             "rename", "prune", "wal", "done"}]
  BY DEF TickerFires, CloseBegin, TickerStops, CloseWait, CloseWAL, Snappers, IInv, TypeOK
<1>3. TypeOK'
  BY <1>1, <1>2 DEF IInv, TypeOK
<1>4. LogInv' /\ WriterInv' /\ SnapInv'
  BY <1>1 DEF IInv, LogInv, WriterInv, SnapInv, SnapOK, Undone
<1>5. QuietInv' /\ ReadsSeeAcked'
  BY <1>1 DEF IInv, QuietInv, ReadsSeeAcked, Running, Undone
<1> QED BY <1>3, <1>4, <1>5 DEF IInv

LEMMA CrashKeeps ==
    ASSUME IInv, Exit \/ CrashStep
    PROVE  IInv'
<1>1. Len(log) \in Nat /\ base \in 0 .. Len(log)
  BY DEF IInv, TypeOK
<1>2. ASSUME Stop, UNCHANGED log, base' \in {base, Len(log)}
      PROVE  IInv'
  <2>1. Grows
    BY <1>2 DEF Grows, IInv, TypeOK
  <2>2. LogInv'
    BY <1>2 DEF Stop, history, IInv, LogInv
  <2>3. base' \in 0 .. Len(log')
    BY <1>1, <1>2
  <2> QED BY <1>2, <2>1, <2>2, <2>3, StopKeeps
<1>3. CASE Exit
  BY <1>2, <1>3 DEF Exit
<1>4. CASE Crash
  BY <1>2, <1>4 DEF Crash
<1>5. CASE \E w \in Writers : CrashRotated(w)
  BY <1>2, <1>5 DEF CrashRotated
<1>6. ASSUME NEW w \in Writers, NEW t \in Tears, CrashTorn(w, t)
      PROVE  IInv'
  <2>1. Write(w, t) /\ Stop
    BY <1>6 DEF CrashTorn
  <2>2. /\ Grows /\ Len(log') = Len(log) + 1 /\ base' \in 0 .. Len(log)
        /\ log'[Len(log) + 1].after = wrec[w].after
    BY <2>1, WriteGrows
  <2>3. wrec[w].after \subseteq acked /\ acked' = acked
    BY <2>1 DEF Write, Stop, history, IInv, WriterInv
  <2>4. LogInv'
    <3>1. \A j \in acked : j \in 1 .. Len(log)
      BY DEF IInv, TypeOK
    <3> SUFFICES ASSUME NEW i \in 1 .. Len(log')
                 PROVE  /\ log'[i].after \subseteq acked
                        /\ \A j \in log'[i].after : j < i
                        /\ i \in acked => log'[i].tear = "none"
      BY <2>3 DEF LogInv
    <3>2. CASE i \in 1 .. Len(log)
      BY <2>2, <3>2 DEF Grows, IInv, LogInv
    <3>3. CASE i = Len(log) + 1
      <4>1. \A j \in acked : j < i
        BY <1>1, <3>1, <3>3
      <4>2. i \notin acked
        BY <1>1, <3>3, <4>1
      <4> QED BY <2>2, <2>3, <3>3, <4>1, <4>2
    <3> QED BY <1>1, <2>2, <3>2, <3>3
  <2>5. base' \in 0 .. Len(log')
    BY <1>1, <2>2
  <2> QED BY <2>1, <2>2, <2>4, <2>5, StopKeeps
<1> QED BY <1>3, <1>4, <1>5, <1>6 DEF CrashStep

LEMMA InitEstablishes == Init => IInv
<1> SUFFICES ASSUME Init PROVE IInv
  OBVIOUS
<1>1. log = <<>> /\ Len(log) = 0 /\ log \in Seq(Record)
  BY DEF Init
<1>2. NoSnapshot \in Snapshot
  BY DEF NoSnapshot, Snapshot
<1>3. TypeOK
  <2>1. /\ sdata \in [Snappers -> Snapshot] /\ snaps \subseteq Snapshot
        /\ spc \in [Snappers -> {"idle", "wait", "stopped", "all", "size", "create",
                                 "rename", "prune", "wal", "done"}]
    BY <1>2 DEF Init
  <2>2. /\ mem \in [Keys -> (0 .. Len(log)) \cup {Garbage}]
        /\ wpc \in [Writers -> {"idle", "append", "apply"}]
        /\ widx \in [Writers -> 0 .. Len(log)]
        /\ wrec \in [Writers -> Record \cup {NoRecord}]
    BY <1>1 DEF Init
  <2>3. writeCount \in 0 .. SnapshotThreshold - 1
    BY SizesAssumption DEF Init
  <2>4. /\ phase = "down" /\ base \in 0 .. Len(log) /\ size \in Nat
        /\ walOpen = FALSE /\ clock \in Nat
        /\ acked \subseteq 1 .. Len(log) /\ forgotten \subseteq acked
    BY <1>1 DEF Init
  <2>5. log \in Seq(Record)
    BY <1>1
  <2> QED BY <2>1, <2>2, <2>3, <2>4, <2>5 DEF TypeOK
<1>4. LogInv /\ WriterInv /\ QuietInv /\ ReadsSeeAcked
  BY <1>1 DEF Init, LogInv, WriterInv, QuietInv, ReadsSeeAcked, Running
<1>5. SnapInv
  BY <1>1 DEF Init, SnapInv, SnapOK, NoSnapshot
<1> QED BY <1>3, <1>4, <1>5 DEF IInv

\* The invariant is inductive: one case per operation of the engine.
LEMMA NextPreserves == IInv /\ [Next]_vars => IInv'
<1> SUFFICES ASSUME IInv, [Next]_vars PROVE IInv'
  OBVIOUS
<1>1. CASE Open
  BY <1>1, OpenKeeps
<1>2. CASE OpenFails
  BY <1>2, OpenFailsKeeps
<1>3. ASSUME NEW w \in Writers, WriterStep(w) PROVE IInv'
  <2>1. CASE \E k \in Keys : Put(w, k) \/ Delete(w, k)
    BY <2>1, BeginKeeps DEF Put, Delete
  <2>2. CASE WalAppend(w)
    BY <2>2, WalAppendKeeps
  <2>3. CASE \/ SyncError(w) \/ AppendError(w) \/ RotateError(w)
             \/ \E t \in Tears : PartialWrite(w, t)
    BY <2>3, ErrorsKeep
  <2>4. CASE Apply(w)
    BY <2>4, ApplyKeeps
  <2> QED BY <1>3, <2>1, <2>2, <2>3, <2>4 DEF WriterStep
<1>4. ASSUME NEW p \in Snappers, SnapStep(p) PROVE IInv'
  BY <1>4, SnapStepKeeps
<1>5. CASE TickerFires \/ CloseBegin \/ TickerStops \/ CloseWait \/ CloseWAL
  BY <1>5, CloseKeeps
<1>6. CASE Exit \/ CrashStep
  BY <1>6, CrashKeeps
<1>7. CASE UNCHANGED vars
  BY <1>7 DEF vars, IInv, TypeOK, LogInv, WriterInv, QuietInv, ReadsSeeAcked, SnapInv,
              SnapOK, Undone, Running
<1> QED BY <1>1, <1>2, <1>3, <1>4, <1>5, <1>6, <1>7 DEF Next
-----------------------------------------------------------------------------
\* The inductive invariant holds in every behaviour of the engine.
THEOREM Invariance == Spec => []IInv
BY InitEstablishes, NextPreserves, PTL DEF Spec

\* Every state of the engine is well typed, whatever fails and wherever the
\* process crashes.
THEOREM TypeCorrect == Spec => []TypeOK
<1>1. IInv => TypeOK
  BY DEF IInv
<1> QED BY <1>1, Invariance, PTL

\* Gets never go back behind an acknowledged write while the engine runs.
THEOREM AckedStaysVisible == Spec => []ReadsSeeAcked
<1>1. IInv => ReadsSeeAcked
  BY DEF IInv
<1> QED BY <1>1, Invariance, PTL

\* A crash now would lose only acknowledged writes that a misplaced offset, the
\* snapshot window or a torn record explains.
THEOREM LossAccounted == Spec => []AccountedLoss
<1>1. IInv => AccountedLoss
  BY LossIsAccounted
<1> QED BY <1>1, Invariance, PTL
-----------------------------------------------------------------------------
\* Only Write and pruneOld touch the snapshot files.
LEMMA SnapsChange ==
    ASSUME IInv, [Next]_vars
    PROVE  \/ UNCHANGED snaps
           \/ snaps \subseteq snaps'
           \/ snaps \ Outdated \subseteq snaps'
<1>1. CASE Open \/ OpenFails
  BY <1>1 DEF Open, OpenFails, disk
<1>2. ASSUME NEW w \in Writers, WriterStep(w) PROVE UNCHANGED snaps
  BY <1>2 DEF WriterStep, Put, Delete, Begin, WalAppend, SyncError, AppendError, RotateError,
              PartialWrite, Apply, Fail, disk
<1>3. ASSUME NEW p \in Snappers, SnapStep(p)
      PROVE  \/ UNCHANGED snaps \/ snaps \subseteq snaps' \/ snaps \ Outdated \subseteq snaps'
  BY <1>3 DEF SnapStep, SnapAll, SnapSize, SnapCreate, SnapRename, SnapFail, SnapPrune,
              SnapPruneError
<1>4. CASE TickerFires \/ CloseBegin \/ TickerStops \/ CloseWait \/ CloseWAL
  BY <1>4 DEF TickerFires, CloseBegin, TickerStops, CloseWait, CloseWAL, closeUnchanged
<1>5. CASE Exit \/ CrashStep
  BY <1>5 DEF Exit, CrashStep, Crash, CrashTorn, CrashRotated, Stop
<1>6. CASE UNCHANGED vars
  BY <1>6 DEF vars
<1> QED BY <1>1, <1>2, <1>3, <1>4, <1>5, <1>6 DEF Next

\* pruneOld never removes the newest file.
LEMMA NewestNotOutdated ==
    ASSUME IInv, snaps # {}
    PROVE  LoadLatest \in snaps \ Outdated
<1>1. clock \in Nat /\ \A s \in snaps : s.at \in 0 .. clock
  BY DEF IInv, TypeOK, SnapInv, SnapOK
<1>2. LoadLatest \in snaps /\ \A u \in snaps : LoadLatest.at >= u.at
  BY <1>1, LatestProps
<1>3. \A u \in snaps : u.at \in Nat
  BY <1>1
<1>4. {v \in snaps : v.at > LoadLatest.at} = {}
  BY <1>2, <1>3
<1>5. Cardinality({v \in snaps : v.at > LoadLatest.at}) = 0
  BY <1>4, FS_EmptySet
<1> QED BY <1>2, <1>5, SizesAssumption DEF Outdated

\* Recovery never has to start from an older snapshot than it could have a step
\* before.
THEOREM LatestKept == Spec => LatestSnapshotKept
<1>1. IInv /\ IInv' /\ [Next]_vars => [LoadLatest'.at >= LoadLatest.at]_snaps
  <2> SUFFICES ASSUME IInv, IInv', [Next]_vars, snaps' # snaps
               PROVE  LoadLatest'.at >= LoadLatest.at
    OBVIOUS
  <2>1. clock \in Nat /\ \A s \in snaps : s.at \in 0 .. clock
    BY DEF IInv, TypeOK, SnapInv, SnapOK
  <2>2. clock' \in Nat /\ \A s \in snaps' : s.at \in 0 .. clock'
    BY DEF IInv, TypeOK, SnapInv, SnapOK
  <2>3. snaps' # {} => LoadLatest' \in snaps' /\ \A u \in snaps' : LoadLatest'.at >= u.at
    BY <2>2, NewestProps DEF LoadLatest
  <2>4. CASE snaps = {}
    <3>1. snaps' # {} /\ LoadLatest.at = 0
      BY <2>4 DEF LoadLatest, NoSnapshot
    <3> QED BY <2>2, <2>3, <3>1
  <2>5. CASE snaps # {}
    <3>1. LoadLatest \in snaps /\ LoadLatest \in snaps \ Outdated
      BY <2>5, NewestNotOutdated
    <3>2. LoadLatest \in snaps'
      BY <3>1, SnapsChange
    <3> QED BY <2>3, <3>2
  <2> QED BY <2>4, <2>5
<1> QED BY <1>1, Invariance, PTL DEF Spec, LatestSnapshotKept

\* A node whose Open has failed does nothing more.
LEMMA FailedIsFinal ==
    ASSUME IInv, [Next]_vars, phase' = "failed"
    PROVE  OpenFails \/ UNCHANGED vars
<1>1. Running \/ \A w \in Writers : wpc[w] = "idle"
  BY DEF IInv, QuietInv
<1>2. Running \/ \A p \in Snappers : spc[p] = "idle"
  BY DEF IInv, QuietInv
<1>3. ASSUME NEW w \in Writers, WriterStep(w) PROVE FALSE
  BY <1>1, <1>3 DEF WriterStep, Put, Delete, Begin, WalAppend, SyncError, AppendError,
                    RotateError, PartialWrite, Apply, Fail, Write, Running
<1>4. ASSUME NEW p \in Snappers, SnapStep(p) PROVE FALSE
  BY <1>2, <1>4 DEF SnapStep, SnapAll, SnapSize, SnapCreate, SnapRename, SnapFail,
                    SnapPrune, SnapPruneError, AfterSnapshot, snapUnchanged, Running
<1>5. ~Open /\ ~TickerFires
  BY DEF Open, TickerFires, snapUnchanged, Running
<1>6. ~(CloseBegin \/ TickerStops \/ CloseWait \/ CloseWAL)
  BY <1>2 DEF CloseBegin, TickerStops, CloseWait, CloseWAL, closeUnchanged, Snappers, Running
<1>7. ~(Exit \/ CrashStep)
  BY DEF Exit, CrashStep, Crash, CrashTorn, CrashRotated, Stop
<1> QED BY <1>3, <1>4, <1>5, <1>6, <1>7 DEF Next

\* Replay skips a header or a payload cut short at the end of wal.log: a node that does
\* not start has bytes after a torn record, a snapshot whose offset does not fit the
\* file, or a header without a byte of payload at the end.
THEOREM OpensOrDamaged == Spec => []OpensUnlessDamaged
<1>1. Init => OpensUnlessDamaged
  BY DEF Init, OpensUnlessDamaged
<1>2. IInv /\ OpensUnlessDamaged /\ [Next]_vars => OpensUnlessDamaged'
  <2> SUFFICES ASSUME IInv, OpensUnlessDamaged, [Next]_vars, phase' = "failed"
               PROVE  \/ Misplaced(LoadLatest)'
                      \/ \E t \in base' + 1 .. Len(log') :
                            \/ log'[t].tear # "none" /\ t < Len(log')
                            \/ log'[t].tear = "exact"
    BY DEF OpensUnlessDamaged
  <2>1. UNCHANGED <<log, base, snaps>>
    BY FailedIsFinal DEF OpenFails, vars, disk
  <2>2. Misplaced(LoadLatest)' <=> Misplaced(LoadLatest)
    BY <2>1 DEF Misplaced, LoadLatest
  <2>3. CASE UNCHANGED vars
    BY <2>1, <2>2, <2>3 DEF vars, OpensUnlessDamaged
  <2>4. CASE OpenFails
    <3>1. LoadLatest.off \in Nat /\ base \in Nat /\ Len(log) \in Nat
      BY LatestOK DEF IInv, TypeOK, Snapshot
    <3>2. Reached(LoadLatest) \subseteq base + 1 .. Len(log)
      BY <3>1 DEF Reached
    <3>3. \/ Misplaced(LoadLatest)
          \/ \E t \in Reached(LoadLatest) : /\ FirstTorn(LoadLatest, t)
                                            /\ t < Len(log) \/ log[t].tear = "exact"
      BY <2>4 DEF OpenFails, HeaderOnlyTail, MayMisread
    <3>4. \/ Misplaced(LoadLatest)
          \/ \E t \in base + 1 .. Len(log) : \/ log[t].tear # "none" /\ t < Len(log)
                                            \/ log[t].tear = "exact"
      BY <3>2, <3>3 DEF FirstTorn
    <3> QED BY <2>1, <2>2, <3>4
  <2> QED BY <2>3, <2>4, FailedIsFinal
<1> QED BY <1>1, <1>2, Invariance, PTL DEF Spec
=============================================================================
