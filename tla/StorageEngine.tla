--------------------------- MODULE StorageEngine ---------------------------
(***************************************************************************)
(* The storage engine of one node (backend/pkg/storage): a write-ahead     *)
(* log, a memtable and snapshot files, used by concurrent writers, by the  *)
(* goroutines that take snapshots, and by a process that may crash,        *)
(* close, and open again.                                                  *)
(*                                                                         *)
(* A write is named by its position in `log', the sequence of all records  *)
(* that ever reached a WAL file.  Positions base+1 .. Len(log) are in the  *)
(* current file wal.log, the earlier ones in files that rotation renamed   *)
(* away.  A byte offset is counted in records; a record that is not wholly *)
(* on disk is one position whose `tear' says where the bytes stop.         *)
(***************************************************************************)
EXTENDS Integers, Sequences, FiniteSets, FiniteSetsExt

CONSTANTS
    Keys,              \* the keys clients write
    Writers,           \* request goroutines inside Put or Delete
    Spawned,           \* goroutines Put starts at the snapshot threshold
    WALMaxSize,        \* cfg.WALMaxSizeBytes, in records
    SnapshotThreshold, \* cfg.SnapshotThreshold
    MaxSnapshots,      \* maxSnapshots, the snapshot files pruneOld keeps
    Tears,             \* where a crash or a short write may cut a record
    IOErrors,          \* the file operations that may fail
    MaxLog,            \* bound: records ever written
    MaxClock           \* bound: snapshots ever taken

ASSUME KeysAssumption == Keys # {}
ASSUME SnappersAssumption == Spawned \cap {"ticker", "closer"} = {}
ASSUME SizesAssumption ==
    /\ WALMaxSize \in Nat \ {0}
    /\ SnapshotThreshold \in Nat \ {0}
    /\ MaxSnapshots \in Nat \ {0}
ASSUME FaultsAssumption ==
    /\ Tears \subseteq {"header", "exact", "payload"}
    /\ IOErrors \subseteq {"write", "partial", "sync", "rotate", "snapshot"}

VARIABLES
    phase,       \* of the process: down, up, closing, exiting or failed
    log,         \* every record written to a WAL file, oldest first
    base,        \* how many of them rotation has archived
    size,        \* w.size, what the process believes wal.log holds
    walOpen,     \* the handle w.file is usable
    mem,         \* memtable: the write each key holds, 0 for none
    writeCount,  \* e.writeCount, modulo SnapshotThreshold
    wpc,         \* where a writer is: idle, append or apply
    wrec,        \* the record it builds
    widx,        \* the position its record got
    spc,         \* where a snapshot goroutine is
    sdata,       \* the snapshot it builds
    snaps,       \* the snapshot files on disk
    clock,       \* the CreatedAt last given to a snapshot
    acked,       \* history: the writes whose Put or Delete returned nil
    forgotten    \* history: acknowledged writes some Open did not restore

disk    == <<log, base, snaps>>
wal     == <<size, walOpen>>
writers == <<wpc, wrec, widx>>
history == <<acked, forgotten>>
vars == <<phase, log, base, size, walOpen, mem, writeCount, wpc, wrec, widx,
          spc, sdata, snaps, clock, acked, forgotten>>

Snappers == {"ticker", "closer"} \cup Spawned

Garbage  == -1                \* a value no client wrote
NoRecord == <<>>
NoFile   == <<>>

\* `after' is history: the writes of this key acknowledged before this one began.
Record == [key : Keys, op : {"put", "del"}, tear : {"none"} \cup Tears,
           after : SUBSET (Nat \ {0})]

\* `off' is SnapshotMeta.WALOffset, `at' its CreatedAt.  History: `applied', the
\* acknowledged writes when the memtable was copied, and `upto', the records
\* written when the offset was read.
Snapshot == [mem : [Keys -> Nat \cup {Garbage}], off : Nat, at : Nat,
             applied : SUBSET (Nat \ {0}), upto : Nat]

NoSnapshot == [mem |-> [k \in Keys |-> 0], off |-> 0, at |-> 0,
               applied |-> {}, upto |-> 0]

\* A memtable that holds m for the key of write i shows a state older than i.
Undone(i, m) == \/ m = Garbage
                \/ m \in log[i].after
                \/ m = 0 /\ log[i].op = "put"
-----------------------------------------------------------------------------
(***************************************************************************)
(* Recovery: what Open would rebuild from the files as they are.           *)
(***************************************************************************)

LoadLatest == IF snaps = {} THEN NoSnapshot
              ELSE CHOOSE s \in snaps : \A u \in snaps : s.at >= u.at

\* Mutant of Reached: the seek skips one record too many.
ReachedSkipsOne(s) == base + s.off + 2 .. Len(log)

\* Replay seeks to the snapshot's offset in the current wal.log.
Reached(s) == base + s.off + 1 .. Len(log)

\* The offset is not where a record of this file begins: it was read from a
\* file since rotated away, or after a short write that w.size did not count.
Misplaced(s) == s.off > 0 /\ base + s.off # s.upto

FirstTorn(s, t) == /\ t \in Reached(s)
                   /\ log[t].tear # "none"
                   /\ \A u \in Reached(s) : u < t => log[u].tear = "none"

\* Records Replay returns: those before the first torn one.
Replayed(s) == {i \in Reached(s) :
                  \A u \in Reached(s) : u <= i => log[u].tear = "none"}

\* Bytes follow a torn record, or a misplaced offset: headers may then be read
\* from the middle of records, and Replay stops, fails or misreads.
MayMisread(s) == \/ Misplaced(s) /\ base < Len(log)
                 \/ \E t \in Reached(s) : FirstTorn(s, t) /\ t < Len(log)

\* Mutant of HeaderOnlyTail: the end of the file where a header should be is an
\* error as well.
HeaderOnlyTailOrEnd(s) == Reached(s) # {}

\* A header with no payload byte after it: ReadFull returns io.EOF.
HeaderOnlyTail(s) == \E t \in Reached(s) :
                        FirstTorn(s, t) /\ t = Len(log) /\ log[t].tear = "exact"

\* A value cut short by a crash is completed with the bytes of later records.
Spliced(s, k) == \E t \in Reached(s) : /\ FirstTorn(s, t)
                                       /\ t < Len(log)
                                       /\ log[t].tear = "payload"
                                       /\ log[t].key = k

Recovered(s, misread) ==
    [k \in Keys |->
        LET written == {i \in Replayed(s) : log[i].key = k}
        IN CASE misread /\ Misplaced(s) -> s.mem[k]
             [] misread /\ ~Misplaced(s) /\ Spliced(s, k) -> Garbage
             [] OTHER -> IF written = {} THEN s.mem[k] ELSE Max(written)]

Lost(i) == \E misread \in BOOLEAN :
              Undone(i, Recovered(LoadLatest, misread)[log[i].key])
-----------------------------------------------------------------------------
Init ==
    /\ phase = "down"
    /\ log = <<>> /\ base = 0 /\ snaps = {} /\ clock = 0
    /\ size = 0 /\ walOpen = FALSE
    /\ mem = [k \in Keys |-> 0] /\ writeCount = 0
    /\ wpc = [w \in Writers |-> "idle"]
    /\ wrec = [w \in Writers |-> NoRecord]
    /\ widx = [w \in Writers |-> 0]
    /\ spc = [s \in Snappers |-> "idle"]
    /\ sdata = [s \in Snappers |-> NoSnapshot]
    /\ acked = {} /\ forgotten = {}

\* Everything the process holds outside its files is gone.
Stop ==
    /\ phase' = "down" /\ size' = 0 /\ walOpen' = FALSE
    /\ mem' = [k \in Keys |-> 0] /\ writeCount' = 0
    /\ wpc' = [w \in Writers |-> "idle"]
    /\ wrec' = [w \in Writers |-> NoRecord]
    /\ widx' = [w \in Writers |-> 0]
    /\ spc' = [s \in Snappers |-> "idle"]
    /\ sdata' = [s \in Snappers |-> NoSnapshot]
    /\ UNCHANGED <<snaps, clock, history>>

\* Open: load the latest snapshot, replay the log, start the ticker.
Open ==
    /\ phase = "down"
    /\ ~HeaderOnlyTail(LoadLatest)
    /\ \E misread \in BOOLEAN : mem' = Recovered(LoadLatest, misread)
    /\ forgotten' = forgotten \cup {i \in acked : Undone(i, mem'[log[i].key])}
    /\ phase' = "up" /\ size' = Len(log) - base /\ walOpen' = TRUE
    /\ UNCHANGED <<disk, writeCount, writers, spc, sdata, clock, acked>>

\* Replay returns an error, so does Open, and the node does not start.
OpenFails ==
    /\ phase = "down"
    /\ HeaderOnlyTail(LoadLatest) \/ MayMisread(LoadLatest)
    /\ phase' = "failed"
    /\ UNCHANGED <<disk, wal, mem, writeCount, writers, spc, sdata, clock, history>>
-----------------------------------------------------------------------------
(***************************************************************************)
(* Put and Delete: build the record, append it to the WAL under w.mu, then *)
(* apply it to the memtable under the memtable's lock.  Nothing orders one *)
(* writer's two steps against another's, or against takeSnapshot.          *)
(***************************************************************************)

Begin(w, k, op) ==
    /\ phase = "up" /\ wpc[w] = "idle"
    /\ wpc' = [wpc EXCEPT ![w] = "append"]
    /\ wrec' = [wrec EXCEPT ![w] =
                  [key |-> k, op |-> op, tear |-> "none",
                   after |-> {i \in acked : log[i].key = k}]]
    /\ UNCHANGED <<phase, disk, wal, mem, writeCount, widx, spc, sdata, clock, history>>

Put(w, k) == Begin(w, k, "put")
Delete(w, k) == Begin(w, k, "del")

\* Mutant of RotatedSize: w.size is not reset for the new file.
RotatedSizeNotReset == size

\* rotateIfNeeded: the archived records and w.size once it has returned nil.
Rotates == size >= WALMaxSize
RotatedBase == IF Rotates THEN Len(log) ELSE base
RotatedSize == IF Rotates THEN 0 ELSE size

Write(w, tear) ==
    /\ wpc[w] = "append" /\ walOpen /\ Len(log) < MaxLog
    /\ log' = Append(log, [wrec[w] EXCEPT !.tear = tear])
    /\ base' = RotatedBase

\* The writer's call returns an error; nothing of it reaches the memtable.
Fail(w) == /\ wpc' = [wpc EXCEPT ![w] = "idle"]
           /\ wrec' = [wrec EXCEPT ![w] = NoRecord]
           /\ UNCHANGED <<phase, snaps, mem, writeCount, widx, spc, sdata, clock, history>>

WalAppend(w) ==
    /\ Write(w, "none")
    /\ size' = RotatedSize + 1
    /\ wpc' = [wpc EXCEPT ![w] = "apply"]
    /\ widx' = [widx EXCEPT ![w] = Len(log) + 1]
    /\ UNCHANGED <<phase, snaps, walOpen, mem, writeCount, wrec, spc, sdata, clock, history>>

\* fsync fails after the whole record was written.
SyncError(w) ==
    /\ "sync" \in IOErrors
    /\ Write(w, "none") /\ size' = RotatedSize + 1 /\ Fail(w) /\ UNCHANGED walOpen

\* A short write: some bytes are in the file and w.size does not count them.
PartialWrite(w, tear) ==
    /\ "partial" \in IOErrors
    /\ Write(w, tear) /\ size' = RotatedSize /\ Fail(w) /\ UNCHANGED walOpen

\* Nothing is written: the write fails, or the handle is closed.
AppendError(w) ==
    /\ wpc[w] = "append"
    /\ \/ /\ walOpen /\ "write" \in IOErrors
          /\ base' = RotatedBase /\ size' = RotatedSize
       \/ ~walOpen /\ UNCHANGED <<base, size>>
    /\ Fail(w) /\ UNCHANGED <<log, walOpen>>

\* rotateIfNeeded closes the file, then fails to close, rename or reopen it.
RotateError(w) ==
    /\ wpc[w] = "append" /\ walOpen /\ Rotates /\ "rotate" \in IOErrors
    /\ walOpen' = FALSE
    /\ base' \in {base, Len(log)}
    /\ Fail(w) /\ UNCHANGED <<log, size>>

Busy == {s \in Snappers : spc[s] \notin {"idle", "stopped", "done"}}
MayStart == clock + Cardinality(Busy) < MaxClock

\* Mutant of Applied: a key that has an entry keeps it.
AppliedOnce(w) == [mem EXCEPT ![wrec[w].key] = IF @ = 0 THEN widx[w] ELSE @]

\* memtable.Put and memtable.Delete replace the entry of the key.
Applied(w) == [mem EXCEPT ![wrec[w].key] = widx[w]]

\* The memtable update, and for a Put the count that triggers a snapshot.
Apply(w) ==
    /\ wpc[w] = "apply"
    /\ mem' = Applied(w)
    /\ acked' = acked \cup {widx[w]}
    /\ IF wrec[w].op = "put"
       THEN /\ writeCount' = (writeCount + 1) % SnapshotThreshold
            /\ IF writeCount' = 0
               THEN /\ MayStart
                    /\ \E s \in Spawned : /\ spc[s] = "idle"
                                          /\ spc' = [spc EXCEPT ![s] = "all"]
               ELSE UNCHANGED spc
       ELSE UNCHANGED <<writeCount, spc>>
    /\ wpc' = [wpc EXCEPT ![w] = "idle"]
    /\ wrec' = [wrec EXCEPT ![w] = NoRecord]
    /\ widx' = [widx EXCEPT ![w] = 0]
    /\ UNCHANGED <<phase, disk, wal, sdata, clock, forgotten>>
-----------------------------------------------------------------------------
(***************************************************************************)
(* takeSnapshot, run by the ticker goroutine, by the goroutines Put spawns *)
(* and by Close.  e.mu is only ever read-locked, so it excludes nobody.    *)
(***************************************************************************)

snapUnchanged == <<phase, log, base, wal, mem, writeCount, writers, history>>

TickerFires ==
    /\ phase \in {"up", "closing"} /\ spc["ticker"] = "idle" /\ MayStart
    /\ spc' = [spc EXCEPT !["ticker"] = "all"]
    /\ UNCHANGED <<snapUnchanged, sdata, snaps, clock>>

SnapAll(s) ==
    /\ spc[s] = "all"
    /\ spc' = [spc EXCEPT ![s] = "size"]
    /\ sdata' = [sdata EXCEPT ![s] = [NoSnapshot EXCEPT !.mem = mem,
                                                        !.applied = acked]]
    /\ UNCHANGED <<snapUnchanged, snaps, clock>>

SnapSize(s) ==
    /\ spc[s] = "size"
    /\ spc' = [spc EXCEPT ![s] = "create"]
    /\ sdata' = [sdata EXCEPT ![s].off = size, ![s].upto = Len(log)]
    /\ UNCHANGED <<snapUnchanged, snaps, clock>>

\* The CreatedAt of the snapshot, which names the temporary file being filled.
SnapCreate(s) ==
    /\ spc[s] = "create"
    /\ spc' = [spc EXCEPT ![s] = "rename"]
    /\ sdata' = [sdata EXCEPT ![s].at = clock + 1]
    /\ clock' = clock + 1
    /\ UNCHANGED <<snapUnchanged, snaps>>

SnapRename(s) ==
    /\ spc[s] = "rename"
    /\ spc' = [spc EXCEPT ![s] = "prune"]
    /\ snaps' = snaps \cup {sdata[s]}
    /\ UNCHANGED <<snapUnchanged, sdata, clock>>

\* What runs after takeSnapshot returns.
AfterSnapshot(s) == IF s = "closer" THEN "wal" ELSE "idle"

\* Creating, encoding, syncing or renaming the file failed; it is only logged.
SnapFail(s) ==
    /\ spc[s] = "rename" /\ "snapshot" \in IOErrors
    /\ spc' = [spc EXCEPT ![s] = AfterSnapshot(s)]
    /\ sdata' = [sdata EXCEPT ![s] = NoSnapshot]
    /\ UNCHANGED <<snapUnchanged, snaps, clock>>

\* Mutant of Outdated: the list is sorted the other way round.
OutdatedNewestFirst ==
    {u \in snaps : Cardinality({v \in snaps : v.at < u.at}) >= MaxSnapshots}

\* pruneOld: the files that have MaxSnapshots newer ones.
Outdated == {u \in snaps : Cardinality({v \in snaps : v.at > u.at}) >= MaxSnapshots}

SnapPrune(s) ==
    /\ spc[s] = "prune"
    /\ spc' = [spc EXCEPT ![s] = AfterSnapshot(s)]
    /\ sdata' = [sdata EXCEPT ![s] = NoSnapshot]
    /\ snaps' = snaps \ Outdated
    /\ UNCHANGED <<snapUnchanged, clock>>

\* Some of the removals fail, which is only logged.
SnapPruneError(s) ==
    /\ spc[s] = "prune" /\ "snapshot" \in IOErrors
    /\ spc' = [spc EXCEPT ![s] = AfterSnapshot(s)]
    /\ sdata' = [sdata EXCEPT ![s] = NoSnapshot]
    /\ \E left \in SUBSET Outdated : left # {} /\ snaps' = (snaps \ Outdated) \cup left
    /\ UNCHANGED <<snapUnchanged, clock>>
-----------------------------------------------------------------------------
(***************************************************************************)
(* Close: set closed, stop the ticker, wait for it, snapshot, close the    *)
(* log.  It waits for no writer and for no spawned snapshot.               *)
(***************************************************************************)

closeUnchanged == <<log, base, mem, writeCount, writers, sdata, snaps, clock, history>>

CloseBegin ==
    /\ phase = "up" /\ MayStart
    /\ phase' = "closing"
    /\ spc' = [spc EXCEPT !["closer"] = "wait"]
    /\ UNCHANGED <<closeUnchanged, wal>>

TickerStops ==
    /\ phase = "closing" /\ spc["ticker"] = "idle"
    /\ spc' = [spc EXCEPT !["ticker"] = "stopped"]
    /\ UNCHANGED <<closeUnchanged, phase, wal>>

\* Mutant of CloseWait: it waits for a ticker that has not stopped.
CloseWaitForIdle ==
    /\ spc["closer"] = "wait" /\ spc["ticker"] = "idle"
    /\ spc' = [spc EXCEPT !["closer"] = "all"]
    /\ UNCHANGED <<closeUnchanged, phase, wal>>

CloseWait ==
    /\ spc["closer"] = "wait" /\ spc["ticker"] = "stopped"
    /\ spc' = [spc EXCEPT !["closer"] = "all"]
    /\ UNCHANGED <<closeUnchanged, phase, wal>>

CloseWAL ==
    /\ spc["closer"] = "wal"
    /\ spc' = [spc EXCEPT !["closer"] = "done"]
    /\ walOpen' = FALSE /\ phase' = "exiting"
    /\ UNCHANGED <<closeUnchanged, size>>

\* main returns; goroutines still running end with the process.
Exit ==
    /\ phase = "exiting"
    /\ Stop /\ UNCHANGED <<log, base>>
-----------------------------------------------------------------------------
(***************************************************************************)
(* Crashes, in the middle of an append among other places.                 *)
(***************************************************************************)

Running == phase \in {"up", "closing", "exiting"}

Crash == Running /\ Stop /\ UNCHANGED <<log, base>>

CrashTorn(w, tear) == Running /\ Write(w, tear) /\ Stop

\* After the rename of rotateIfNeeded, before the record.
CrashRotated(w) ==
    /\ Running /\ wpc[w] = "append" /\ walOpen /\ Rotates
    /\ base' = Len(log)
    /\ Stop /\ UNCHANGED log
-----------------------------------------------------------------------------
WriterStep(w) ==
    \/ \E k \in Keys : Put(w, k) \/ Delete(w, k)
    \/ WalAppend(w) \/ SyncError(w) \/ AppendError(w) \/ RotateError(w)
    \/ \E t \in Tears : PartialWrite(w, t)
    \/ Apply(w)

SnapStep(s) ==
    \/ SnapAll(s) \/ SnapSize(s) \/ SnapCreate(s) \/ SnapRename(s)
    \/ SnapFail(s) \/ SnapPrune(s) \/ SnapPruneError(s)

CrashStep == \/ Crash
             \/ \E w \in Writers : CrashRotated(w) \/ \E t \in Tears : CrashTorn(w, t)

Next ==
    \/ Open \/ OpenFails
    \/ \E w \in Writers : WriterStep(w)
    \/ TickerFires
    \/ \E s \in Snappers : SnapStep(s)
    \/ CloseBegin \/ TickerStops \/ CloseWait \/ CloseWAL \/ Exit
    \/ CrashStep

Spec == Init /\ [][Next]_vars

\* Goroutines that can run do; select picks the stop channel eventually even
\* if the ticker channel is ready again and again.  No write, tick, crash or
\* restart is promised.
Fairness ==
    /\ \A s \in {"ticker", "closer"} : WF_vars(SnapStep(s))
    /\ SF_vars(TickerStops)
    /\ WF_vars(CloseWait) /\ WF_vars(CloseWAL) /\ WF_vars(Exit)

FairSpec == Spec /\ Fairness
-----------------------------------------------------------------------------
(***************************************************************************)
(* Properties                                                              *)
(***************************************************************************)

\* Every variable has its type; the log position a process counts on is one
\* that exists, and w.size never exceeds what wal.log holds unless the handle
\* was lost in a failed rotation (rotateIfNeeded, OpenWAL, Append).
TypeOK ==
    /\ phase \in {"down", "up", "closing", "exiting", "failed"}
    /\ log \in Seq(Record)
    /\ base \in 0 .. Len(log)
    /\ size \in Nat /\ walOpen \in BOOLEAN
    /\ walOpen => size <= Len(log) - base
    /\ mem \in [Keys -> 0 .. Len(log) \cup {Garbage}]
    /\ writeCount \in 0 .. SnapshotThreshold - 1
    /\ wpc \in [Writers -> {"idle", "append", "apply"}]
    /\ wrec \in [Writers -> Record \cup {NoRecord}]
    /\ widx \in [Writers -> 0 .. Len(log)]
    /\ spc \in [Snappers -> {"idle", "wait", "stopped", "all", "size", "create",
                             "rename", "prune", "wal", "done"}]
    /\ sdata \in [Snappers -> Snapshot]
    /\ snaps \subseteq Snapshot
    /\ clock \in Nat
    /\ acked \subseteq 1 .. Len(log)
    /\ forgotten \subseteq acked

\* While the engine runs, a Get (memtable.Get) never shows a key as it was
\* before a write of it that was acknowledged, whatever the interleaving of
\* appends, applies, crashes and restarts; writes an earlier Open had already
\* failed to restore are the exception, and AccountedLoss bounds those.
ReadsSeeAcked ==
    phase \in {"up", "closing", "exiting"} =>
        \A i \in acked \ forgotten : ~Undone(i, mem[log[i].key])

\* Recovery (LoadLatest, then Replay from WALOffset) may lose an acknowledged
\* write in three ways and no other: the latest snapshot's offset belongs to a
\* file rotated away or follows a short write (or the log was rotated and there
\* is no snapshot); the write was in the log, but not yet in the memtable copy,
\* when takeSnapshot read the two; or a torn record sits before it in the log,
\* or swallows it.  None of the three is in the comments of the code, which
\* promise that the write is there (PutDurable).
AccountedLoss ==
    LET s == LoadLatest IN
    \A i \in acked \ forgotten :
        Lost(i) => \/ base + s.off # s.upto
                   \/ i <= s.upto /\ i \notin s.applied
                   \/ \E t \in s.upto + 1 .. Len(log) :
                         /\ log[t].tear # "none"
                         /\ \/ t < i
                            \/ log[t].tear = "payload" /\ log[t].key = log[i].key

\* The newest snapshot on disk is never lost or replaced by an older one, with
\* several takeSnapshot calls renaming and pruning at the same time (Write,
\* pruneOld), with failed writes and with crashes between the two.
LatestSnapshotKept == [][LoadLatest'.at >= LoadLatest.at]_snaps

\* Close returns and the process ends: it cannot hang on the ticker goroutine.
CloseTerminates == phase = "closing" ~> phase = "down"

\* Replay skips what a crash left at the end of wal.log, as its comment says, if
\* that is part of a header or part of a payload: the node fails to start only if
\* bytes follow a torn record, if the latest snapshot's offset does not fit the
\* file, or if the last record is a whole header and no byte of its payload, which
\* the comment covers and Replay takes for an error.
OpensUnlessDamaged ==
    phase = "failed" =>
        \/ Misplaced(LoadLatest)
        \/ \E t \in base + 1 .. Len(log) : \/ log[t].tear # "none" /\ t < Len(log)
                                          \/ log[t].tear = "exact"

\* engine.go: "Put stores key -> value durably"; wal.go: "fsync - this is the
\* durability guarantee": no Open fails to restore a write whose Put or Delete
\* returned nil.
PutDurable == forgotten = {}
=============================================================================
