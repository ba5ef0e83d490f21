--------------------------- MODULE SessionsProofs ---------------------------
(***************************************************************************)
(* Proofs about Sessions: what the read_your_write and monotonic flags of  *)
(* an answer mean, for any number of sessions, handlers, keys and          *)
(* replicas, any skew of their clocks and any TTL.                         *)
(***************************************************************************)
EXTENDS Sessions, SequenceTheorems, TLAPS

-----------------------------------------------------------------------------
(***************************************************************************)
(* The inductive invariant                                                 *)
(***************************************************************************)

\* A handler goes through the stages of its operation, and sets a flag when it
\* has reached the check.
StageOK(c) ==
    /\ calls[c].op = "put" => calls[c].status \in {"replicas", "stamped", "done"}
    /\ calls[c].op = "get" => calls[c].status \in {"replicas", "ryw", "mono", "done"}
    /\ calls[c].ryw => calls[c].op = "get" /\ calls[c].status \in {"ryw", "mono", "done"}
    /\ calls[c].mono => calls[c].op = "get" /\ calls[c].status \in {"mono", "done"}
Stages == \A c \in Calls : Live(c) => StageOK(c)

\* As long as the map has not lost a handler's session, it holds the very object
\* that the handler has a pointer to.
InMap == \A c \in Calls : (Live(c) /\ ~calls[c].out) => sessions[calls[c].id] = calls[c].session

\* An object is of one session only, in the map and for the handlers.
Owners ==
    /\ \A i, j \in Ids : (sessions[i] = sessions[j] /\ sessions[i] # 0) => i = j
    /\ \A i \in Ids, c \in Calls :
          (Live(c) /\ sessions[i] = calls[c].session) => calls[c].id = i

\* A Put whose timestamp has been taken.
Ended(c) == Live(c) /\ calls[c].op = "put" /\ calls[c].status # "replicas"

\* No two readings of the clock are equal: a copy is not stored when a Put ends.
Readings ==
    /\ Epoch <= clock
    /\ \A k \in Keys, r \in Replicas : store[k][r] # 0 => store[k][r] \in Epoch + 1 .. clock
    /\ \A c \in Calls : Live(c) => \A copy \in calls[c].got : copy.at \in Epoch + 1 .. clock
    /\ \A c \in Calls : Ended(c) =>
          /\ calls[c].ts = calls[c].end /\ calls[c].end \in Epoch + 1 .. clock
          /\ \A k \in Keys, r \in Replicas : store[k][r] # calls[c].end
          /\ \A g \in Calls : Live(g) => \A copy \in calls[g].got : copy.at # calls[c].end

\* The timestamp of a Get's answer is that of the copy it returned.
Returned(c) == Live(c) /\ calls[c].op = "get" /\ calls[c].status # "replicas"
AnswerOK(c) == Returned(c) =>
    calls[c].ts \in Nat /\ \A copy \in calls[c].got : TS(copy) = calls[c].ts
Answered == \A c \in Calls : AnswerOK(c)

\* The object at an address has taken notice of a finished call.
Told(a, d) == /\ calls[d].op = "put" => calls[d].ts <= heap[a].LastWriteTS
              /\ calls[d].op = "get" => calls[d].ts <= heap[a].LastReadTS

\* The map's object knows of every finished call of its session that it has not lost.
MapTold == \A d \in Calls : (At(d, "done") /\ ~calls[d].out) => Told(sessions[calls[d].id], d)

\* A handler's object knows of every call that was over when the handler began, also
\* when the map has another object by now.
PointerTold ==
    \A g \in Calls : Live(g) => \A d \in calls[g].after :
        At(d, "done") /\ Told(calls[g].session, d)

\* The flags mean what they say of those calls.
FlagsOK(g) ==
    Live(g) => \A d \in calls[g].after :
        /\ (calls[g].ryw /\ calls[d].op = "put") => calls[d].ts <= calls[g].ts
        /\ (calls[g].mono /\ calls[d].op = "get") => calls[d].ts <= calls[g].ts
FlagsMean == \A g \in Calls : FlagsOK(g)

\* A finished call of the session with the timestamp.
Cause(i, op, ts) == \E d \in Calls : /\ At(d, "done") /\ calls[d].op = op
                                     /\ calls[d].id = i /\ calls[d].ts = ts

\* The timestamps of an object of session i are of finished calls of the session.
Caused(a, i) ==
    /\ heap[a].LastWriteTS # 0 => Cause(i, "put", heap[a].LastWriteTS)
    /\ heap[a].LastReadTS # 0 => Cause(i, "get", heap[a].LastReadTS)
ObjectsCaused ==
    /\ \A i \in Ids : sessions[i] # 0 => Caused(sessions[i], i)
    /\ \A c \in Calls : Live(c) => Caused(calls[c].session, calls[c].id)

\* A check that failed has a cause.
ChecksOK(g) ==
    Returned(g) =>
        /\ calls[g].ryw \/ \E ts \in Nat : ts > calls[g].ts /\ Cause(calls[g].id, "put", ts)
        /\ calls[g].status \in {"mono", "done"} =>
              calls[g].mono \/ \E ts \in Nat : ts > calls[g].ts /\ Cause(calls[g].id, "get", ts)
ChecksCaused == \A g \in Calls : ChecksOK(g)

IInv == /\ TypeOK /\ Stages /\ InMap /\ Owners /\ Readings /\ Answered
        /\ MapTold /\ PointerTold /\ FlagsMean /\ ObjectsCaused /\ ChecksCaused

-----------------------------------------------------------------------------
(***************************************************************************)
(* Types                                                                   *)
(***************************************************************************)

\* A call that is neither unused nor failed is a record with the fields of a handler.
LEMMA LiveCall ==
    ASSUME TypeOK, NEW c \in Calls
    PROVE  /\ Live(c) => calls[c] \in Call
           /\ calls[c] \in Call => Live(c)
           /\ ~Live(c) => calls[c] \in {Unused, Failed}
           /\ At(c, "unused") => calls[c] = Unused
           /\ \A s \in {"replicas", "stamped", "ryw", "mono", "done"} : At(c, s) => Live(c)
<1>1. calls[c] \in Call \cup {Unused, Failed}
  BY DEF TypeOK
<1>2. calls[c] \in Call => calls[c].status \in {"replicas", "stamped", "ryw", "mono", "done"}
  BY DEF Call
<1>3. Unused.status = "unused" /\ Failed.status = "err"
  BY DEF Unused, Failed
<1> QED BY <1>1, <1>2, <1>3 DEF Live, At

LEMMA FieldTypes ==
    ASSUME TypeOK, NEW c \in Calls, Live(c)
    PROVE  /\ calls[c].op \in {"put", "get"} /\ calls[c].id \in Ids /\ calls[c].key \in Keys
           /\ calls[c].session \in 1 .. Len(heap) /\ calls[c].session # 0
           /\ calls[c].waiting \in SUBSET Replicas /\ calls[c].got \in SUBSET Copy
           /\ calls[c].ts \in Int /\ calls[c].end \in Nat
           /\ calls[c].ryw \in BOOLEAN /\ calls[c].mono \in BOOLEAN /\ calls[c].out \in BOOLEAN
           /\ calls[c].status \in {"replicas", "stamped", "ryw", "mono", "done"}
           /\ calls[c].after \in SUBSET Calls
<1>1. calls[c] \in Call
  BY LiveCall
<1>2. calls[c].session <= Len(heap) /\ Len(heap) \in Nat
  BY DEF TypeOK
<1>3. calls[c].session \in Nat \ {0}
  BY <1>1 DEF Call
<1>4. calls[c].session \in 1 .. Len(heap) /\ calls[c].session # 0
  BY <1>2, <1>3
<1> QED BY <1>1, <1>4 DEF Call

LEMMA ObjectTypes ==
    ASSUME TypeOK, NEW a \in 1 .. Len(heap)
    PROVE  heap[a] \in Session /\ heap[a].LastWriteTS \in Nat /\ heap[a].LastReadTS \in Int
<1>1. heap[a] \in Session
  BY DEF TypeOK
<1> QED BY <1>1 DEF Session

-----------------------------------------------------------------------------
(***************************************************************************)
(* Steps of one handler                                                    *)
(***************************************************************************)

\* The handler c takes a step, and is still there; the others do nothing.
Moves(c) ==
    /\ Live(c) /\ ~At(c, "done")
    /\ calls' \in [Calls -> Call \cup {Unused, Failed}]
    /\ calls'[c] \in Call
    /\ \A d \in Calls \ {c} : calls'[d] = calls[d]
    /\ calls'[c].op = calls[c].op /\ calls'[c].id = calls[c].id
    /\ calls'[c].session = calls[c].session /\ calls'[c].after = calls[c].after
    /\ calls'[c].out = calls[c].out

LEMMA PutReturnsMoves ==
    ASSUME TypeOK, NEW c \in Calls, PutReturns(c)
    PROVE  /\ Moves(c) /\ calls'[c].status = "stamped" /\ calls'[c].ts = clock + 1
           /\ calls'[c].end = clock + 1 /\ calls'[c].got = calls[c].got
           /\ calls'[c].ryw = calls[c].ryw /\ calls'[c].mono = calls[c].mono
<1>1. Live(c) /\ calls[c] \in Call /\ ~At(c, "done")
  BY LiveCall DEF PutReturns, At
<1>2. calls' = [calls EXCEPT ![c] = [calls[c] EXCEPT !.status = "stamped", !.waiting = {},
                                      !.ts = clock + 1, !.end = clock + 1]]
  BY <1>1 DEF PutReturns, TypeOK
<1>3. [calls[c] EXCEPT !.status = "stamped", !.waiting = {},
                       !.ts = clock + 1, !.end = clock + 1] \in Call
  <2>1. clock + 1 \in Nat /\ clock + 1 \in Int
    BY DEF TypeOK
  <2> QED BY <1>1, <2>1 DEF Call
<1> QED BY <1>1, <1>2, <1>3 DEF Moves, TypeOK, Call

LEMMA AnswerMoves ==
    ASSUME TypeOK, NEW c \in Calls, At(c, "replicas"), NEW r, NEW copies \in SUBSET Copy,
           Answer(c, r, copies)
    PROVE  /\ Moves(c) /\ calls'[c].status = "replicas"
           /\ calls'[c].ts = calls[c].ts /\ calls'[c].end = calls[c].end
           /\ calls'[c].got = calls[c].got \cup copies
           /\ calls'[c].ryw = calls[c].ryw /\ calls'[c].mono = calls[c].mono
<1>1. Live(c) /\ calls[c] \in Call /\ ~At(c, "done") /\ calls[c].status = "replicas"
  BY LiveCall DEF At
<1>2. calls' = [calls EXCEPT ![c] = [calls[c] EXCEPT !.waiting = @ \ {r}, !.got = @ \cup copies]]
  BY <1>1 DEF Answer, TypeOK
<1>3. [calls[c] EXCEPT !.waiting = @ \ {r}, !.got = @ \cup copies] \in Call
  BY <1>1 DEF Call
<1> QED BY <1>1, <1>2, <1>3 DEF Moves, TypeOK, Call

\* The step with which a handler is through with TrackWrite or TrackRead.
LEMMA DoneMoves ==
    ASSUME TypeOK, NEW c \in Calls, At(c, "stamped") \/ At(c, "mono"),
           calls' = [calls EXCEPT ![c].status = "done"]
    PROVE  /\ Moves(c) /\ calls'[c].status = "done"
           /\ calls'[c].ts = calls[c].ts /\ calls'[c].end = calls[c].end
           /\ calls'[c].got = calls[c].got
           /\ calls'[c].ryw = calls[c].ryw /\ calls'[c].mono = calls[c].mono
<1>1. Live(c) /\ calls[c] \in Call /\ ~At(c, "done")
  BY LiveCall DEF At
<1> DEFINE rec == [calls[c] EXCEPT !.status = "done"]
<1>2. calls' = [calls EXCEPT ![c] = rec]
  BY <1>1 DEF TypeOK
<1>3. rec \in Call
  BY <1>1 DEF Call
<1>4. /\ rec.op = calls[c].op /\ rec.id = calls[c].id /\ rec.session = calls[c].session
      /\ rec.after = calls[c].after /\ rec.out = calls[c].out /\ rec.status = "done"
      /\ rec.ts = calls[c].ts /\ rec.end = calls[c].end /\ rec.got = calls[c].got
      /\ rec.mono = calls[c].mono /\ rec.ryw = calls[c].ryw
  BY <1>1 DEF Call
<1> HIDE DEF rec
<1>5. /\ calls'[c] = rec /\ \A d \in Calls \ {c} : calls'[d] = calls[d]
      /\ calls' \in [Calls -> Call \cup {Unused, Failed}]
  BY <1>2, <1>3 DEF TypeOK
<1> QED BY <1>1, <1>3, <1>4, <1>5 DEF Moves

LEMMA TSType ==
    ASSUME NEW copy \in Copy
    PROVE  TS(copy) \in Int
<1>1. copy.at \in Nat /\ copy.node \in Replicas
  BY DEF Copy
<1>2. Skew[copy.node] \in Int
  BY <1>1, SkewAssumption
<1> QED BY <1>1, <1>2 DEF TS

LEMMA GetReturnsMoves ==
    ASSUME TypeOK, NEW c \in Calls, GetReturns(c)
    PROVE  \E latest \in calls[c].got :
             /\ Moves(c) /\ calls'[c].status = "ryw"
             /\ calls'[c].ts = TS(latest) /\ calls'[c].end = calls[c].end
             /\ calls'[c].got = {latest} /\ calls'[c].mono = calls[c].mono
             /\ calls'[c].ryw = (TS(latest) >= heap[calls[c].session].LastWriteTS)
<1>1. Live(c) /\ calls[c] \in Call /\ ~At(c, "done")
  BY LiveCall DEF GetReturns, At
<1>2. PICK latest \in calls[c].got :
        calls' = [calls EXCEPT
              ![c].status = "ryw", ![c].got = {latest}, ![c].ts = TS(latest),
              ![c].ryw = TS(latest) >= heap[calls[c].session].LastWriteTS]
  BY DEF GetReturns
<1> DEFINE b == TS(latest) >= heap[calls[c].session].LastWriteTS
           rec == [calls[c] EXCEPT !.status = "ryw", !.got = {latest}, !.ts = TS(latest),
                                   !.ryw = b]
<1>3. latest \in Copy /\ TS(latest) \in Int
  BY <1>1, TSType DEF Call
<1>4. b \in BOOLEAN
  OBVIOUS
<1>5. calls' = [calls EXCEPT ![c] = rec]
  BY <1>1, <1>2 DEF TypeOK
<1> HIDE DEF b
<1>6. rec \in Call
  BY <1>1, <1>3, <1>4 DEF Call
<1>7. /\ rec.op = calls[c].op /\ rec.id = calls[c].id /\ rec.session = calls[c].session
      /\ rec.after = calls[c].after /\ rec.out = calls[c].out /\ rec.status = "ryw"
      /\ rec.ts = TS(latest) /\ rec.end = calls[c].end /\ rec.got = {latest}
      /\ rec.mono = calls[c].mono /\ rec.ryw = b
  BY <1>1 DEF Call
<1> HIDE DEF rec
<1>8. /\ calls'[c] = rec /\ \A d \in Calls \ {c} : calls'[d] = calls[d]
      /\ calls' \in [Calls -> Call \cup {Unused, Failed}]
  BY <1>5, <1>6 DEF TypeOK
<1>9. Moves(c)
  BY <1>1, <1>6, <1>7, <1>8 DEF Moves
<1> QED BY <1>7, <1>8, <1>9 DEF b

LEMMA CheckMoves ==
    ASSUME TypeOK, NEW c \in Calls, CheckMonotonicRead(c)
    PROVE  /\ Moves(c) /\ calls'[c].status = "mono"
           /\ calls'[c].ts = calls[c].ts /\ calls'[c].end = calls[c].end
           /\ calls'[c].got = calls[c].got /\ calls'[c].ryw = calls[c].ryw
           /\ calls'[c].mono = (calls[c].ts >= heap[calls[c].session].LastReadTS)
<1>1. Live(c) /\ calls[c] \in Call /\ ~At(c, "done")
  BY LiveCall DEF CheckMonotonicRead, At
<1> DEFINE b == calls[c].ts >= heap[calls[c].session].LastReadTS
           rec == [calls[c] EXCEPT !.status = "mono", !.mono = b]
<1>4. b \in BOOLEAN
  OBVIOUS
<1>5. calls' = [calls EXCEPT ![c] = rec]
  BY <1>1 DEF TypeOK, CheckMonotonicRead
<1> HIDE DEF b
<1>6. rec \in Call
  BY <1>1, <1>4 DEF Call
<1>7. /\ rec.op = calls[c].op /\ rec.id = calls[c].id /\ rec.session = calls[c].session
      /\ rec.after = calls[c].after /\ rec.out = calls[c].out /\ rec.status = "mono"
      /\ rec.ts = calls[c].ts /\ rec.end = calls[c].end /\ rec.got = calls[c].got
      /\ rec.mono = b /\ rec.ryw = calls[c].ryw
  BY <1>1 DEF Call
<1> HIDE DEF rec
<1>8. /\ calls'[c] = rec /\ \A d \in Calls \ {c} : calls'[d] = calls[d]
      /\ calls' \in [Calls -> Call \cup {Unused, Failed}]
  BY <1>5, <1>6 DEF TypeOK
<1>9. Moves(c)
  BY <1>1, <1>6, <1>7, <1>8 DEF Moves
<1> QED BY <1>7, <1>8, <1>9 DEF b

-----------------------------------------------------------------------------
(***************************************************************************)
(* What the steps of handlers leave true                                   *)
(***************************************************************************)

\* The timestamps of the objects never go back (TrackWrite and TrackRead keep the
\* newer one), and there are never fewer objects.
Grows ==
    /\ heap' \in Seq(Session) /\ Len(heap) <= Len(heap')
    /\ \A a \in 1 .. Len(heap) : /\ heap[a].LastWriteTS <= heap'[a].LastWriteTS
                                 /\ heap[a].LastReadTS <= heap'[a].LastReadTS

\* What is finished stays so: only `out' of a finished call may change.
Settled ==
    \A d \in Calls : At(d, "done") =>
        /\ At(d, "done")' /\ calls'[d].op = calls[d].op /\ calls'[d].id = calls[d].id
        /\ calls'[d].ts = calls[d].ts

LEMMA MovesSettled ==
    ASSUME NEW c \in Calls, Moves(c)
    PROVE  Settled
BY DEF Moves, Settled, At

LEMMA CauseStays ==
    ASSUME Settled, NEW i, NEW op, NEW ts, Cause(i, op, ts)
    PROVE  Cause(i, op, ts)'
<1>1. PICK d \in Calls : /\ At(d, "done") /\ calls[d].op = op
                         /\ calls[d].id = i /\ calls[d].ts = ts
  BY DEF Cause
<1>2. At(d, "done")' /\ calls'[d].op = op /\ calls'[d].id = i /\ calls'[d].ts = ts
  BY <1>1 DEF Settled
<1> QED BY <1>2 DEF Cause

LEMMA ToldStays ==
    ASSUME TypeOK, Grows, Settled, NEW a \in 1 .. Len(heap), NEW d \in Calls, At(d, "done"),
           Told(a, d)
    PROVE  Told(a, d)'
<1>1. calls'[d].op = calls[d].op /\ calls'[d].ts = calls[d].ts
  BY DEF Settled
<1>2. Live(d) /\ calls[d].ts \in Int
  BY LiveCall, FieldTypes
<1>3. heap[a].LastWriteTS \in Int /\ heap[a].LastReadTS \in Int
  BY ObjectTypes
<1>4. heap'[a] \in Session
  BY DEF Grows, TypeOK
<1>5. heap'[a].LastWriteTS \in Int /\ heap'[a].LastReadTS \in Int
  BY <1>4 DEF Session
<1>6. heap[a].LastWriteTS <= heap'[a].LastWriteTS /\ heap[a].LastReadTS <= heap'[a].LastReadTS
  BY DEF Grows
<1> QED BY <1>1, <1>2, <1>3, <1>5, <1>6 DEF Told

\* A step of c is of a handler that was there, and keeps what it points to.
LEMMA MovesLive ==
    ASSUME TypeOK, NEW c \in Calls, Moves(c), NEW d \in Calls
    PROVE  /\ Live(d)' <=> Live(d)
           /\ Live(d) => /\ calls'[d].op = calls[d].op /\ calls'[d].id = calls[d].id
                         /\ calls'[d].session = calls[d].session
                         /\ calls'[d].after = calls[d].after /\ calls'[d].out = calls[d].out
<1>1. CASE d = c
  <2>1. Live(c)
    BY DEF Moves
  <2>2. calls'[c].status \in {"replicas", "stamped", "ryw", "mono", "done"}
    BY DEF Moves, Call
  <2>3. Live(c)'
    BY <2>2 DEF Live, At
  <2> QED BY <1>1, <2>1, <2>3 DEF Moves
<1>2. CASE d # c
  BY <1>2 DEF Moves, Live, At
<1> QED BY <1>1, <1>2

\* The parts of the invariant that every step of a handler keeps, whatever it sets.
LEMMA MovesKeep ==
    ASSUME IInv, NEW c \in Calls, Moves(c), Grows, sessions' = sessions
    PROVE  InMap' /\ Owners' /\ PointerTold'
<1>0. TypeOK /\ InMap /\ Owners /\ PointerTold
  BY DEF IInv
<1>1. InMap'
  BY <1>0, MovesLive DEF InMap
<1>2. Owners'
  BY <1>0, MovesLive DEF Owners
<1>3. ASSUME NEW g \in Calls, Live(g)', NEW d \in calls'[g].after
      PROVE  At(d, "done")' /\ Told(calls[g].session, d)' /\ calls'[g].session = calls[g].session
  <2>1. Live(g) /\ d \in calls[g].after /\ calls'[g].session = calls[g].session
    BY <1>0, <1>3, MovesLive
  <2>2. At(d, "done") /\ Told(calls[g].session, d) /\ d \in Calls /\ calls[g].session \in 1 .. Len(heap)
    BY <1>0, <2>1, FieldTypes DEF PointerTold
  <2>3. PICK a \in 1 .. Len(heap) : a = calls[g].session
    BY <2>2
  <2>4. Told(a, d)'
    BY <1>0, <2>2, <2>3, MovesSettled, ToldStays
  <2>5. At(d, "done")'
    BY <2>2, MovesSettled DEF Settled
  <2> QED BY <2>1, <2>3, <2>4, <2>5 DEF Told
<1>4. PointerTold'
  BY <1>3 DEF PointerTold, Told
<1> QED BY <1>1, <1>2, <1>4

LEMMA MovesTypes ==
    ASSUME TypeOK, NEW c \in Calls, Moves(c), Grows, sessions' = sessions, clock' \in Nat,
           store' \in [Keys -> [Replicas -> Nat]]
    PROVE  TypeOK'
<1>1. Len(heap) \in Nat /\ Len(heap') \in Nat /\ Len(heap) <= Len(heap')
  BY DEF TypeOK, Grows
<1>2. sessions' \in [Ids -> 0 .. Len(heap')]
  <2>1. 0 .. Len(heap) \subseteq 0 .. Len(heap')
    BY <1>1
  <2>2. sessions \in [Ids -> 0 .. Len(heap)]
    BY DEF TypeOK
  <2> QED BY <2>1, <2>2
<1>3. ASSUME NEW d \in Calls, Live(d)' PROVE calls'[d].session <= Len(heap')
  <2>1. Live(d) /\ calls'[d].session = calls[d].session
    BY <1>3, MovesLive
  <2>2. calls[d].session \in 1 .. Len(heap)
    BY <2>1, FieldTypes
  <2> QED BY <1>1, <2>1, <2>2
<1>4. calls' \in [Calls -> Call \cup {Unused, Failed}] /\ heap' \in Seq(Session)
  BY DEF Moves, Grows
<1> QED BY <1>2, <1>3, <1>4 DEF TypeOK

\* What the other handlers have found out stays true.
LEMMA OthersKeep ==
    ASSUME IInv, Settled, NEW g \in Calls, calls'[g] = calls[g]
    PROVE  /\ Live(g)' => StageOK(g)'
           /\ AnswerOK(g)' /\ FlagsOK(g)' /\ ChecksOK(g)'
<1>0. TypeOK /\ Stages /\ Answered /\ PointerTold /\ FlagsMean /\ ChecksCaused
  BY DEF IInv
<1>1. calls'[g] = calls[g]
  OBVIOUS
<1>2. Live(g)' <=> Live(g)
  BY <1>1 DEF Live, At
<1>3. Settled
  OBVIOUS
<1>4. Live(g)' => StageOK(g)'
  BY <1>0, <1>1, <1>2 DEF Stages, StageOK
<1>5. AnswerOK(g)'
  BY <1>0, <1>1, <1>2 DEF Answered, AnswerOK, Returned, TS
<1>6. FlagsOK(g)'
  <2>1. ASSUME Live(g), NEW d \in calls[g].after
        PROVE  calls'[d].op = calls[d].op /\ calls'[d].ts = calls[d].ts
    <3>1. d \in Calls /\ At(d, "done")
      BY <1>0, <2>1, FieldTypes DEF PointerTold
    <3> QED BY <1>3, <3>1 DEF Settled
  <2>2. FlagsOK(g)
    BY <1>0 DEF FlagsMean
  <2> QED BY <1>1, <1>2, <2>1, <2>2 DEF FlagsOK
<1>7. ChecksOK(g)'
  <2>1. ChecksOK(g)
    BY <1>0 DEF ChecksCaused
  <2>2. Returned(g)' <=> Returned(g)
    BY <1>1, <1>2 DEF Returned
  <2>3. \A op \in {"put", "get"}, ts \in Nat :
            Cause(calls[g].id, op, ts) => Cause(calls[g].id, op, ts)'
    BY <1>1, <1>3, CauseStays
  <2> QED BY <1>1, <2>1, <2>2, <2>3 DEF ChecksOK
<1> QED BY <1>4, <1>5, <1>6, <1>7

\* A step of a handler that touches no session.
LEMMA QuietStep ==
    ASSUME IInv, NEW c \in Calls, Moves(c), calls'[c].status # "done",
           heap' = heap, sessions' = sessions, clock' \in Nat,
           store' \in [Keys -> [Replicas -> Nat]], Readings',
           StageOK(c)', AnswerOK(c)', FlagsOK(c)', ChecksOK(c)'
    PROVE  IInv'
<1>0. TypeOK /\ MapTold /\ ObjectsCaused /\ PointerTold
  BY DEF IInv
<1>1. Grows
  <2>1. heap \in Seq(Session) /\ Len(heap) \in Nat
    BY <1>0 DEF TypeOK
  <2>2. \A a \in 1 .. Len(heap) : heap[a].LastWriteTS \in Int /\ heap[a].LastReadTS \in Int
    BY <1>0, ObjectTypes
  <2> QED BY <2>1, <2>2 DEF Grows
<1>2. Settled
  BY MovesSettled
<1>3. TypeOK'
  BY <1>0, <1>1, MovesTypes
<1>4. InMap' /\ Owners' /\ PointerTold'
  BY <1>1, MovesKeep
<1>5. Stages' /\ Answered' /\ FlagsMean' /\ ChecksCaused'
  <2>1. \A g \in Calls : (Live(g)' => StageOK(g)') /\ AnswerOK(g)' /\ FlagsOK(g)' /\ ChecksOK(g)'
    BY <1>2, OthersKeep DEF Moves
  <2> QED BY <2>1 DEF Stages, Answered, FlagsMean, ChecksCaused
<1>6. MapTold'
  <2>1. ASSUME NEW d \in Calls, At(d, "done")', ~calls'[d].out
        PROVE  Told(sessions[calls[d].id], d)'
    <3>1. d # c /\ calls'[d] = calls[d]
      BY <2>1 DEF Moves, At
    <3>2. Told(sessions[calls[d].id], d)
      BY <1>0, <2>1, <3>1 DEF MapTold, At
    <3> QED BY <3>1, <3>2 DEF Told
  <2> QED BY <2>1 DEF MapTold
<1>7. ObjectsCaused'
  <2>1. ASSUME NEW a, NEW i, Caused(a, i) PROVE Caused(a, i)'
    <3>1. heap'[a] = heap[a]
      OBVIOUS
    <3> QED BY <1>2, <2>1, <3>1, CauseStays DEF Caused
  <2>2. ASSUME NEW i \in Ids, sessions'[i] # 0 PROVE Caused(sessions[i], i)'
    <3>1. PICK a : a = sessions[i]
      OBVIOUS
    <3>2. Caused(a, i)'
      BY <1>0, <2>1, <2>2, <3>1 DEF ObjectsCaused
    <3> QED BY <3>1, <3>2 DEF Caused
  <2>3. ASSUME NEW d \in Calls, Live(d)' PROVE Caused(calls[d].session, calls[d].id)'
    <3>1. Live(d) /\ calls'[d].session = calls[d].session /\ calls'[d].id = calls[d].id
      BY <1>0, <2>3, MovesLive
    <3>2. PICK a, i : a = calls[d].session /\ i = calls[d].id
      OBVIOUS
    <3>3. Caused(a, i)'
      BY <1>0, <2>1, <3>1, <3>2 DEF ObjectsCaused
    <3> QED BY <3>1, <3>2, <3>3 DEF Caused, Cause
  <2> QED BY <2>2, <2>3 DEF ObjectsCaused
<1> QED BY <1>3, <1>4, <1>5, <1>6, <1>7 DEF IInv

\* What a step does to the readings of the clock that are kept: at most one is new, and
\* it goes to the store or to a Put, and what a Get takes up is in the store.
LEMMA ReadingsStep ==
    ASSUME TypeOK, Readings, clock' \in {clock, clock + 1},
           \A k \in Keys, r \in Replicas :
               store'[k][r] = store[k][r] \/ (store'[k][r] = clock + 1 /\ clock' = clock + 1),
           \A d \in Calls : Live(d)' => \A copy \in calls'[d].got :
               \/ Live(d) /\ copy \in calls[d].got
               \/ \E k \in Keys, r \in Replicas : copy.at = store[k][r] /\ store[k][r] # 0,
           \A d \in Calls : Ended(d)' =>
               \/ Ended(d) /\ calls'[d].ts = calls[d].ts /\ calls'[d].end = calls[d].end
               \/ /\ calls'[d].ts = clock + 1 /\ calls'[d].end = clock + 1
                  /\ clock' = clock + 1 /\ store' = store
    PROVE  Readings'
<1>1. clock \in Nat /\ Epoch \in Nat /\ Epoch <= clock /\ clock' \in Nat /\ clock <= clock'
  BY SkewAssumption DEF TypeOK, Readings
<1>2. Epoch <= clock'
  BY <1>1
<1>3. \A k \in Keys, r \in Replicas : store[k][r] \in Nat /\ (store[k][r] # 0 => store[k][r] \in Epoch + 1 .. clock)
  BY DEF TypeOK, Readings
<1>4. \A k \in Keys, r \in Replicas : store'[k][r] # 0 => store'[k][r] \in Epoch + 1 .. clock'
  BY <1>1, <1>3
<1>5. ASSUME NEW d \in Calls, Live(d)', NEW copy \in calls'[d].got
      PROVE  copy.at \in Epoch + 1 .. clock
  <2>1. CASE Live(d) /\ copy \in calls[d].got
    BY <2>1 DEF Readings
  <2>2. CASE \E k \in Keys, r \in Replicas : copy.at = store[k][r] /\ store[k][r] # 0
    BY <1>3, <2>2
  <2> QED BY <1>5, <2>1, <2>2
<1>6. Epoch + 1 .. clock \subseteq Epoch + 1 .. clock'
  BY <1>1
<1>7. ASSUME NEW c \in Calls, Ended(c)'
      PROVE  /\ calls'[c].ts = calls'[c].end /\ calls'[c].end \in Epoch + 1 .. clock'
             /\ \A k \in Keys, r \in Replicas : store'[k][r] # calls'[c].end
             /\ \A g \in Calls : Live(g)' => \A copy \in calls'[g].got : copy.at # calls'[c].end
  <2>1. CASE Ended(c) /\ calls'[c].ts = calls[c].ts /\ calls'[c].end = calls[c].end
    <3>1. /\ calls[c].ts = calls[c].end /\ calls[c].end \in Epoch + 1 .. clock
          /\ \A k \in Keys, r \in Replicas : store[k][r] # calls[c].end
          /\ \A g \in Calls : Live(g) => \A copy \in calls[g].got : copy.at # calls[c].end
      BY <2>1 DEF Readings
    <3>2. calls[c].end # clock + 1
      BY <1>1, <3>1
    <3>3. \A k \in Keys, r \in Replicas : store'[k][r] # calls[c].end
      BY <3>1, <3>2
    <3>4. ASSUME NEW g \in Calls, Live(g)', NEW copy \in calls'[g].got
          PROVE  copy.at # calls[c].end
      BY <3>1, <3>4
    <3> QED BY <1>6, <2>1, <3>1, <3>3, <3>4
  <2>2. CASE /\ calls'[c].ts = clock + 1 /\ calls'[c].end = clock + 1
             /\ clock' = clock + 1 /\ store' = store
    <3>1. calls'[c].end \in Epoch + 1 .. clock'
      BY <1>1, <2>2
    <3>2. \A k \in Keys, r \in Replicas : store'[k][r] # calls'[c].end
      BY <1>1, <1>3, <2>2
    <3>3. ASSUME NEW g \in Calls, Live(g)', NEW copy \in calls'[g].got
          PROVE  copy.at # calls'[c].end
      <4>1. copy.at \in Epoch + 1 .. clock
        BY <1>5, <3>3
      <4> QED BY <1>1, <2>2, <4>1
    <3> QED BY <2>2, <3>1, <3>2, <3>3
  <2> QED BY <1>7, <2>1, <2>2
<1> QED BY <1>2, <1>4, <1>5, <1>6, <1>7 DEF Readings

-----------------------------------------------------------------------------
(***************************************************************************)
(* The actions                                                             *)
(***************************************************************************)

\* While the replicas are asked, a handler has no flags and no answer to account for.
LEMMA WaitingOK ==
    ASSUME IInv, NEW c \in Calls, Moves(c), At(c, "replicas"),
           \/ calls'[c].status = "replicas"
           \/ calls'[c].status = "stamped" /\ calls[c].op = "put",
           calls'[c].ryw = calls[c].ryw, calls'[c].mono = calls[c].mono
    PROVE  StageOK(c)' /\ AnswerOK(c)' /\ FlagsOK(c)' /\ ChecksOK(c)'
<1>1. Live(c) /\ StageOK(c) /\ calls[c].status = "replicas" /\ calls[c].op \in {"put", "get"}
  BY FieldTypes DEF IInv, Stages, Moves, At
<1>2. ~calls[c].ryw /\ ~calls[c].mono
  BY <1>1 DEF StageOK
<1>3. calls'[c].op = calls[c].op
  BY DEF Moves
<1>4. ~Returned(c)'
  BY <1>1, <1>3 DEF Returned
<1>5. StageOK(c)'
  BY <1>1, <1>2, <1>3 DEF StageOK
<1> QED BY <1>2, <1>4, <1>5 DEF AnswerOK, FlagsOK, ChecksOK

\* A step that lets no Put end, and after which no call has more copies than before.
LEMMA EndedKept ==
    ASSUME TypeOK, NEW c \in Calls, Moves(c), calls'[c].ts = calls[c].ts,
           calls'[c].end = calls[c].end, calls'[c].status # "replicas" => calls[c].status # "replicas"
    PROVE  \A d \in Calls : Ended(d)' =>
               Ended(d) /\ calls'[d].ts = calls[d].ts /\ calls'[d].end = calls[d].end
<1> SUFFICES ASSUME NEW d \in Calls, Ended(d)'
             PROVE  Ended(d) /\ calls'[d].ts = calls[d].ts /\ calls'[d].end = calls[d].end
  OBVIOUS
<1>1. Live(d)
  BY MovesLive DEF Ended
<1>2. CASE d = c
  BY <1>1, <1>2 DEF Ended, Moves
<1>3. CASE d # c
  BY <1>1, <1>3 DEF Ended, Moves
<1> QED BY <1>2, <1>3

LEMMA StoreCopyHolds ==
    ASSUME IInv, NEW c \in Calls, NEW r \in Replicas, StoreCopy(c, r)
    PROVE  IInv'
<1>0. TypeOK /\ Readings
  BY DEF IInv
<1>1. /\ At(c, "replicas") /\ Answer(c, r, {}) /\ clock' = clock + 1
      /\ store' = [store EXCEPT ![calls[c].key][r] = clock + 1]
      /\ heap' = heap /\ sessions' = sessions
  BY DEF StoreCopy
<1>2. /\ Moves(c) /\ calls'[c].status = "replicas"
      /\ calls'[c].ts = calls[c].ts /\ calls'[c].end = calls[c].end
      /\ calls'[c].got = calls[c].got
      /\ calls'[c].ryw = calls[c].ryw /\ calls'[c].mono = calls[c].mono
  <2>1. PICK copies : copies = {}
    OBVIOUS
  <2>2. copies \in SUBSET Copy /\ Answer(c, r, copies) /\ calls[c].got \cup copies = calls[c].got
    BY <1>1, <2>1
  <2> QED BY <1>0, <1>1, <2>2, AnswerMoves
<1>3. clock \in Nat /\ calls[c].key \in Keys /\ store \in [Keys -> [Replicas -> Nat]]
  BY <1>0, <1>2, FieldTypes DEF TypeOK, Moves
<1>4. clock' \in Nat /\ store' \in [Keys -> [Replicas -> Nat]]
  BY <1>1, <1>3
<1>5. \A k \in Keys, q \in Replicas : store'[k][q] = store[k][q] \/ store'[k][q] = clock + 1
  BY <1>1, <1>3
<1>6. \A d \in Calls : Live(d)' => Live(d) /\ calls'[d].got = calls[d].got
  BY <1>0, <1>2, MovesLive DEF Moves
<1>7. calls[c].status = "replicas"
  BY <1>1 DEF At
<1>8. Readings'
  BY <1>0, <1>1, <1>2, <1>5, <1>6, <1>7, EndedKept, ReadingsStep
<1>9. StageOK(c)' /\ AnswerOK(c)' /\ FlagsOK(c)' /\ ChecksOK(c)'
  BY <1>1, <1>2, WaitingOK
<1> QED BY <1>1, <1>2, <1>4, <1>8, <1>9, QuietStep

LEMMA ReadCopyHolds ==
    ASSUME IInv, NEW c \in Calls, NEW r \in Replicas, ReadCopy(c, r)
    PROVE  IInv'
<1>0. TypeOK /\ Readings
  BY DEF IInv
<1>1. PICK copies : /\ Answer(c, r, copies)
                    /\ \/ copies = {}
                       \/ /\ store[calls[c].key][r] # 0
                          /\ copies = {[at |-> store[calls[c].key][r], node |-> r]}
  BY DEF ReadCopy
<1>2. /\ At(c, "replicas") /\ clock' = clock /\ store' = store
      /\ heap' = heap /\ sessions' = sessions
  BY DEF ReadCopy
<1>3. clock \in Nat /\ calls[c].key \in Keys /\ store \in [Keys -> [Replicas -> Nat]]
  BY <1>0, <1>2, LiveCall, FieldTypes DEF TypeOK
<1>4. copies \in SUBSET Copy
  <2>1. store[calls[c].key][r] \in Nat
    BY <1>3
  <2> QED BY <1>1, <2>1 DEF Copy
<1>5. /\ Moves(c) /\ calls'[c].status = "replicas"
      /\ calls'[c].ts = calls[c].ts /\ calls'[c].end = calls[c].end
      /\ calls'[c].got = calls[c].got \cup copies
      /\ calls'[c].ryw = calls[c].ryw /\ calls'[c].mono = calls[c].mono
  BY <1>0, <1>1, <1>2, <1>4, AnswerMoves
<1>6. ASSUME NEW d \in Calls, Live(d)', NEW copy \in calls'[d].got
      PROVE  \/ Live(d) /\ copy \in calls[d].got
             \/ \E k \in Keys, q \in Replicas : copy.at = store[k][q] /\ store[k][q] # 0
  <2>1. Live(d)
    BY <1>0, <1>5, <1>6, MovesLive
  <2>2. CASE d # c
    BY <1>5, <1>6, <2>1, <2>2 DEF Moves
  <2>3. CASE d = c
    <3>1. copy \in calls[c].got \/ copy \in copies
      BY <1>5, <1>6, <2>3
    <3>2. ASSUME copy \in copies PROVE copy.at = store[calls[c].key][r] /\ store[calls[c].key][r] # 0
      BY <1>1, <3>2
    <3> QED BY <1>3, <2>1, <2>3, <3>1, <3>2
  <2> QED BY <2>2, <2>3
<1>7. calls[c].status = "replicas"
  BY <1>2 DEF At
<1>8. Readings'
  BY <1>0, <1>2, <1>5, <1>6, <1>7, EndedKept, ReadingsStep
<1>9. StageOK(c)' /\ AnswerOK(c)' /\ FlagsOK(c)' /\ ChecksOK(c)'
  BY <1>2, <1>5, WaitingOK
<1> QED BY <1>2, <1>3, <1>5, <1>8, <1>9, QuietStep

LEMMA PutReturnsHolds ==
    ASSUME IInv, NEW c \in Calls, PutReturns(c)
    PROVE  IInv'
<1>0. TypeOK /\ Readings
  BY DEF IInv
<1>1. /\ At(c, "replicas") /\ calls[c].op = "put" /\ clock' = clock + 1
      /\ store' = store /\ heap' = heap /\ sessions' = sessions
  BY DEF PutReturns
<1>2. /\ Moves(c) /\ calls'[c].status = "stamped" /\ calls'[c].ts = clock + 1
      /\ calls'[c].end = clock + 1 /\ calls'[c].got = calls[c].got
      /\ calls'[c].ryw = calls[c].ryw /\ calls'[c].mono = calls[c].mono
  BY <1>0, PutReturnsMoves
<1>3. clock' \in Nat /\ store' \in [Keys -> [Replicas -> Nat]]
  BY <1>0, <1>1 DEF TypeOK
<1>4. \A d \in Calls : Live(d)' => Live(d) /\ calls'[d].got = calls[d].got
  BY <1>0, <1>2, MovesLive DEF Moves
<1>5. ASSUME NEW d \in Calls, Ended(d)', d # c
      PROVE  Ended(d) /\ calls'[d].ts = calls[d].ts /\ calls'[d].end = calls[d].end
  BY <1>2, <1>4, <1>5 DEF Ended, Moves
<1>6. Readings'
  BY <1>0, <1>1, <1>2, <1>4, <1>5, ReadingsStep
<1>7. StageOK(c)' /\ AnswerOK(c)' /\ FlagsOK(c)' /\ ChecksOK(c)'
  BY <1>1, <1>2, WaitingOK
<1> QED BY <1>1, <1>2, <1>3, <1>6, <1>7, QuietStep

\* CheckReadYourWrites: the flag is set by the object's LastWriteTS, which is at least
\* that of every Put the session had finished, and is one of them if it is not 0.
LEMMA GetReturnsHolds ==
    ASSUME IInv, NEW c \in Calls, GetReturns(c)
    PROVE  IInv'
<1>0. TypeOK /\ Readings /\ Stages /\ PointerTold /\ ObjectsCaused
  BY DEF IInv
<1>1. /\ At(c, "replicas") /\ calls[c].op = "get" /\ clock' = clock
      /\ store' = store /\ heap' = heap /\ sessions' = sessions
  BY DEF GetReturns
<1>2. PICK latest \in calls[c].got :
             /\ Moves(c) /\ calls'[c].status = "ryw"
             /\ calls'[c].ts = TS(latest) /\ calls'[c].end = calls[c].end
             /\ calls'[c].got = {latest} /\ calls'[c].mono = calls[c].mono
             /\ calls'[c].ryw = (TS(latest) >= heap[calls[c].session].LastWriteTS)
  BY <1>0, GetReturnsMoves
<1> DEFINE w == heap[calls[c].session].LastWriteTS
<1>3. /\ Live(c) /\ StageOK(c) /\ calls[c].status = "replicas" /\ ~calls[c].mono
      /\ calls[c].session \in 1 .. Len(heap) /\ calls[c].got \subseteq Copy
      /\ calls'[c].op = "get" /\ calls'[c].id = calls[c].id /\ calls'[c].after = calls[c].after
  BY <1>0, <1>1, <1>2, FieldTypes DEF Stages, StageOK, Moves, At
<1>4. w \in Nat
  BY <1>0, <1>3, ObjectTypes
<1>5. TS(latest) \in Nat
  <2>1. latest.at \in Epoch + 1 .. clock
    BY <1>0, <1>3 DEF Readings
  <2>2. latest.node \in Replicas
    BY <1>3 DEF Copy
  <2>3. Skew[latest.node] \in Int /\ Epoch + Skew[latest.node] >= 0 /\ Epoch \in Nat /\ clock \in Nat
    BY <1>0, <2>2, SkewAssumption DEF TypeOK
  <2> QED BY <2>1, <2>3 DEF TS
<1>6. \A d \in Calls : Ended(d)' =>
          Ended(d) /\ calls'[d].ts = calls[d].ts /\ calls'[d].end = calls[d].end
  <2> SUFFICES ASSUME NEW d \in Calls, Ended(d)'
               PROVE  Ended(d) /\ calls'[d].ts = calls[d].ts /\ calls'[d].end = calls[d].end
    OBVIOUS
  <2>1. d # c
    BY <1>3 DEF Ended
  <2> QED BY <1>0, <1>2, <2>1, MovesLive DEF Ended, Moves
<1>7. \A d \in Calls : Live(d)' => Live(d) /\ calls'[d].got \subseteq calls[d].got
  BY <1>0, <1>2, MovesLive DEF Moves
<1>8. Readings'
  BY <1>0, <1>1, <1>6, <1>7, ReadingsStep
<1>9. StageOK(c)'
  BY <1>2, <1>3 DEF StageOK
<1>10. AnswerOK(c)'
  BY <1>2, <1>5 DEF AnswerOK, TS
<1>11. FlagsOK(c)'
  <2>1. ASSUME NEW d \in calls[c].after, calls'[c].ryw, calls'[d].op = "put"
        PROVE  calls'[d].ts <= calls'[c].ts
    <3>1. At(d, "done") /\ Told(calls[c].session, d) /\ d \in Calls
      BY <1>0, <1>3, FieldTypes DEF PointerTold
    <3>2. calls'[d].op = calls[d].op /\ calls'[d].ts = calls[d].ts
      BY <1>2, <3>1, MovesSettled DEF Settled
    <3>3. calls[d].ts <= w /\ w <= TS(latest)
      BY <1>2, <1>4, <1>5, <2>1, <3>1, <3>2 DEF Told
    <3>4. calls[d].ts \in Int
      BY <1>0, <3>1, LiveCall, FieldTypes
    <3> QED BY <1>2, <1>4, <1>5, <3>2, <3>3, <3>4
  <2> QED BY <1>2, <1>3, <2>1 DEF FlagsOK
<1>12. ChecksOK(c)'
  <2>1. ASSUME ~calls'[c].ryw
        PROVE  w > TS(latest) /\ Cause(calls[c].id, "put", w)'
    <3>1. w > TS(latest)
      <4>1. ~(TS(latest) >= w)
        BY <1>2, <2>1, Zenon
      <4> QED BY <1>4, <1>5, <4>1
    <3>2. w # 0
      BY <1>4, <1>5, <3>1
    <3>3. Cause(calls[c].id, "put", w)
      BY <1>0, <1>3, <3>2 DEF ObjectsCaused, Caused
    <3>4. PICK i, v : i = calls[c].id /\ v = w
      OBVIOUS
    <3>5. Cause(i, "put", v)'
      BY <1>2, <3>3, <3>4, MovesSettled, CauseStays
    <3>6. i = calls'[c].id /\ w' = w
      BY <1>1, <1>2, <3>4 DEF Moves
    <3> QED BY <3>1, <3>4, <3>5, <3>6
  <2>2. Cause(calls[c].id, "put", w)' => \E ts \in Nat : ts = w /\ Cause(calls[c].id, "put", ts)'
    <3>1. w' = w
      BY <1>1, <1>2 DEF Moves
    <3> QED BY <1>4, <3>1
  <2>3. calls'[c].ryw \/ \E ts \in Nat : ts > calls'[c].ts /\ Cause(calls[c].id, "put", ts)'
    BY <1>2, <2>1, <2>2
  <2> QED BY <1>2, <2>3 DEF ChecksOK
<1> QED BY <1>0, <1>1, <1>2, <1>8, <1>9, <1>10, <1>11, <1>12, QuietStep DEF TypeOK

\* CheckMonotonicRead: the same of LastReadTS and the Gets of the session.
LEMMA CheckHolds ==
    ASSUME IInv, NEW c \in Calls, CheckMonotonicRead(c)
    PROVE  IInv'
<1>0. TypeOK /\ Readings /\ Stages /\ Answered /\ PointerTold /\ FlagsMean /\ ObjectsCaused /\ ChecksCaused
  BY DEF IInv
<1>1. /\ At(c, "ryw") /\ clock' = clock
      /\ store' = store /\ heap' = heap /\ sessions' = sessions
  BY DEF CheckMonotonicRead
<1>2. /\ Moves(c) /\ calls'[c].status = "mono"
      /\ calls'[c].ts = calls[c].ts /\ calls'[c].end = calls[c].end
      /\ calls'[c].got = calls[c].got /\ calls'[c].ryw = calls[c].ryw
      /\ calls'[c].mono = (calls[c].ts >= heap[calls[c].session].LastReadTS)
  BY <1>0, CheckMoves
<1> DEFINE w == heap[calls[c].session].LastReadTS
<1>3. /\ Live(c) /\ StageOK(c) /\ calls[c].status = "ryw" /\ calls[c].op = "get"
      /\ calls[c].session \in 1 .. Len(heap)
      /\ calls'[c].op = "get" /\ calls'[c].id = calls[c].id /\ calls'[c].after = calls[c].after
  BY <1>0, <1>1, <1>2, FieldTypes DEF Stages, StageOK, Moves, At
<1>4. w \in Int
  BY <1>0, <1>3, ObjectTypes
<1>5. Returned(c) /\ AnswerOK(c) /\ FlagsOK(c) /\ ChecksOK(c) /\ calls[c].ts \in Nat
  BY <1>0, <1>3 DEF Returned, Answered, AnswerOK, FlagsMean, ChecksCaused
<1>6. Settled
  BY <1>2, MovesSettled
<1>7. \A d \in Calls : Live(d)' => Live(d) /\ calls'[d].got \subseteq calls[d].got
  BY <1>0, <1>2, MovesLive DEF Moves
<1>8. Readings'
  BY <1>0, <1>1, <1>2, <1>3, <1>7, EndedKept, ReadingsStep
<1>9. StageOK(c)'
  BY <1>2, <1>3 DEF StageOK
<1>10. AnswerOK(c)'
  BY <1>2, <1>5 DEF AnswerOK, TS
<1>11. FlagsOK(c)'
  <2>1. ASSUME NEW d \in calls[c].after
        PROVE  /\ At(d, "done") /\ Told(calls[c].session, d) /\ d \in Calls /\ calls[d].ts \in Int
               /\ calls'[d].op = calls[d].op /\ calls'[d].ts = calls[d].ts
    <3>1. At(d, "done") /\ Told(calls[c].session, d) /\ d \in Calls
      BY <1>0, <1>3, FieldTypes DEF PointerTold
    <3>2. calls[d].ts \in Int
      BY <1>0, <3>1, LiveCall, FieldTypes
    <3> QED BY <1>6, <3>1, <3>2 DEF Settled
  <2>2. ASSUME NEW d \in calls[c].after, calls'[c].mono, calls'[d].op = "get"
        PROVE  calls'[d].ts <= calls'[c].ts
    <3>1. calls[d].ts <= w /\ w <= calls[c].ts
      BY <1>2, <1>4, <1>5, <2>1, <2>2 DEF Told
    <3> QED BY <1>2, <1>4, <1>5, <2>1, <3>1
  <2>3. ASSUME NEW d \in calls[c].after, calls'[c].ryw, calls'[d].op = "put"
        PROVE  calls'[d].ts <= calls'[c].ts
    BY <1>2, <1>3, <1>5, <2>1, <2>3 DEF FlagsOK
  <2> QED BY <1>3, <2>2, <2>3 DEF FlagsOK
<1>12. ChecksOK(c)'
  <2>1. ASSUME ~calls'[c].mono
        PROVE  \E ts \in Nat : ts > calls'[c].ts /\ Cause(calls[c].id, "get", ts)'
    <3>1. w > calls[c].ts
      <4>1. ~(calls[c].ts >= w)
        BY <1>2, <2>1, Zenon
      <4> QED BY <1>4, <1>5, <4>1
    <3>2. w # 0 /\ w \in Nat
      BY <1>4, <1>5, <3>1
    <3>3. Cause(calls[c].id, "get", w)
      BY <1>0, <1>3, <3>2 DEF ObjectsCaused, Caused
    <3>4. PICK i, v : i = calls[c].id /\ v = w
      OBVIOUS
    <3>5. Cause(i, "get", v)'
      BY <1>6, <3>3, <3>4, CauseStays
    <3>6. i = calls'[c].id /\ v \in Nat /\ v > calls'[c].ts
      BY <1>2, <1>3, <3>1, <3>2, <3>4
    <3> QED BY <3>5, <3>6
  <2>2. calls'[c].ryw \/ \E ts \in Nat : ts > calls'[c].ts /\ Cause(calls[c].id, "put", ts)'
    <3>1. calls[c].ryw \/ \E ts \in Nat : ts > calls[c].ts /\ Cause(calls[c].id, "put", ts)
      BY <1>5 DEF ChecksOK
    <3>2. ASSUME NEW ts \in Nat, Cause(calls[c].id, "put", ts) PROVE Cause(calls[c].id, "put", ts)'
      <4>1. PICK i : i = calls[c].id
        OBVIOUS
      <4>2. Cause(i, "put", ts)'
        BY <1>6, <3>2, <4>1, CauseStays
      <4> QED BY <1>3, <4>1, <4>2
    <3> QED BY <1>2, <3>1, <3>2
  <2> QED BY <2>1, <2>2 DEF ChecksOK
<1> QED BY <1>0, <1>1, <1>2, <1>8, <1>9, <1>10, <1>11, <1>12, QuietStep DEF TypeOK

\* if ts > old { old = ts } keeps the newer of the two.
LEMMA NewerProps ==
    ASSUME NEW ts \in Int, NEW old \in Int
    PROVE  /\ Newer(ts, old) \in {ts, old} /\ ts <= Newer(ts, old) /\ old <= Newer(ts, old)
           /\ old \in Nat => Newer(ts, old) \in Nat
BY DEF Newer

\* The end of TrackWrite and TrackRead: c is done, and of the objects at most the one in
\* the map has changed, where it takes notice of c.
LEMMA TrackStep ==
    ASSUME IInv, NEW c \in Calls, At(c, "stamped") \/ At(c, "mono"),
           calls' = [calls EXCEPT ![c].status = "done"],
           clock' = clock, store' = store, sessions' = sessions, Grows, Len(heap') = Len(heap),
           NEW s, s = sessions[calls[c].id],
           \A a \in 1 .. Len(heap) : a # s => heap'[a] = heap[a],
           s # 0 => Told(s, c)',
           s # 0 => /\ \/ heap'[s].LastWriteTS = heap[s].LastWriteTS
                       \/ calls[c].op = "put" /\ heap'[s].LastWriteTS = calls[c].ts
                    /\ \/ heap'[s].LastReadTS = heap[s].LastReadTS
                       \/ calls[c].op = "get" /\ heap'[s].LastReadTS = calls[c].ts
    PROVE  IInv'
<1>0. /\ TypeOK /\ Stages /\ InMap /\ Owners /\ Readings /\ Answered /\ MapTold /\ PointerTold
      /\ FlagsMean /\ ObjectsCaused /\ ChecksCaused
  BY DEF IInv
<1>1. /\ Moves(c) /\ calls'[c].status = "done"
      /\ calls'[c].ts = calls[c].ts /\ calls'[c].end = calls[c].end
      /\ calls'[c].got = calls[c].got
      /\ calls'[c].ryw = calls[c].ryw /\ calls'[c].mono = calls[c].mono
  BY <1>0, DoneMoves
<1>2. Settled
  BY <1>1, MovesSettled
<1>3. TypeOK'
  BY <1>0, <1>1, MovesTypes DEF TypeOK
<1>4. InMap' /\ Owners' /\ PointerTold'
  BY <1>1, MovesKeep
<1>5. /\ Live(c) /\ StageOK(c) /\ calls[c].status # "replicas" /\ calls[c].id \in Ids
      /\ calls[c].status \in {"stamped", "mono"} /\ calls[c].op \in {"put", "get"}
      /\ calls'[c].op = calls[c].op /\ calls'[c].id = calls[c].id /\ calls'[c].out = calls[c].out
      /\ calls'[c].after = calls[c].after
  BY <1>0, <1>1, FieldTypes DEF Moves, Stages, At
<1>6. Readings'
  <2>1. \A d \in Calls : Live(d)' => Live(d) /\ calls'[d].got \subseteq calls[d].got
    BY <1>0, <1>1, MovesLive DEF Moves
  <2> QED BY <1>0, <1>1, <1>5, <2>1, EndedKept, ReadingsStep
<1>7. StageOK(c)' /\ AnswerOK(c)' /\ FlagsOK(c)' /\ ChecksOK(c)'
  <2>1. StageOK(c)'
    BY <1>1, <1>5 DEF StageOK
  <2>2. AnswerOK(c)'
    BY <1>0, <1>1, <1>5 DEF Answered, AnswerOK, Returned, TS
  <2>3. FlagsOK(c)'
    <3>1. ASSUME NEW d \in calls[c].after
          PROVE  calls'[d].op = calls[d].op /\ calls'[d].ts = calls[d].ts
      <4>1. d \in Calls /\ At(d, "done")
        BY <1>0, <1>5, FieldTypes DEF PointerTold
      <4> QED BY <1>2, <4>1 DEF Settled
    <3>2. FlagsOK(c)
      BY <1>0 DEF FlagsMean
    <3> QED BY <1>1, <1>5, <3>1, <3>2 DEF FlagsOK
  <2>4. ChecksOK(c)'
    <3>1. CASE calls[c].op = "put"
      BY <1>5, <3>1 DEF ChecksOK, Returned
    <3>2. CASE calls[c].op = "get"
      <4>1. Returned(c) /\ ChecksOK(c) /\ calls[c].status = "mono"
        BY <1>0, <1>5, <3>2 DEF Returned, ChecksCaused, StageOK
      <4>2. \A op \in {"put", "get"}, ts \in Nat :
                Cause(calls[c].id, op, ts) => Cause(calls[c].id, op, ts)'
        <5>1. PICK i : i = calls[c].id
          OBVIOUS
        <5>2. \A op \in {"put", "get"}, ts \in Nat : Cause(i, op, ts) => Cause(i, op, ts)'
          BY <1>2, CauseStays
        <5> QED BY <1>5, <5>1, <5>2
      <4> QED BY <1>1, <4>1, <4>2 DEF ChecksOK
    <3> QED BY <1>5, <3>1, <3>2
  <2> QED BY <2>1, <2>2, <2>3, <2>4
<1>8. Stages' /\ Answered' /\ FlagsMean' /\ ChecksCaused'
  <2>1. \A g \in Calls : (Live(g)' => StageOK(g)') /\ AnswerOK(g)' /\ FlagsOK(g)' /\ ChecksOK(g)'
    BY <1>1, <1>2, <1>7, OthersKeep DEF Moves
  <2> QED BY <2>1 DEF Stages, Answered, FlagsMean, ChecksCaused
<1>9. MapTold'
  <2>1. ASSUME NEW d \in Calls, At(d, "done")', ~calls'[d].out
        PROVE  Told(sessions[calls[d].id], d)'
    <3>1. CASE d = c
      <4>1. sessions[calls[c].id] = calls[c].session /\ calls[c].session # 0
        BY <1>0, <1>5, <2>1, <3>1, FieldTypes DEF InMap
      <4>2. Told(s, c)' /\ s = sessions[calls[c].id]
        BY <4>1
      <4> QED BY <1>5, <3>1, <4>2 DEF Told
    <3>2. CASE d # c
      <4>1. calls'[d] = calls[d] /\ At(d, "done") /\ Live(d)
        BY <1>0, <1>1, <2>1, <3>2, LiveCall DEF Moves, At
      <4>2. Told(sessions[calls[d].id], d)
        BY <1>0, <2>1, <4>1 DEF MapTold
      <4>3. sessions[calls[d].id] \in 1 .. Len(heap)
        BY <1>0, <2>1, <4>1, FieldTypes DEF InMap
      <4>4. PICK a \in 1 .. Len(heap) : a = sessions[calls[d].id]
        BY <4>3
      <4>5. Told(a, d)'
        BY <1>0, <1>2, <4>1, <4>2, <4>4, ToldStays
      <4> QED BY <4>1, <4>4, <4>5 DEF Told
    <3> QED BY <3>1, <3>2
  <2> QED BY <2>1 DEF MapTold
<1>10. ASSUME NEW a \in 1 .. Len(heap), NEW i \in Ids, Caused(a, i), a = s => i = calls[c].id
       PROVE  Caused(a, i)'
  <2>1. CASE a # s
    <3>1. heap'[a] = heap[a]
      BY <2>1
    <3> QED BY <1>2, <1>10, <3>1, CauseStays DEF Caused
  <2>2. CASE a = s
    <3>1. s # 0 /\ i = calls[c].id
      BY <1>10, <2>2
    <3>2. At(c, "done")' /\ c \in Calls
      BY <1>1 DEF At
    <3>3. calls[c].op = "put" => Cause(i, "put", calls[c].ts)'
      BY <1>1, <1>5, <3>1, <3>2 DEF Cause
    <3>4. calls[c].op = "get" => Cause(i, "get", calls[c].ts)'
      BY <1>1, <1>5, <3>1, <3>2 DEF Cause
    <3>5. ASSUME heap'[a].LastWriteTS # 0 PROVE Cause(i, "put", heap[a].LastWriteTS)'
      <4>1. CASE heap'[a].LastWriteTS = heap[a].LastWriteTS
        <5>1. PICK v : v = heap[a].LastWriteTS
          OBVIOUS
        <5>2. Cause(i, "put", v)'
          BY <1>2, <1>10, <3>5, <4>1, <5>1, CauseStays DEF Caused
        <5> QED BY <4>1, <5>1, <5>2
      <4>2. CASE calls[c].op = "put" /\ heap'[a].LastWriteTS = calls[c].ts
        BY <1>1, <3>3, <4>2
      <4> QED BY <2>2, <3>1, <4>1, <4>2
    <3>6. ASSUME heap'[a].LastReadTS # 0 PROVE Cause(i, "get", heap[a].LastReadTS)'
      <4>1. CASE heap'[a].LastReadTS = heap[a].LastReadTS
        <5>1. PICK v : v = heap[a].LastReadTS
          OBVIOUS
        <5>2. Cause(i, "get", v)'
          BY <1>2, <1>10, <3>6, <4>1, <5>1, CauseStays DEF Caused
        <5> QED BY <4>1, <5>1, <5>2
      <4>2. CASE calls[c].op = "get" /\ heap'[a].LastReadTS = calls[c].ts
        BY <1>1, <3>4, <4>2
      <4> QED BY <2>2, <3>1, <4>1, <4>2
    <3> QED BY <3>5, <3>6 DEF Caused
  <2> QED BY <2>1, <2>2
<1>11. ObjectsCaused'
  <2>1. ASSUME NEW i \in Ids, sessions'[i] # 0 PROVE Caused(sessions[i], i)'
    <3>1. PICK a \in 1 .. Len(heap) : a = sessions[i]
      BY <1>0, <2>1 DEF TypeOK
    <3>2. a = s => i = calls[c].id
      BY <1>0, <1>5, <2>1, <3>1 DEF Owners
    <3>3. Caused(a, i)'
      BY <1>0, <1>10, <2>1, <3>1, <3>2 DEF ObjectsCaused
    <3> QED BY <3>1, <3>3 DEF Caused
  <2>2. ASSUME NEW d \in Calls, Live(d)' PROVE Caused(calls[d].session, calls[d].id)'
    <3>1. Live(d) /\ calls'[d].session = calls[d].session /\ calls'[d].id = calls[d].id
      BY <1>0, <1>1, <2>2, MovesLive
    <3>2. PICK a \in 1 .. Len(heap), i \in Ids : a = calls[d].session /\ i = calls[d].id
      BY <1>0, <3>1, FieldTypes
    <3>3. a = s => i = calls[c].id
      BY <1>0, <1>5, <3>1, <3>2 DEF Owners
    <3>4. Caused(a, i)'
      BY <1>0, <1>10, <3>1, <3>2, <3>3 DEF ObjectsCaused
    <3> QED BY <3>1, <3>2, <3>4 DEF Caused, Cause
  <2> QED BY <2>1, <2>2 DEF ObjectsCaused
<1> QED BY <1>3, <1>4, <1>6, <1>8, <1>9, <1>11 DEF IInv

LEMMA TrackWriteHolds ==
    ASSUME IInv, NEW c \in Calls, TrackWrite(c)
    PROVE  IInv'
<1>0. TypeOK /\ Stages
  BY DEF IInv
<1>1. PICK s : s = sessions[calls[c].id]
  OBVIOUS
<1>2. /\ At(c, "stamped") /\ calls' = [calls EXCEPT ![c].status = "done"]
      /\ clock' = clock /\ store' = store /\ sessions' = sessions
      /\ heap' = IF s = 0 THEN heap
                 ELSE [heap EXCEPT ![s].LastWriteTS = Newer(calls[c].ts, @),
                                   ![s].lastAccessed = clock]
  BY <1>1 DEF TrackWrite
<1>3. Live(c) /\ calls[c].op = "put" /\ calls[c].ts \in Int /\ calls[c].id \in Ids
  BY <1>0, <1>2, LiveCall, FieldTypes DEF Stages, StageOK, At
<1>4. s \in 0 .. Len(heap) /\ heap \in Seq(Session) /\ Len(heap) \in Nat /\ clock \in Nat
  BY <1>0, <1>1, <1>3 DEF TypeOK
<1>5. calls'[c].op = "put" /\ calls'[c].ts = calls[c].ts
  BY <1>0, <1>2, <1>3, DoneMoves DEF Moves
<1>6. \A a \in 1 .. Len(heap) : heap[a] \in Session /\ heap[a].LastWriteTS \in Nat /\ heap[a].LastReadTS \in Int
  BY <1>0, ObjectTypes
<1>7. CASE s = 0
  <2>1. heap' = heap
    BY <1>2, <1>7
  <2>2. Grows
    BY <1>4, <1>6, <2>1 DEF Grows
  <2> QED BY <1>1, <1>2, <1>7, <2>1, <2>2, TrackStep
<1>8. CASE s # 0
  <2>1. s \in 1 .. Len(heap)
    BY <1>4, <1>8
  <2> DEFINE n == Newer(calls[c].ts, heap[s].LastWriteTS)
             obj == [heap[s] EXCEPT !.LastWriteTS = n, !.lastAccessed = clock]
  <2>2. n \in Nat /\ calls[c].ts <= n /\ heap[s].LastWriteTS <= n /\ n \in {calls[c].ts, heap[s].LastWriteTS}
    <3>1. heap[s].LastWriteTS \in Nat /\ heap[s].LastWriteTS \in Int
      BY <1>6, <2>1
    <3> QED BY <1>3, <3>1, NewerProps
  <2>3. heap' = [heap EXCEPT ![s] = obj]
    BY <1>2, <1>4, <1>8, <2>1
  <2> HIDE DEF n
  <2>4. obj \in Session /\ obj.LastWriteTS = n /\ obj.LastReadTS = heap[s].LastReadTS
    BY <1>4, <1>6, <2>1, <2>2 DEF Session
  <2> HIDE DEF obj
  <2>5. /\ heap' \in Seq(Session) /\ Len(heap') = Len(heap) /\ heap'[s] = obj
        /\ \A a \in 1 .. Len(heap) : a # s => heap'[a] = heap[a]
    BY <1>4, <2>1, <2>3, <2>4
  <2>6. Grows
    <3>1. ASSUME NEW a \in 1 .. Len(heap)
          PROVE  /\ heap[a].LastWriteTS <= heap'[a].LastWriteTS
                 /\ heap[a].LastReadTS <= heap'[a].LastReadTS
      <4>1. heap[a].LastWriteTS \in Nat /\ heap[a].LastReadTS \in Int
        BY <1>6
      <4>2. CASE a = s
        BY <2>2, <2>4, <2>5, <4>1, <4>2
      <4>3. CASE a # s
        BY <2>5, <4>1, <4>3
      <4> QED BY <4>2, <4>3
    <3>2. Len(heap) <= Len(heap')
      BY <1>4, <2>5
    <3> QED BY <2>5, <3>1, <3>2 DEF Grows
  <2>7. Told(s, c)'
    BY <1>5, <2>2, <2>4, <2>5 DEF Told
  <2>8. /\ \/ heap'[s].LastWriteTS = heap[s].LastWriteTS
           \/ calls[c].op = "put" /\ heap'[s].LastWriteTS = calls[c].ts
        /\ heap'[s].LastReadTS = heap[s].LastReadTS
    BY <1>3, <2>2, <2>4, <2>5
  <2> QED BY <1>1, <1>2, <2>5, <2>6, <2>7, <2>8, TrackStep
<1> QED BY <1>7, <1>8

LEMMA TrackReadHolds ==
    ASSUME IInv, NEW c \in Calls, TrackRead(c)
    PROVE  IInv'
<1>0. TypeOK /\ Stages
  BY DEF IInv
<1>1. PICK s : s = sessions[calls[c].id]
  OBVIOUS
<1>2. /\ At(c, "mono") /\ calls' = [calls EXCEPT ![c].status = "done"]
      /\ clock' = clock /\ store' = store /\ sessions' = sessions
      /\ heap' = IF s = 0 THEN heap
                 ELSE [heap EXCEPT ![s].LastReadTS = Newer(calls[c].ts, @),
                                   ![s].lastAccessed = clock]
  BY <1>1 DEF TrackRead
<1>3. Live(c) /\ calls[c].op = "get" /\ calls[c].ts \in Int /\ calls[c].id \in Ids
  BY <1>0, <1>2, LiveCall, FieldTypes DEF Stages, StageOK, At
<1>4. s \in 0 .. Len(heap) /\ heap \in Seq(Session) /\ Len(heap) \in Nat /\ clock \in Nat
  BY <1>0, <1>1, <1>3 DEF TypeOK
<1>5. calls'[c].op = "get" /\ calls'[c].ts = calls[c].ts
  BY <1>0, <1>2, <1>3, DoneMoves DEF Moves
<1>6. \A a \in 1 .. Len(heap) : heap[a] \in Session /\ heap[a].LastWriteTS \in Nat /\ heap[a].LastReadTS \in Int
  BY <1>0, ObjectTypes
<1>7. CASE s = 0
  <2>1. heap' = heap
    BY <1>2, <1>7
  <2>2. Grows
    BY <1>4, <1>6, <2>1 DEF Grows
  <2> QED BY <1>1, <1>2, <1>7, <2>1, <2>2, TrackStep
<1>8. CASE s # 0
  <2>1. s \in 1 .. Len(heap)
    BY <1>4, <1>8
  <2> DEFINE n == Newer(calls[c].ts, heap[s].LastReadTS)
             obj == [heap[s] EXCEPT !.LastReadTS = n, !.lastAccessed = clock]
  <2>2. n \in Int /\ calls[c].ts <= n /\ heap[s].LastReadTS <= n /\ n \in {calls[c].ts, heap[s].LastReadTS}
    BY <1>3, <1>6, <2>1, NewerProps
  <2>3. heap' = [heap EXCEPT ![s] = obj]
    BY <1>2, <1>4, <1>8, <2>1
  <2> HIDE DEF n
  <2>4. obj \in Session /\ obj.LastReadTS = n /\ obj.LastWriteTS = heap[s].LastWriteTS
    BY <1>4, <1>6, <2>1, <2>2 DEF Session
  <2> HIDE DEF obj
  <2>5. /\ heap' \in Seq(Session) /\ Len(heap') = Len(heap) /\ heap'[s] = obj
        /\ \A a \in 1 .. Len(heap) : a # s => heap'[a] = heap[a]
    BY <1>4, <2>1, <2>3, <2>4
  <2>6. Grows
    <3>1. ASSUME NEW a \in 1 .. Len(heap)
          PROVE  /\ heap[a].LastWriteTS <= heap'[a].LastWriteTS
                 /\ heap[a].LastReadTS <= heap'[a].LastReadTS
      <4>1. heap[a].LastWriteTS \in Int /\ heap[a].LastReadTS \in Int
        BY <1>6
      <4>2. CASE a = s
        BY <2>2, <2>4, <2>5, <4>1, <4>2
      <4>3. CASE a # s
        BY <2>5, <4>1, <4>3
      <4> QED BY <4>2, <4>3
    <3>2. Len(heap) <= Len(heap')
      BY <1>4, <2>5
    <3> QED BY <2>5, <3>1, <3>2 DEF Grows
  <2>7. Told(s, c)'
    BY <1>5, <2>2, <2>4, <2>5 DEF Told
  <2>8. /\ heap'[s].LastWriteTS = heap[s].LastWriteTS
        /\ \/ heap'[s].LastReadTS = heap[s].LastReadTS
           \/ calls[c].op = "get" /\ heap'[s].LastReadTS = calls[c].ts
    BY <1>3, <2>2, <2>4, <2>5
  <2> QED BY <1>1, <1>2, <2>5, <2>6, <2>7, <2>8, TrackStep
<1> QED BY <1>7, <1>8

-----------------------------------------------------------------------------
(***************************************************************************)
(* Steps in which no handler gets on                                       *)
(***************************************************************************)

\* A handler that is there after the step was there, with the same fields; the map may
\* have lost its session.
Keeps(d) ==
    Live(d)' =>
        /\ Live(d) /\ (calls[d].out => calls'[d].out)
        /\ calls'[d].op = calls[d].op /\ calls'[d].id = calls[d].id
        /\ calls'[d].session = calls[d].session /\ calls'[d].after = calls[d].after
        /\ calls'[d].ts = calls[d].ts /\ calls'[d].end = calls[d].end
        /\ calls'[d].got = calls[d].got /\ calls'[d].status = calls[d].status
        /\ calls'[d].ryw = calls[d].ryw /\ calls'[d].mono = calls[d].mono

LEMMA PassiveStep ==
    ASSUME IInv, TypeOK', Readings', heap' = heap, Settled, \A d \in Calls : Keeps(d),
           \A i \in Ids : sessions'[i] \in {sessions[i], 0},
           \A d \in Calls : (Live(d)' /\ ~calls'[d].out)
                               => sessions'[calls[d].id] = sessions[calls[d].id]
    PROVE  IInv'
<1>0. /\ TypeOK /\ Stages /\ InMap /\ Owners /\ Answered /\ MapTold /\ PointerTold
      /\ FlagsMean /\ ObjectsCaused /\ ChecksCaused
  BY DEF IInv
<1>1. \A i \in Ids, op \in {"put", "get"}, ts \in Int : Cause(i, op, ts) => Cause(i, op, ts)'
  BY CauseStays
<1>2. \A d \in Calls : Live(d) => calls[d].id \in Ids /\ calls[d].session # 0
  BY <1>0, FieldTypes
<1>3. Stages'
  BY <1>0 DEF Stages, StageOK, Keeps
<1>4. InMap'
  BY <1>0 DEF InMap, Keeps
<1>5. Owners'
  BY <1>0, <1>2 DEF Owners, Keeps
<1>6. Answered'
  BY <1>0 DEF Answered, AnswerOK, Returned, Keeps, TS
<1>7. MapTold'
  <2>1. ASSUME NEW d \in Calls, At(d, "done")', ~calls'[d].out
        PROVE  Told(sessions[calls[d].id], d)'
    <3>1. Live(d)'
      BY <2>1 DEF Live, At
    <3>2. At(d, "done") /\ ~calls[d].out /\ sessions'[calls'[d].id] = sessions[calls[d].id]
      BY <2>1, <3>1 DEF Keeps, At
    <3>3. Told(sessions[calls[d].id], d)
      BY <1>0, <3>2 DEF MapTold
    <3> QED BY <3>1, <3>2, <3>3 DEF Told, Keeps
  <2> QED BY <2>1 DEF MapTold
<1>8. ASSUME NEW g \in Calls, Live(g)', NEW d \in calls'[g].after
      PROVE  At(d, "done") /\ At(d, "done")' /\ calls'[d].op = calls[d].op /\ calls'[d].ts = calls[d].ts
  <2>1. Live(g) /\ d \in calls[g].after
    BY <1>8 DEF Keeps
  <2>2. d \in Calls /\ At(d, "done")
    BY <1>0, <2>1, FieldTypes DEF PointerTold
  <2> QED BY <2>2 DEF Settled
<1>9. PointerTold'
  BY <1>0, <1>8 DEF PointerTold, Told, Keeps
<1>10. FlagsMean'
  BY <1>0, <1>8 DEF FlagsMean, FlagsOK, Keeps
<1>11. ASSUME NEW a \in 1 .. Len(heap), NEW i \in Ids, Caused(a, i) PROVE Caused(a, i)'
  <2>1. heap[a].LastWriteTS \in Int /\ heap[a].LastReadTS \in Int
    BY <1>0, ObjectTypes
  <2> QED BY <1>1, <1>11, <2>1 DEF Caused
<1>12. ObjectsCaused'
  <2>1. ASSUME NEW i \in Ids, sessions'[i] # 0 PROVE Caused(sessions[i], i)'
    <3>1. PICK a \in 1 .. Len(heap) : a = sessions[i] /\ a = sessions'[i]
      BY <1>0, <2>1 DEF TypeOK
    <3>2. Caused(a, i)'
      BY <1>0, <1>11, <2>1, <3>1 DEF ObjectsCaused
    <3> QED BY <3>1, <3>2
  <2>2. ASSUME NEW d \in Calls, Live(d)' PROVE Caused(calls[d].session, calls[d].id)'
    <3>1. Live(d) /\ calls'[d].session = calls[d].session /\ calls'[d].id = calls[d].id
      BY <2>2 DEF Keeps
    <3>2. PICK a \in 1 .. Len(heap), i \in Ids : a = calls[d].session /\ i = calls[d].id
      BY <1>0, <3>1, FieldTypes
    <3>3. Caused(a, i)'
      BY <1>0, <1>11, <3>1, <3>2 DEF ObjectsCaused
    <3> QED BY <3>1, <3>2, <3>3
  <2> QED BY <2>1, <2>2 DEF ObjectsCaused
<1>13. ChecksCaused'
  <2> SUFFICES ASSUME NEW g \in Calls, Returned(g)' PROVE ChecksOK(g)'
    BY DEF ChecksCaused, ChecksOK
  <2>1. Live(g)' /\ Returned(g) /\ ChecksOK(g) /\ calls[g].id \in Ids
    BY <1>0, <1>2 DEF Returned, Keeps, ChecksCaused
  <2>2. \A op \in {"put", "get"}, ts \in Nat : Cause(calls[g].id, op, ts) => Cause(calls[g].id, op, ts)'
    BY <1>1, <2>1 DEF Keeps
  <2> QED BY <2>1, <2>2 DEF ChecksOK, Keeps
<1> QED BY <1>3, <1>4, <1>5, <1>6, <1>7, <1>9, <1>10, <1>12, <1>13 DEF IInv

LEMMA StoreElsewhereHolds ==
    ASSUME IInv, NEW k \in Keys, NEW r \in Replicas, StoreElsewhere(k, r)
    PROVE  IInv'
<1>0. TypeOK /\ Readings
  BY DEF IInv
<1>1. /\ clock' = clock + 1 /\ store' = [store EXCEPT ![k][r] = clock + 1]
      /\ heap' = heap /\ sessions' = sessions /\ calls' = calls
  BY DEF StoreElsewhere
<1>2. clock \in Nat /\ store \in [Keys -> [Replicas -> Nat]]
  BY <1>0 DEF TypeOK
<1>3. TypeOK'
  <2>1. clock' \in Nat /\ store' \in [Keys -> [Replicas -> Nat]]
    BY <1>1, <1>2
  <2> QED BY <1>0, <1>1, <2>1 DEF TypeOK, Live, At
<1>4. \A d \in Calls : Keeps(d) /\ (Ended(d)' <=> Ended(d)) /\ (Live(d)' <=> Live(d))
  BY <1>1 DEF Keeps, Ended, Live, At
<1>5. \A l \in Keys, q \in Replicas : store'[l][q] = store[l][q] \/ store'[l][q] = clock + 1
  BY <1>1, <1>2
<1>6. Readings'
  BY <1>0, <1>1, <1>4, <1>5, ReadingsStep
<1>7. Settled
  BY <1>1 DEF Settled, At
<1> QED BY <1>1, <1>3, <1>4, <1>6, <1>7, PassiveStep

LEMMA FailsHolds ==
    ASSUME IInv, NEW c \in Calls, Fails(c)
    PROVE  IInv'
<1>0. TypeOK /\ Readings
  BY DEF IInv
<1>1. /\ At(c, "replicas") /\ calls' = [calls EXCEPT ![c] = Failed]
      /\ clock' = clock /\ store' = store /\ heap' = heap /\ sessions' = sessions
  BY DEF Fails
<1>2. /\ calls'[c] = Failed /\ \A d \in Calls \ {c} : calls'[d] = calls[d]
      /\ calls' \in [Calls -> Call \cup {Unused, Failed}]
  BY <1>0, <1>1 DEF TypeOK
<1>3. ~Live(c)'
  BY <1>2 DEF Live, At, Failed
<1>4. \A d \in Calls : Live(d)' => d # c /\ calls'[d] = calls[d] /\ Live(d)
  BY <1>2, <1>3 DEF Live, At
<1>5. \A d \in Calls : Keeps(d) /\ (Ended(d)' => Ended(d))
  BY <1>4 DEF Keeps, Ended
<1>6. Readings'
  BY <1>0, <1>1, <1>4, <1>5, ReadingsStep DEF Ended
<1>7. Settled
  <2>1. ~At(c, "done")
    BY <1>1 DEF At
  <2> QED BY <1>2, <2>1 DEF Settled, At
<1>8. TypeOK'
  BY <1>0, <1>1, <1>2, <1>4 DEF TypeOK
<1> QED BY <1>1, <1>5, <1>6, <1>7, <1>8, PassiveStep

\* The reaper takes sessions out of the map; the objects and the handlers stay.
LEMMA ReapHolds ==
    ASSUME IInv, reap
    PROVE  IInv'
<1>0. TypeOK /\ Readings
  BY DEF IInv
<1>1. /\ sessions' = [i \in Ids |-> IF i \in Idle THEN 0 ELSE sessions[i]]
      /\ calls' = [c \in Calls |-> IF Live(c) /\ calls[c].id \in Idle
                                   THEN [calls[c] EXCEPT !.out = TRUE] ELSE calls[c]]
      /\ clock' = clock /\ store' = store /\ heap' = heap
  BY DEF reap, Forget
<1>2. ASSUME NEW d \in Calls, Live(d)
      PROVE  /\ calls'[d] \in Call /\ Live(d)'
             /\ calls[d].out => calls'[d].out
             /\ calls'[d].op = calls[d].op /\ calls'[d].id = calls[d].id
             /\ calls'[d].session = calls[d].session /\ calls'[d].after = calls[d].after
             /\ calls'[d].ts = calls[d].ts /\ calls'[d].end = calls[d].end
             /\ calls'[d].got = calls[d].got /\ calls'[d].status = calls[d].status
             /\ calls'[d].ryw = calls[d].ryw /\ calls'[d].mono = calls[d].mono
             /\ ~calls'[d].out => calls[d].id \notin Idle
  <2>1. calls[d] \in Call
    BY <1>0, <1>2, LiveCall
  <2>2. CASE calls[d].id \in Idle
    <3> DEFINE rec == [calls[d] EXCEPT !.out = TRUE]
    <3>1. calls'[d] = rec
      BY <1>1, <1>2, <2>2
    <3>2. /\ rec \in Call /\ rec.out = TRUE
          /\ rec.op = calls[d].op /\ rec.id = calls[d].id
          /\ rec.session = calls[d].session /\ rec.after = calls[d].after
          /\ rec.ts = calls[d].ts /\ rec.end = calls[d].end
          /\ rec.got = calls[d].got /\ rec.status = calls[d].status
          /\ rec.ryw = calls[d].ryw /\ rec.mono = calls[d].mono
      BY <2>1 DEF Call
    <3> HIDE DEF rec
    <3>3. Live(d)'
      BY <1>2, <3>1, <3>2 DEF Live, At
    <3> QED BY <3>1, <3>2, <3>3
  <2>3. CASE calls[d].id \notin Idle
    <3>1. calls'[d] = calls[d]
      BY <1>1, <2>3
    <3> QED BY <1>2, <2>1, <2>3, <3>1 DEF Live, At
  <2> QED BY <2>2, <2>3
<1>3. ASSUME NEW d \in Calls, ~Live(d)
      PROVE  calls'[d] = calls[d] /\ ~Live(d)' /\ calls'[d] \in {Unused, Failed}
  <2>1. calls'[d] = calls[d]
    BY <1>1, <1>3
  <2> QED BY <1>0, <1>3, <2>1, LiveCall DEF Live, At
<1>4. \A d \in Calls : Keeps(d) /\ (Live(d)' => Live(d)) /\ (Ended(d)' => Ended(d))
  BY <1>2, <1>3 DEF Keeps, Ended
<1>5. Settled
  <2> SUFFICES ASSUME NEW d \in Calls, At(d, "done")
               PROVE  /\ At(d, "done")' /\ calls'[d].op = calls[d].op
                      /\ calls'[d].id = calls[d].id /\ calls'[d].ts = calls[d].ts
    BY DEF Settled
  <2>1. Live(d)
    BY <1>0, LiveCall
  <2> QED BY <1>2, <2>1 DEF At
<1>6. Readings'
  <2>1. \A d \in Calls : Live(d)' => Live(d) /\ calls'[d].got = calls[d].got
    BY <1>4 DEF Keeps
  <2>2. \A d \in Calls : Ended(d)' => Ended(d) /\ calls'[d].ts = calls[d].ts /\ calls'[d].end = calls[d].end
    BY <1>4 DEF Keeps, Ended
  <2> QED BY <1>0, <1>1, <2>1, <2>2, ReadingsStep
<1>7. \A i \in Ids : sessions'[i] \in {sessions[i], 0}
  BY <1>1
<1>8. TypeOK'
  <2>1. calls' \in [Calls -> Call \cup {Unused, Failed}]
    <3>1. \A d \in Calls : calls'[d] \in Call \cup {Unused, Failed}
      BY <1>2, <1>3
    <3>2. \E F : F = calls' /\ F = [d \in Calls |-> F[d]]
      BY <1>1
    <3> QED BY <3>1, <3>2
  <2>2. sessions' \in [Ids -> 0 .. Len(heap')]
    <3>1. \A i \in Ids : sessions[i] \in 0 .. Len(heap) /\ 0 \in 0 .. Len(heap)
      BY <1>0 DEF TypeOK
    <3> QED BY <1>1, <3>1
  <2>3. \A d \in Calls : Live(d)' => calls'[d].session <= Len(heap')
    BY <1>0, <1>1, <1>4 DEF Keeps, TypeOK
  <2> QED BY <1>0, <1>1, <2>1, <2>2, <2>3 DEF TypeOK
<1>9. \A d \in Calls : (Live(d)' /\ ~calls'[d].out) => sessions'[calls[d].id] = sessions[calls[d].id]
  BY <1>0, <1>1, <1>2, <1>4, FieldTypes
<1> QED BY <1>1, <1>4, <1>5, <1>6, <1>7, <1>8, <1>9, PassiveStep

\* GetOrCreate gives the session's object, if it is in the map, or a fresh one.
LEMMA GetOrCreateProps ==
    ASSUME TypeOK, NEW i \in Ids, GetOrCreate(i)
    PROVE  /\ Grows
           /\ sessions' \in [Ids -> 0 .. Len(heap')] /\ sessions'[i] \in 1 .. Len(heap')
           /\ \A a \in 1 .. Len(heap) : /\ heap'[a].LastWriteTS = heap[a].LastWriteTS
                                        /\ heap'[a].LastReadTS = heap[a].LastReadTS
           /\ \/ sessions[i] # 0 /\ sessions' = sessions
              \/ /\ sessions[i] = 0 /\ sessions'[i] = Len(heap) + 1
                 /\ heap'[Len(heap) + 1].LastWriteTS = 0
                 /\ heap'[Len(heap) + 1].LastReadTS = 0
                 /\ \A j \in Ids \ {i} : sessions'[j] = sessions[j]
<1>1. /\ heap \in Seq(Session) /\ Len(heap) \in Nat /\ clock \in Nat
      /\ sessions \in [Ids -> 0 .. Len(heap)]
  BY DEF TypeOK
<1>2. \A a \in 1 .. Len(heap) : heap[a] \in Session /\ heap[a].LastWriteTS \in Int /\ heap[a].LastReadTS \in Int
  BY ObjectTypes
<1>3. CASE sessions[i] # 0
  <2>1. PICK s \in 1 .. Len(heap) : s = sessions[i]
    BY <1>1, <1>3
  <2> DEFINE obj == [heap[s] EXCEPT !.lastAccessed = clock]
  <2>2. heap' = [heap EXCEPT ![s] = obj] /\ sessions' = sessions
    BY <1>1, <1>3, <2>1 DEF GetOrCreate
  <2>3. /\ obj \in Session /\ obj.LastWriteTS = heap[s].LastWriteTS
        /\ obj.LastReadTS = heap[s].LastReadTS
    BY <1>1, <1>2, <2>1 DEF Session
  <2> HIDE DEF obj
  <2>4. /\ heap' \in Seq(Session) /\ Len(heap') = Len(heap) /\ heap'[s] = obj
        /\ \A a \in 1 .. Len(heap) : a # s => heap'[a] = heap[a]
    BY <1>1, <2>1, <2>2, <2>3
  <2>5. \A a \in 1 .. Len(heap) : /\ heap'[a].LastWriteTS = heap[a].LastWriteTS
                                  /\ heap'[a].LastReadTS = heap[a].LastReadTS
    BY <2>3, <2>4
  <2>6. Grows
    BY <1>1, <1>2, <2>4, <2>5 DEF Grows
  <2> QED BY <1>1, <1>3, <2>1, <2>2, <2>4, <2>5, <2>6
<1>4. CASE sessions[i] = 0
  <2> DEFINE obj == [LastWriteTS |-> 0, LastReadTS |-> 0, lastAccessed |-> clock]
  <2>1. heap' = Append(heap, obj) /\ sessions' = [sessions EXCEPT ![i] = Len(heap) + 1]
    BY <1>4 DEF GetOrCreate
  <2>2. obj \in Session /\ obj.LastWriteTS = 0 /\ obj.LastReadTS = 0
    BY <1>1 DEF Session
  <2> HIDE DEF obj
  <2>3. /\ heap' \in Seq(Session) /\ Len(heap') = Len(heap) + 1 /\ heap'[Len(heap) + 1] = obj
        /\ \A a \in 1 .. Len(heap) : heap'[a] = heap[a]
    BY <1>1, <2>1, <2>2
  <2>4. Grows
    BY <1>1, <1>2, <2>3 DEF Grows
  <2>5. /\ sessions'[i] = Len(heap) + 1 /\ \A j \in Ids \ {i} : sessions'[j] = sessions[j]
        /\ sessions' \in [Ids -> 0 .. Len(heap')]
    <3>1. 0 .. Len(heap) \subseteq 0 .. Len(heap') /\ Len(heap) + 1 \in 0 .. Len(heap')
      BY <1>1, <2>3
    <3> HIDE DEF obj
    <3> QED BY <1>1, <2>1, <3>1
  <2>6. sessions'[i] \in 1 .. Len(heap')
    BY <1>1, <2>3, <2>5
  <2> QED BY <1>4, <2>2, <2>3, <2>4, <2>5, <2>6
<1> QED BY <1>3, <1>4

LEMMA BeginHolds ==
    ASSUME IInv, NEW c \in Calls, NEW op \in {"put", "get"}, NEW i \in Ids, NEW k \in Keys,
           Begin(c, op, i, k)
    PROVE  IInv'
<1>0. /\ TypeOK /\ Stages /\ InMap /\ Owners /\ Readings /\ Answered /\ MapTold /\ PointerTold
      /\ FlagsMean /\ ObjectsCaused /\ ChecksCaused
  BY DEF IInv
<1> DEFINE over == {d \in Calls : At(d, "done") /\ calls[d].id = i /\ ~calls[d].out}
<1>1. PICK s : s = sessions'[i]
  OBVIOUS
<1> DEFINE rec == [op |-> op, id |-> i, key |-> k, session |-> s,
                   waiting |-> Replicas, got |-> {}, ts |-> 0, end |-> 0,
                   ryw |-> FALSE, mono |-> FALSE,
                   status |-> "replicas", out |-> FALSE, after |-> over]
<1>2. /\ At(c, "unused") /\ GetOrCreate(i) /\ calls' = [calls EXCEPT ![c] = rec]
      /\ clock' = clock /\ store' = store
  BY <1>1 DEF Begin
<1>3. /\ Grows
      /\ sessions' \in [Ids -> 0 .. Len(heap')] /\ s \in 1 .. Len(heap')
      /\ \A a \in 1 .. Len(heap) : /\ heap'[a].LastWriteTS = heap[a].LastWriteTS
                                   /\ heap'[a].LastReadTS = heap[a].LastReadTS
      /\ \/ sessions[i] # 0 /\ sessions' = sessions
         \/ /\ sessions[i] = 0 /\ s = Len(heap) + 1
            /\ heap'[s].LastWriteTS = 0 /\ heap'[s].LastReadTS = 0
            /\ \A j \in Ids \ {i} : sessions'[j] = sessions[j]
  BY <1>0, <1>1, <1>2, GetOrCreateProps
<1>4. Len(heap) \in Nat /\ Len(heap') \in Nat /\ Len(heap) <= Len(heap')
  BY <1>0, <1>3 DEF TypeOK, Grows
<1>5. rec \in Call
  BY <1>3, <1>4 DEF Call
<1>6. /\ rec.op = op /\ rec.id = i /\ rec.session = s /\ rec.got = {} /\ ~rec.ryw /\ ~rec.mono
      /\ rec.status = "replicas" /\ rec.out = FALSE /\ rec.after = over
  OBVIOUS
<1> HIDE DEF rec
<1>7. /\ calls'[c] = rec /\ \A d \in Calls \ {c} : calls'[d] = calls[d]
      /\ calls' \in [Calls -> Call \cup {Unused, Failed}]
  BY <1>0, <1>2, <1>5 DEF TypeOK
<1>8. ~Live(c) /\ ~At(c, "done") /\ Live(c)'
  BY <1>2, <1>6, <1>7 DEF Live, At
<1>9. \A d \in Calls \ {c} : (Live(d)' <=> Live(d)) /\ (At(d, "done")' <=> At(d, "done"))
  BY <1>7 DEF Live, At
<1>10. Settled
  BY <1>7, <1>8 DEF Settled, At
<1>11. \A d \in Calls : Live(d) => /\ calls[d].id \in Ids /\ calls[d].session \in 1 .. Len(heap)
                                   /\ calls[d].after \subseteq Calls
  BY <1>0, FieldTypes
\* The map still has the object of every handler whose session it has not lost.
<1>12. ASSUME NEW d \in Calls, Live(d), ~calls[d].out
       PROVE  /\ sessions[calls[d].id] = calls[d].session
              /\ sessions'[calls[d].id] = calls[d].session
  <2>1. sessions[calls[d].id] = calls[d].session /\ calls[d].session # 0
    BY <1>0, <1>11, <1>12 DEF InMap
  <2> QED BY <1>3, <1>11, <1>12, <2>1
<1>13. TypeOK'
  <2>1. \A d \in Calls : Live(d)' => calls'[d].session <= Len(heap')
    BY <1>3, <1>4, <1>6, <1>7, <1>9, <1>11
  <2> QED BY <1>0, <1>2, <1>3, <1>7, <2>1 DEF TypeOK, Grows
<1>14. Stages' /\ Answered' /\ FlagsMean' /\ ChecksCaused'
  <2>1. \A g \in Calls \ {c} : (Live(g)' => StageOK(g)') /\ AnswerOK(g)' /\ FlagsOK(g)' /\ ChecksOK(g)'
    BY <1>7, <1>10, OthersKeep
  <2>2. StageOK(c)' /\ AnswerOK(c)' /\ FlagsOK(c)' /\ ChecksOK(c)'
    <3>1. ~Returned(c)'
      BY <1>6, <1>7 DEF Returned
    <3> QED BY <1>6, <1>7, <3>1 DEF StageOK, AnswerOK, FlagsOK, ChecksOK
  <2> QED BY <2>1, <2>2 DEF Stages, Answered, FlagsMean, ChecksCaused
<1>15. InMap'
  BY <1>1, <1>6, <1>7, <1>9, <1>12 DEF InMap
<1>16. Owners'
  <2>1. \A j \in Ids : sessions[j] \in 0 .. Len(heap)
    BY <1>0 DEF TypeOK
  <2>2. ASSUME NEW j \in Ids, NEW l \in Ids, sessions'[j] = sessions'[l], sessions'[j] # 0
        PROVE  j = l
    BY <1>0, <1>1, <1>3, <1>4, <2>1, <2>2 DEF Owners
  <2>3. ASSUME NEW j \in Ids, NEW d \in Calls, Live(d)', sessions'[j] = calls'[d].session
        PROVE  calls'[d].id = j
    <3>1. CASE d = c
      <4>1. sessions'[j] = sessions'[i] /\ s # 0
        BY <1>1, <1>3, <1>6, <1>7, <2>3, <3>1
      <4> QED BY <1>1, <1>6, <1>7, <2>2, <3>1, <4>1
    <3>2. CASE d # c
      <4>1. Live(d) /\ calls'[d] = calls[d] /\ calls[d].session \in 1 .. Len(heap)
        BY <1>7, <1>9, <1>11, <2>3, <3>2
      <4>2. sessions'[j] = sessions[j]
        BY <1>1, <1>3, <1>4, <2>3, <4>1
      <4> QED BY <1>0, <2>3, <4>1, <4>2 DEF Owners
    <3> QED BY <3>1, <3>2
  <2> QED BY <2>2, <2>3 DEF Owners
<1>17. Readings'
  <2>1. ASSUME NEW d \in Calls, Live(d)', NEW copy \in calls'[d].got
        PROVE  Live(d) /\ copy \in calls[d].got
    BY <1>6, <1>7, <1>9, <2>1
  <2>2. ASSUME NEW d \in Calls, Ended(d)' PROVE d # c /\ Ended(d) /\ calls'[d] = calls[d]
    BY <1>6, <1>7, <1>9, <2>2 DEF Ended
  <2> QED BY <1>0, <1>2, <2>1, <2>2, ReadingsStep
<1>18. MapTold'
  <2>1. ASSUME NEW d \in Calls, At(d, "done")', ~calls'[d].out
        PROVE  Told(sessions[calls[d].id], d)'
    <3>1. d # c /\ calls'[d] = calls[d] /\ At(d, "done") /\ Live(d) /\ ~calls[d].out
      BY <1>0, <1>6, <1>7, <1>9, <2>1, LiveCall DEF At
    <3>2. PICK a \in 1 .. Len(heap) : a = calls[d].session
      BY <1>11, <3>1
    <3>3. a = sessions[calls[d].id] /\ a = sessions'[calls'[d].id]
      BY <1>12, <3>1, <3>2
    <3>4. Told(a, d)
      BY <1>0, <3>1, <3>3 DEF MapTold
    <3>5. Told(a, d)'
      BY <1>0, <1>3, <1>10, <3>1, <3>4, ToldStays
    <3> QED BY <3>3, <3>5
  <2> QED BY <2>1 DEF MapTold
<1>19. PointerTold'
  <2>1. ASSUME NEW g \in Calls, Live(g)', NEW d \in calls'[g].after
        PROVE  At(d, "done")' /\ Told(calls[g].session, d)'
    <3>1. CASE g = c
      <4>1. d \in Calls /\ At(d, "done") /\ calls[d].id = i /\ ~calls[d].out /\ Live(d) /\ calls'[g].session = s
        BY <1>0, <1>6, <1>7, <2>1, <3>1, LiveCall
      <4>2. PICK a \in 1 .. Len(heap) : a = calls[d].session
        BY <1>11, <4>1
      <4>3. a = sessions[i] /\ a = s
        BY <1>1, <1>12, <4>1, <4>2
      <4>4. Told(a, d)'
        BY <1>0, <1>3, <1>10, <4>1, <4>3, ToldStays DEF MapTold
      <4> QED BY <1>10, <4>1, <4>3, <4>4 DEF Settled
    <3>2. CASE g # c
      <4>1. Live(g) /\ calls'[g] = calls[g] /\ d \in calls[g].after
        BY <1>7, <1>9, <2>1, <3>2
      <4>2. d \in Calls /\ At(d, "done") /\ Told(calls[g].session, d)
        BY <1>0, <1>11, <4>1 DEF PointerTold
      <4>3. PICK a \in 1 .. Len(heap) : a = calls[g].session
        BY <1>11, <4>1
      <4>4. Told(a, d)'
        BY <1>0, <1>3, <1>10, <4>2, <4>3, ToldStays
      <4> QED BY <1>10, <4>1, <4>2, <4>3, <4>4 DEF Settled
    <3> QED BY <3>1, <3>2
  <2> QED BY <2>1 DEF PointerTold
<1>20. ASSUME NEW a \in 1 .. Len(heap), NEW j, Caused(a, j) PROVE Caused(a, j)'
  <2>1. heap'[a].LastWriteTS = heap[a].LastWriteTS /\ heap'[a].LastReadTS = heap[a].LastReadTS
    BY <1>3
  <2>2. PICK v, u : v = heap[a].LastWriteTS /\ u = heap[a].LastReadTS
    OBVIOUS
  <2>3. v # 0 => Cause(j, "put", v)'
    BY <1>10, <1>20, <2>2, CauseStays DEF Caused
  <2>4. u # 0 => Cause(j, "get", u)'
    BY <1>10, <1>20, <2>2, CauseStays DEF Caused
  <2> QED BY <2>1, <2>2, <2>3, <2>4 DEF Caused
<1>21. Caused(s, i)'
  <2>1. CASE sessions[i] # 0 /\ sessions' = sessions
    <3>1. PICK a \in 1 .. Len(heap) : a = sessions[i] /\ a = s
      BY <1>0, <1>1, <2>1 DEF TypeOK
    <3>2. Caused(a, i)
      BY <1>0, <2>1, <3>1 DEF ObjectsCaused
    <3> QED BY <1>20, <3>1, <3>2
  <2>2. CASE heap'[s].LastWriteTS = 0 /\ heap'[s].LastReadTS = 0
    BY <2>2 DEF Caused
  <2> QED BY <1>3, <2>1, <2>2
<1>22. ObjectsCaused'
  <2>1. ASSUME NEW j \in Ids, sessions'[j] # 0 PROVE Caused(sessions[j], j)'
    <3>1. CASE j = i
      BY <1>1, <1>21, <3>1
    <3>2. CASE j # i
      <4>1. PICK a \in 1 .. Len(heap) : a = sessions[j] /\ a = sessions'[j]
        BY <1>0, <1>3, <2>1, <3>2 DEF TypeOK
      <4>2. Caused(a, j)
        BY <1>0, <2>1, <4>1 DEF ObjectsCaused
      <4>3. Caused(a, j)'
        BY <1>20, <4>2
      <4> QED BY <4>1, <4>3
    <3> QED BY <3>1, <3>2
  <2>2. ASSUME NEW d \in Calls, Live(d)' PROVE Caused(calls[d].session, calls[d].id)'
    <3>1. CASE d = c
      BY <1>6, <1>7, <1>21, <3>1
    <3>2. CASE d # c
      <4>1. Live(d) /\ calls'[d] = calls[d]
        BY <1>7, <1>9, <2>2, <3>2
      <4>2. PICK a, j : a \in 1 .. Len(heap) /\ a = calls[d].session /\ j = calls[d].id
        BY <1>11, <4>1
      <4>3. Caused(a, j)'
        BY <1>0, <1>20, <4>1, <4>2 DEF ObjectsCaused
      <4> QED BY <4>1, <4>2, <4>3
    <3> QED BY <3>1, <3>2
  <2> QED BY <2>1, <2>2 DEF ObjectsCaused
<1> QED BY <1>13, <1>14, <1>15, <1>16, <1>17, <1>18, <1>19, <1>22 DEF IInv

-----------------------------------------------------------------------------
(***************************************************************************)
(* The theorems                                                            *)
(***************************************************************************)

LEMMA InitHolds == Init => IInv
<1> SUFFICES ASSUME Init PROVE IInv
  OBVIOUS
<1>1. /\ clock = Epoch /\ heap = <<>> /\ sessions = [i \in Ids |-> 0]
      /\ store = [k \in Keys |-> [r \in Replicas |-> 0]] /\ calls = [c \in Calls |-> Unused]
  BY DEF Init
<1>2. \A c \in Calls : ~Live(c) /\ ~At(c, "done")
  BY <1>1 DEF Live, At, Unused
<1>3. TypeOK
  <2>1. Epoch \in Nat /\ heap \in Seq(Session) /\ Len(heap) = 0
    BY <1>1, SkewAssumption
  <2> QED BY <1>1, <1>2, <2>1 DEF TypeOK
<1>4. Readings
  BY <1>1, <1>2, SkewAssumption DEF Readings, Ended
<1>5. Owners
  BY <1>1, <1>2 DEF Owners
<1>6. ObjectsCaused
  BY <1>1, <1>2 DEF ObjectsCaused
<1> QED BY <1>2, <1>3, <1>4, <1>5, <1>6
        DEF IInv, Stages, InMap, Answered, AnswerOK, Returned, MapTold, PointerTold, FlagsMean,
            FlagsOK, ChecksCaused, ChecksOK

LEMMA StutterHolds ==
    ASSUME IInv, UNCHANGED vars
    PROVE  IInv'
<1>1. /\ clock' = clock /\ heap' = heap /\ sessions' = sessions /\ store' = store
      /\ calls' = calls
  BY DEF vars
<1>2. TypeOK' /\ Readings'
  BY <1>1 DEF IInv, TypeOK, Readings, Ended, Live, At
<1>3. \A d \in Calls : Keeps(d)
  BY <1>1 DEF Keeps, Live, At
<1>4. Settled
  BY <1>1 DEF Settled, At
<1> QED BY <1>1, <1>2, <1>3, <1>4, PassiveStep

LEMMA NextHolds == IInv /\ [Next]_vars => IInv'
<1> SUFFICES ASSUME IInv, [Next]_vars PROVE IInv'
  OBVIOUS
<1>1. CASE \E c \in Calls, op \in {"put", "get"}, i \in Ids, k \in Keys : Begin(c, op, i, k)
  BY <1>1, BeginHolds
<1>2. CASE \E c \in Calls, r \in Replicas : StoreCopy(c, r) \/ ReadCopy(c, r)
  BY <1>2, StoreCopyHolds, ReadCopyHolds
<1>3. CASE \E k \in Keys, r \in Replicas : StoreElsewhere(k, r)
  BY <1>3, StoreElsewhereHolds
<1>4. CASE \E c \in Calls : Fails(c) \/ PutReturns(c) \/ TrackWrite(c)
  BY <1>4, FailsHolds, PutReturnsHolds, TrackWriteHolds
<1>5. CASE \E c \in Calls : GetReturns(c) \/ CheckMonotonicRead(c) \/ TrackRead(c)
  BY <1>5, GetReturnsHolds, CheckHolds, TrackReadHolds
<1>6. CASE reap
  BY <1>6, ReapHolds
<1>7. CASE UNCHANGED vars
  BY <1>7, StutterHolds
<1> QED BY <1>1, <1>2, <1>3, <1>4, <1>5, <1>6, <1>7 DEF Next

\* Whatever handlers, replicas and the reaper do, the invariant holds.
THEOREM SessionInvariance == Spec => []IInv
BY InitHolds, NextHolds, PTL DEF Spec

\* Every variable has its type, and no pointer of GetOrCreate's map or of a handler
\* dangles, also when the reaper has run.
THEOREM SessionTypes == Spec => []TypeOK
BY SessionInvariance, PTL DEF IInv

LEMMA OwnCopiesLemma == IInv => OwnCopiesFlagged
<1> SUFFICES ASSUME IInv, NEW g \in Calls, Live(g), calls[g].ryw,
                    NEW copy \in calls[g].got, Skew[copy.node] <= 0,
                    NEW d \in calls[g].after, calls[d].op = "put"
             PROVE  copy.at > calls[d].end
  BY DEF OwnCopiesFlagged
<1>0. TypeOK /\ Stages /\ Readings /\ Answered /\ PointerTold /\ FlagsMean
  BY DEF IInv
<1>1. /\ calls[g].op \in {"put", "get"} /\ calls[g].ts \in Int /\ d \in Calls
      /\ copy \in Copy /\ StageOK(g)
  BY <1>0, FieldTypes DEF Stages
<1>2. Returned(g)
  BY <1>1 DEF Returned, StageOK
<1>3. TS(copy) = calls[g].ts
  BY <1>0, <1>2 DEF Answered, AnswerOK
<1>4. At(d, "done") /\ Live(d) /\ Ended(d)
  BY <1>0, <1>1, LiveCall DEF PointerTold, Ended, At
<1>5. calls[d].ts = calls[d].end /\ calls[d].end \in Nat /\ copy.at # calls[d].end
  BY <1>0, <1>1, <1>4, FieldTypes DEF Readings
<1>6. calls[d].ts <= calls[g].ts
  BY <1>0 DEF FlagsMean, FlagsOK
<1>7. copy.at \in Nat /\ Skew[copy.node] \in Int
  BY <1>1, SkewAssumption DEF Copy
<1> QED BY <1>1, <1>3, <1>5, <1>6, <1>7 DEF TS

LEMMA CauseLemma == IInv => FlagsHaveCause
<1> SUFFICES ASSUME IInv, NEW g \in Calls, At(g, "done"), calls[g].op = "get"
             PROVE  /\ calls[g].ryw \/ \E d \in Calls : /\ At(d, "done") /\ calls[d].op = "put"
                                                          /\ calls[d].id = calls[g].id
                                                          /\ calls[d].ts > calls[g].ts
                    /\ calls[g].mono \/ \E d \in Calls : /\ At(d, "done") /\ calls[d].op = "get"
                                                           /\ calls[d].id = calls[g].id
                                                           /\ calls[d].ts > calls[g].ts
  BY DEF FlagsHaveCause
<1>1. Live(g) /\ Returned(g) /\ calls[g].status = "done"
  BY LiveCall DEF IInv, Returned, At
<1>2. ChecksOK(g)
  BY DEF IInv, ChecksCaused
<1> QED BY <1>1, <1>2 DEF ChecksOK, Cause

\* HandleGet's read_your_write is true only of copies stored after the writes that the
\* session had been told of were over, whatever the reaper and the other handlers do.
THEOREM ReadYourWriteIsLater == Spec => []OwnCopiesFlagged
<1>1. IInv => OwnCopiesFlagged
  BY OwnCopiesLemma
<1> QED BY <1>1, SessionInvariance, PTL

\* HandleGet's monotonic is true only of answers at or above those that the session had
\* finished reading, although the fields are read without the lock.
THEOREM MonotonicIsMonotonic == Spec => []MonotonicMeansMonotonic
<1>1. IInv => MonotonicMeansMonotonic
  BY DEF IInv, FlagsMean, FlagsOK, MonotonicMeansMonotonic
<1> QED BY <1>1, SessionInvariance, PTL

\* HandleGet withholds a flag only because a request of the same session wrote, or read,
\* at a higher timestamp: TrackWrite and TrackRead never reach another session's object.
THEOREM WithheldWithCause == Spec => []FlagsHaveCause
<1>1. IInv => FlagsHaveCause
  BY CauseLemma
<1> QED BY <1>1, SessionInvariance, PTL
=============================================================================
