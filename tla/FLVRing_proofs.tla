---------------------------- MODULE FLVRing_proofs ----------------------------
(***************************************************************************)
(* Proofs about FLVRing, for any size of the ring, any writers and clients,  *)
(* any tags: the shape of the ring, that a client gets whole tags, that no   *)
(* wake-up is missed, and that the GOP mark leads to a keyframe.             *)
(***************************************************************************)
EXTENDS FLVRing, TLAPS

(* What the positions of the ring are good for.                               *)

LEMMA Positions ==
  ASSUME NEW p \in Cells, NEW q \in Cells, NEW n \in 0 .. Size
  PROVE  /\ Size \in Nat /\ Size > 1
         /\ Succ(p) \in Cells
         /\ Dist(p, q) \in 0 .. Size - 1
         /\ Dist(p, q) = 0 <=> p = q
         /\ Plus(p, n) \in Cells
  BY RingAssumption DEF Cells, Succ, Dist, Plus

\* A byte put at q takes the reader at p one further behind.
LEMMA DistGrows ==
  ASSUME NEW p \in Cells, NEW q \in Cells
  PROVE  Dist(p, Succ(q)) = IF Dist(p, q) = Size - 1 THEN 0 ELSE Dist(p, q) + 1
  BY RingAssumption DEF Cells, Succ, Dist

\* Copying n bytes takes it n closer.
LEMMA DistShrinks ==
  ASSUME NEW p \in Cells, NEW q \in Cells, NEW n \in 0 .. Dist(p, q)
  PROVE  Dist(Plus(p, n), q) = Dist(p, q) - n
  BY RingAssumption DEF Cells, Plus, Dist

-----------------------------------------------------------------------------
(* Types and the shape of the ring.  A writer holds the lock exactly while it *)
(* puts bytes, what it has left is within the bound, and the ring holds no    *)
(* more than was written.                                                     *)

LockInv ==
  /\ \A w \in Writers : wpc[w] = "put" <=> mu = w
  /\ \A w \in Writers : mu = w => wrote + left[w] <= MaxBytes

HeldWritten == IF full THEN wrote >= Size ELSE wrote >= tail

ShapeInv == TypeOK /\ RingShape /\ LockInv /\ HeldWritten

LEMMA InitShape == Init => ShapeInv
<1> SUFFICES ASSUME Init PROVE ShapeInv
  OBVIOUS
<1>1. NoTag \in Tags /\ NotJoined \in Joins /\ 0 \in Cells /\ 0 \in Stream
  BY RingAssumption DEF NoTag, Tags, NotJoined, Joins, NoKey, Cells, Stream
<1>2. /\ buf \in [Cells -> Stream \cup {NoKey}] /\ tag \in [Writers -> Tags]
      /\ pos \in [Clients -> Cells] /\ join \in [Clients -> Joins]
      /\ left \in [Writers -> 0 .. MaxTag] /\ ch \in [Clients -> 0 .. NotifyCap]
      /\ next \in [Clients -> Nat] /\ configs \in 0 .. MaxConfigs
  BY <1>1, RingAssumption DEF Init
<1>4. /\ wpc \in [Writers -> {"idle", "coded", "marked", "put"}]
      /\ cpc \in [Clients -> {"new", "admitted", "joined", "listed", "prefixed", "wait", "read",
                             "gone"}]
  BY DEF Init
<1>5. TypeOK
  BY <1>1, <1>2, <1>4 DEF Init, TypeOK
<1>3. RingShape /\ LockInv /\ HeldWritten
  BY RingAssumption DEF Init, RingShape, LockInv, HeldWritten
<1> QED
  BY <1>3, <1>5 DEF ShapeInv

LEMMA SinkShape ==
  ASSUME ShapeInv, Start \/ Configure \/ Stop
  PROVE  ShapeInv'
<1> USE RingAssumption
    DEF ShapeInv, TypeOK, RingShape, LockInv, HeldWritten, sinkVars, ringVars, writerVars,
        clientVars, streamHist, clientHist, Subscribed
<1>1. CASE Start
  <2>1. status' \in {"stopped", "running"} /\ Subscribed' = Subscribed
    BY <1>1 DEF Start
  <2>2. TypeOK'
    BY <1>1, <2>1 DEF Start
  <2> QED
    BY <1>1, <2>2 DEF Start
<1>2. CASE Configure
  <2>1. configs' \in 0 .. MaxConfigs /\ 0 \in Cells /\ wrote >= 0
    BY <1>2 DEF Configure, Cells, Stream
  <2>2. Subscribed' = Subscribed /\ stale' \in SUBSET Clients
    BY <1>2 DEF Configure
  <2>3. TypeOK'
    BY <1>2, <2>1, <2>2 DEF Configure
  <2> QED
    BY <1>2, <2>1, <2>3 DEF Configure
<1>3. CASE Stop
  BY <1>3 DEF Stop
<1> QED
  BY <1>1, <1>2, <1>3

LEMMA WriterShape ==
  ASSUME ShapeInv, NEW w \in Writers,
         Encode(w) \/ MarkGOP(w) \/ BeginWrite(w) \/ Put(w) \/ EndWrite(w)
  PROVE  ShapeInv'
<1> USE RingAssumption
    DEF ShapeInv, RingShape, LockInv, HeldWritten, sinkVars, ringVars, writerVars,
        clientVars, streamHist, clientHist, Subscribed
<1>1. CASE Encode(w)
  BY <1>1 DEF Encode, TypeOK
<1>2. CASE MarkGOP(w)
  BY <1>2 DEF MarkGOP, Free, TypeOK
<1>3. CASE BeginWrite(w)
  <2>1. tag[w].len \in Nat /\ tag[w].len <= MaxTag /\ tag[w].len >= 1
    BY DEF TypeOK, Tags
  <2>2. wrote \in Stream /\ wrote' = wrote
    BY <1>3 DEF BeginWrite, TypeOK
  <2>a. left' \in [Writers -> 0 .. MaxTag] /\ wpc' \in [Writers -> {"idle", "coded", "marked", "put"}]
        /\ mu' \in Writers \cup {None}
    BY <1>3, <2>1 DEF BeginWrite, TypeOK
  <2>b. starts' \in SUBSET Stream /\ lastKey' \in Stream \cup {NoKey} /\ late' \in SUBSET Writers
    BY <1>3, <2>2 DEF BeginWrite, TypeOK
  <2>c. raced' \in BOOLEAN
    <3>1. raced \in BOOLEAN /\ (w \in late) \in BOOLEAN
      BY DEF TypeOK
    <3>2. CASE tag[w].key
      BY <1>3, <3>1, <3>2 DEF BeginWrite
    <3>3. CASE ~tag[w].key
      BY <1>3, <3>1, <3>3 DEF BeginWrite
    <3> QED
      BY <3>2, <3>3
  <2>3. TypeOK'
    BY <1>3, <2>2, <2>a, <2>b, <2>c DEF BeginWrite, TypeOK
  <2>4. LockInv'
    BY <1>3, <2>1, <2>2 DEF BeginWrite, Free, TypeOK
  <2> QED
    BY <1>3, <2>3, <2>4 DEF BeginWrite
<1>4. CASE Put(w)
  <2>1. wrote \in Nat /\ left[w] \in Nat /\ left[w] > 0 /\ wrote + left[w] <= MaxBytes
        /\ left[w] <= MaxTag /\ MaxTag \in Nat /\ MaxBytes \in Nat
    BY <1>4 DEF Put, TypeOK, Stream
  <2>2. wrote' = wrote + 1 /\ wrote' \in Stream /\ wrote \in Stream
    BY <1>4, <2>1 DEF Put, Stream
  <2>3. tail' = Succ(tail) /\ tail \in Cells /\ tail' \in Cells /\ head \in Cells
    BY <1>4, Positions DEF Put, TypeOK
  <2>4. head' \in Cells /\ full' \in BOOLEAN
    <3>1. CASE full /\ head' = Succ(head) /\ UNCHANGED full
      BY <2>3, <3>1, Positions DEF TypeOK
    <3>2. CASE ~full /\ full' = (Succ(tail) = head) /\ UNCHANGED head
      BY <2>3, <3>2
    <3> QED
      BY <1>4, <3>1, <3>2 DEF Put, AdvanceHead
  <2>5. RingShape' /\ HeldWritten'
    BY <1>4, <2>1, <2>2, <2>3 DEF Put, AdvanceHead, Succ, Cells, TypeOK
  <2>6. left' \in [Writers -> 0 .. MaxTag] /\ left'[w] = left[w] - 1
        /\ \A v \in Writers \ {w} : left'[v] = left[v]
    BY <1>4, <2>1 DEF Put, TypeOK
  <2>7. TypeOK'
    BY <1>4, <2>2, <2>3, <2>4, <2>6 DEF Put, Overtaken, TypeOK
  <2>8. LockInv'
    BY <1>4, <2>1, <2>2, <2>6 DEF Put
  <2> QED
    BY <2>5, <2>7, <2>8
<1>5. CASE EndWrite(w)
  <2>1. ch' \in [Clients -> 0 .. NotifyCap]
    BY <1>5 DEF EndWrite, Notified, TypeOK
  <2>2. NoTag \in Tags
    BY DEF NoTag, Tags
  <2>3. TypeOK'
    BY <1>5, <2>1, <2>2 DEF EndWrite, TypeOK
  <2> QED
    BY <1>5, <2>3 DEF EndWrite, TypeOK
<1> QED
  BY <1>1, <1>2, <1>3, <1>4, <1>5

\* Where a client starts, and the byte due to it.
LEMMA StartBounds ==
  ASSUME ShapeInv
  PROVE  /\ StartPos \in Cells
         /\ ~full => StartPos <= tail
         /\ wrote - Dist(StartPos, tail) \in Stream
<1>1. StartPos \in Cells /\ (~full => StartPos <= tail)
  BY DEF ShapeInv, TypeOK, RingShape, StartPos, GopValid, Cells
<1>2. /\ wrote \in Nat /\ MaxBytes \in Nat /\ wrote <= MaxBytes /\ tail \in Cells
      /\ IF full THEN wrote >= Size ELSE wrote >= tail
  BY RingAssumption DEF ShapeInv, TypeOK, Stream, HeldWritten
<1>3. Dist(StartPos, tail) \in 0 .. wrote
  BY <1>1, <1>2, RingAssumption DEF Dist, Cells
<1> QED
  BY <1>1, <1>2, <1>3 DEF Stream

\* A step of a client leaves the ring and the writers alone.
ClientStep(c) ==
  \/ Admit(c) \/ Join(c) \/ List(c) \/ SendPrefix(c) \/ Replay(c)
  \/ Wake(c) \/ Read(c) \/ EndOfData(c) \/ Leave(c)

LEMMA ClientFrame ==
  ASSUME NEW c \in Clients, ClientStep(c)
  PROVE  UNCHANGED <<sinkVars, ringVars, writerVars, streamHist>>
  BY DEF ClientStep, Admit, Join, List, SendPrefix, Replay, Wake, Read, EndOfData, Leave

LEMMA CopyTyped ==
  ASSUME ShapeInv, NEW c \in Clients, NEW n \in 0 .. Size, Copy(c, n)
  PROVE  /\ pos' \in [Clients -> Cells] /\ next' \in [Clients -> Nat]
         /\ bad' \in SUBSET Clients
<1>1. pos[c] \in Cells /\ next[c] + n \in Nat
  BY RingAssumption DEF ShapeInv, TypeOK
<1>2. Plus(pos[c], n) \in Cells
  BY <1>1, RingAssumption DEF Plus, Cells
<1> QED
  BY <1>1, <1>2 DEF Copy, ShapeInv, TypeOK

LEMMA ClientTyped ==
  ASSUME ShapeInv, NEW c \in Clients, ClientStep(c)
  PROVE  /\ cpc' \in [Clients -> {"new", "admitted", "joined", "listed", "prefixed", "wait", "read",
                                "gone"}]
         /\ pos' \in [Clients -> Cells] /\ ch' \in [Clients -> 0 .. NotifyCap]
         /\ listed' \in SUBSET Subscribed'
         /\ next' \in [Clients -> Nat] /\ bad' \in SUBSET Clients /\ lapped' \in SUBSET Clients
         /\ stale' \in SUBSET Clients /\ join' \in [Clients -> Joins]
<1> USE DEF ShapeInv, TypeOK, clientVars, clientHist, Step, Subscribed
<1>a. pos[c] \in Cells /\ tail \in Cells
  OBVIOUS
<1>0. Dist(pos[c], tail) \in 0 .. Size - 1
  BY <1>a, RingAssumption DEF Dist, Cells
<1>1. CASE Admit(c)
  BY <1>1 DEF Admit
<1>2. CASE Join(c)
  <2>1. StartPos \in Cells /\ wrote - Dist(StartPos, tail) \in Stream
    BY StartBounds DEF ShapeInv
  <2>2. KeyInRing \in Stream \cup {NoKey}
    BY DEF KeyInRing
  <2>3. [at |-> wrote - Dist(StartPos, tail),
         whole |-> wrote - Dist(StartPos, tail) \in starts \cup {wrote},
         key |-> KeyInRing, full |-> full,
         raced |-> raced \/ \E w \in Writers : wpc[w] = "marked"] \in Joins
    BY <2>1, <2>2 DEF Joins
  <2>4. join' \in [Clients -> Joins]
    BY <1>2, <2>3 DEF Join
  <2>5. next' \in [Clients -> Nat] /\ pos' \in [Clients -> Cells]
    BY <1>2, <2>1, RingAssumption DEF Join, Stream
  <2>6. listed' \in SUBSET Subscribed'
    BY <1>2 DEF Join
  <2> QED
    BY <1>2, <2>4, <2>5, <2>6 DEF Join
<1>3. CASE List(c)
  BY <1>3 DEF List
<1>4. CASE SendPrefix(c)
  BY <1>4 DEF SendPrefix
<1>5. CASE Replay(c)
  <2>1. Copy(c, Dist(pos[c], tail)) /\ Dist(pos[c], tail) \in 0 .. Size
    BY <1>0, <1>5, RingAssumption DEF Replay
  <2>2. /\ pos' \in [Clients -> Cells] /\ next' \in [Clients -> Nat]
        /\ bad' \in SUBSET Clients
    BY <2>1, CopyTyped
  <2> QED
    BY <1>5, <2>2 DEF Replay
<1>6. CASE Wake(c)
  <2>1. ch[c] - 1 \in 0 .. NotifyCap
    BY <1>6, RingAssumption DEF Wake
  <2> QED
    BY <1>6, <2>1 DEF Wake
<1>7. CASE Read(c)
  <2>1. Copy(c, Least(ReadSize, Unread(c))) /\ Least(ReadSize, Unread(c)) \in 0 .. Size
    BY <1>0, <1>7, RingAssumption DEF Read, Unread, Least
  <2>2. /\ pos' \in [Clients -> Cells] /\ next' \in [Clients -> Nat]
        /\ bad' \in SUBSET Clients
    BY <2>1, CopyTyped
  <2> QED
    BY <1>7, <2>2 DEF Read, ReadAgain
<1>8. CASE EndOfData(c)
  BY <1>8 DEF EndOfData
<1>9. CASE Leave(c)
  <2>1. /\ pos' \in [Clients -> Cells] /\ next' \in [Clients -> Nat]
        /\ join' \in [Clients -> Joins] /\ ch' \in [Clients -> 0 .. NotifyCap]
    BY <1>9, RingAssumption
    DEF Leave, Cells, NotJoined, Joins, Stream, NoKey
  <2> QED
    BY <1>9, <2>1 DEF Leave
<1> QED
  BY <1>1, <1>2, <1>3, <1>4, <1>5, <1>6, <1>7, <1>8, <1>9 DEF ClientStep

LEMMA ClientShape ==
  ASSUME ShapeInv, NEW c \in Clients, ClientStep(c)
  PROVE  ShapeInv'
<1>1. UNCHANGED <<sinkVars, ringVars, writerVars, streamHist>>
  BY ClientFrame
<1>2. TypeOK'
  BY <1>1, ClientTyped DEF ShapeInv, TypeOK, sinkVars, ringVars, writerVars, streamHist
<1>3. RingShape' /\ LockInv' /\ HeldWritten'
  BY <1>1
  DEF ShapeInv, RingShape, LockInv, HeldWritten, sinkVars, ringVars, writerVars, streamHist
<1> QED
  BY <1>2, <1>3 DEF ShapeInv

LEMMA NextShape == ShapeInv /\ [Next]_vars => ShapeInv'
<1> SUFFICES ASSUME ShapeInv, [Next]_vars PROVE ShapeInv'
  OBVIOUS
<1>1. CASE Start \/ Configure \/ Stop
  BY <1>1, SinkShape
<1>2. ASSUME NEW w \in Writers,
             Encode(w) \/ MarkGOP(w) \/ BeginWrite(w) \/ Put(w) \/ EndWrite(w)
      PROVE  ShapeInv'
  BY <1>2, WriterShape
<1>3. ASSUME NEW c \in Clients, ClientStep(c) PROVE ShapeInv'
  BY <1>3, ClientShape
<1>4. CASE UNCHANGED vars
  BY <1>4 DEF vars, sinkVars, ringVars, writerVars, clientVars, streamHist, clientHist, ShapeInv,
              TypeOK, RingShape, LockInv, HeldWritten, Subscribed
<1> QED
  BY <1>1, <1>2, <1>3, <1>4 DEF Next, ClientStep

(* The sink, its ring and every client keep their types: no position leaves   *)
(* the ring, no channel of wake-ups holds more than its capacity.             *)
THEOREM RingTyped == Spec => []TypeOK
<1>1. ShapeInv => TypeOK
  BY DEF ShapeInv
<1> QED
  BY <1>1, InitShape, NextShape, PTL DEF Spec

(* The ring is full exactly when its oldest byte is the next one to go,       *)
(* whatever the order of Configure and of the bytes of the writers.           *)
THEOREM RingKeepsShape == Spec => []RingShape
<1>1. ShapeInv => RingShape
  BY DEF ShapeInv
<1> QED
  BY <1>1, InitShape, NextShape, PTL DEF Spec

-----------------------------------------------------------------------------
(* What a client reads.  While nobody configures the sink under it or laps    *)
(* it, a client's cursor is exactly as far behind the tail as the byte due to *)
(* it is behind the end of the stream; the cells in between hold that part of *)
(* the stream; and every place a client may start at, the oldest byte and the *)
(* GOP mark, is the first byte of a tag.                                      *)

\* How long ago the byte at p was written.
Back(p) == IF p < tail THEN tail - p ELSE Size - p + tail

Content == \A p \in Cells : full \/ p < tail => buf[p] = wrote - Back(p)

\* Before the ring has wrapped; a writer that holds the lock where a client
\* might start has just begun its tag.
StartsAtTags ==
  ~full => /\ tail > 0 => wrote - tail \in starts
           /\ gopPos <= tail
           /\ gopPos < tail => wrote - (tail - gopPos) \in starts
           /\ ~Free /\ (gopPos = tail \/ tail = 0) => wrote \in starts

InStep(c) ==
  /\ next[c] = wrote - Dist(pos[c], tail) /\ (~full => pos[c] <= tail)
  /\ c \notin bad /\ join[c].whole

ClientsInStep ==
  /\ bad \subseteq Subscribed
  /\ \A c \in Subscribed : c \in lapped \cup stale \/ InStep(c)

ReadInv == ShapeInv /\ Content /\ StartsAtTags /\ ClientsInStep

LEMMA InitRead == Init => ReadInv
<1> SUFFICES ASSUME Init PROVE ReadInv
  OBVIOUS
<1>1. Content
  BY DEF Init, Content, Cells
<1>2. StartsAtTags /\ ClientsInStep
  BY DEF Init, StartsAtTags, Free, ClientsInStep, Subscribed
<1> QED
  BY <1>1, <1>2, InitShape DEF ReadInv

LEMMA SinkRead ==
  ASSUME ReadInv, Start \/ Configure \/ Stop
  PROVE  Content' /\ StartsAtTags' /\ ClientsInStep'
<1> USE DEF ReadInv, sinkVars, ringVars, writerVars, clientVars, streamHist, clientHist
<1>1. CASE Start \/ Stop
  <2>1. UNCHANGED <<ringVars, writerVars, clientVars, streamHist, clientHist>>
    BY <1>1 DEF Start, Stop
  <2> QED
    BY <2>1 DEF Content, Back, StartsAtTags, Free, ClientsInStep, InStep, Subscribed
<1>2. CASE Configure
  <2>1. Content'
    BY <1>2 DEF Configure, Content, Cells
  <2>2. StartsAtTags'
    BY <1>2 DEF Configure, StartsAtTags, Free
  <2>3. ClientsInStep'
    BY <1>2 DEF Configure, ClientsInStep, Subscribed
  <2> QED
    BY <2>1, <2>2, <2>3
<1> QED
  BY <1>1, <1>2

\* The ring wraps with the byte that goes to its last cell.
LEMMA PutWraps ==
  ASSUME ReadInv, NEW w \in Writers, Put(w)
  PROVE  /\ full => full'
         /\ ~full => (full' <=> tail = Size - 1)
<1>1. CASE full
  BY <1>1 DEF Put, AdvanceHead
<1>2. CASE ~full
  <2>1. head = 0 /\ tail \in Cells
    BY <1>2 DEF ReadInv, ShapeInv, TypeOK, RingShape
  <2>2. full' <=> Succ(tail) = 0
    BY <1>2, <2>1 DEF Put, AdvanceHead
  <2>3. Succ(tail) = 0 <=> tail = Size - 1
    BY <2>1, RingAssumption DEF Succ, Cells
  <2> QED
    BY <1>2, <2>2, <2>3
<1> QED
  BY <1>1, <1>2

\* The byte put last is the newest, every other one is one byte older.
LEMMA PutContent ==
  ASSUME ReadInv, NEW w \in Writers, Put(w)
  PROVE  Content'
<1> USE RingAssumption
<1>1. /\ wrote \in Nat /\ tail \in Cells /\ buf \in [Cells -> Stream \cup {NoKey}]
      /\ (full => head = tail) /\ (~full => head = 0)
  BY DEF ReadInv, ShapeInv, TypeOK, Stream, RingShape
<1>2. SUFFICES ASSUME NEW p \in Cells, full' \/ p < tail'
               PROVE  buf'[p] = wrote' - Back(p)'
  BY DEF Content
<1>3. wrote' = wrote + 1 /\ tail' = Succ(tail)
  BY DEF Put
<1>4. CASE p = tail
  <2>1. buf'[p] = wrote
    BY <1>1, <1>4 DEF Put
  <2>2. Back(p)' = 1
    BY <1>1, <1>3, <1>4 DEF Back, Succ, Cells
  <2> QED
    BY <1>1, <1>3, <2>1, <2>2
<1>5. CASE p # tail
  <2>1. buf'[p] = buf[p]
    BY <1>1, <1>5 DEF Put
  <2>2. full \/ p < tail
    <3>1. CASE full
      BY <3>1
    <3>2. CASE ~full
      BY <1>1, <1>2, <1>3, <1>5, <3>2, PutWraps DEF Succ, Cells
    <3> QED
      BY <3>1, <3>2
  <2>3. buf[p] = wrote - Back(p)
    BY <2>2 DEF ReadInv, Content
  <2>4. Back(p)' = Back(p) + 1 /\ Back(p) \in Nat
    BY <1>1, <1>3, <1>5 DEF Back, Succ, Cells
  <2> QED
    BY <1>1, <1>3, <2>1, <2>3, <2>4
<1> QED
  BY <1>4, <1>5

LEMMA PutStarts ==
  ASSUME ReadInv, NEW w \in Writers, Put(w)
  PROVE  StartsAtTags'
<1> USE RingAssumption
<1>1. /\ wrote \in Nat /\ tail \in Cells /\ gopPos \in Cells /\ head \in Cells
      /\ ~full => head = 0
  BY DEF ReadInv, ShapeInv, TypeOK, Stream, RingShape
<1>2. /\ wrote' = wrote + 1 /\ tail' = Succ(tail) /\ gopPos' = gopPos /\ mu' = mu /\ mu = w
      /\ starts' = {k \in starts : k >= wrote + 1 - Size}
  BY DEF Put, ringVars
<1>3. SUFFICES ASSUME ~full'
               PROVE  /\ tail' > 0 => wrote' - tail' \in starts'
                      /\ gopPos' <= tail'
                      /\ gopPos' < tail' => wrote' - (tail' - gopPos') \in starts'
                      /\ ~Free' /\ (gopPos' = tail' \/ tail' = 0) => wrote' \in starts'
  BY DEF StartsAtTags
<1>4. ~full /\ tail' = tail + 1
  BY <1>1, <1>2, <1>3, PutWraps DEF Succ, Cells
<1>5. ~Free
  BY <1>2 DEF Free
<1>6. /\ tail > 0 => wrote - tail \in starts
      /\ gopPos <= tail
      /\ gopPos < tail => wrote - (tail - gopPos) \in starts
      /\ gopPos = tail \/ tail = 0 => wrote \in starts
  BY <1>4, <1>5 DEF ReadInv, StartsAtTags
<1>7. wrote - tail \in starts /\ wrote - (tail - gopPos) \in starts
  BY <1>1, <1>6 DEF Cells
<1>8. wrote' - tail' = wrote - tail /\ wrote' - (tail' - gopPos') = wrote - (tail - gopPos)
  BY <1>1, <1>2, <1>4 DEF Cells
<1>9. wrote - tail >= wrote + 1 - Size /\ wrote - (tail - gopPos) >= wrote + 1 - Size
  BY <1>1, <1>6 DEF Cells
<1> QED
  BY <1>1, <1>2, <1>4, <1>6, <1>7, <1>8, <1>9 DEF Cells

\* A client that is not overtaken stays in step with the tail.
LEMMA PutClients ==
  ASSUME ReadInv, NEW w \in Writers, Put(w)
  PROVE  ClientsInStep'
<1> USE RingAssumption
<1>1. /\ wrote \in Nat /\ tail \in Cells /\ head \in Cells /\ pos \in [Clients -> Cells]
      /\ ~full => head = 0
  BY DEF ReadInv, ShapeInv, TypeOK, Stream, RingShape
<1>2. /\ UNCHANGED <<cpc, pos, next, bad, join, stale>> /\ Subscribed' = Subscribed
      /\ wrote' = wrote + 1 /\ tail' = Succ(tail) /\ lapped' = lapped \cup Overtaken
  BY DEF Put, clientVars, Subscribed
<1>3. SUFFICES ASSUME NEW c \in Subscribed, c \notin lapped' \cup stale'
               PROVE  InStep(c)'
  BY <1>2 DEF ReadInv, ClientsInStep
<1>4. c \in Clients /\ pos[c] \in Cells /\ InStep(c) /\ wrote + 1 - next[c] < Size
  <2>1. c \in Clients /\ pos[c] \in Cells
    BY <1>1 DEF Subscribed
  <2>2. InStep(c)
    BY <1>2, <1>3 DEF ReadInv, ClientsInStep
  <2>3. Dist(pos[c], tail) \in Nat
    BY <1>1, <2>1 DEF Dist, Cells
  <2>4. next[c] \in Int
    BY <1>1, <2>2, <2>3 DEF InStep
  <2>5. ~(wrote + 1 - next[c] >= Size)
    BY <1>2, <1>3 DEF Overtaken
  <2> QED
    BY <1>1, <2>1, <2>2, <2>4, <2>5
<1>5. next[c] = wrote' - Dist(pos[c], tail')
  <2>1. Dist(pos[c], tail) \in Nat /\ Dist(pos[c], tail) + 1 < Size
    BY <1>1, <1>4 DEF InStep, Dist, Cells
  <2>2. Dist(pos[c], Succ(tail)) = Dist(pos[c], tail) + 1
    BY <1>1, <1>4, <2>1, DistGrows
  <2> QED
    BY <1>1, <1>2, <1>4, <2>1, <2>2 DEF InStep
<1>6. ~full' => pos[c] <= tail'
  BY <1>1, <1>2, <1>4, PutWraps DEF InStep, Succ, Cells
<1> QED
  BY <1>2, <1>4, <1>5, <1>6 DEF InStep

LEMMA WriterRead ==
  ASSUME ReadInv, NEW w \in Writers,
         Encode(w) \/ MarkGOP(w) \/ BeginWrite(w) \/ Put(w) \/ EndWrite(w)
  PROVE  Content' /\ StartsAtTags' /\ ClientsInStep'
<1> USE DEF ReadInv, sinkVars, ringVars, clientVars, streamHist, clientHist
<1>1. CASE Put(w)
  BY <1>1, PutContent, PutStarts, PutClients
<1>2. CASE Encode(w) \/ MarkGOP(w) \/ BeginWrite(w) \/ EndWrite(w)
  <2>1. /\ UNCHANGED <<buf, head, tail, full, cpc, pos, wrote, clientHist>>
        /\ Subscribed' = Subscribed
    BY <1>2 DEF Encode, MarkGOP, BeginWrite, EndWrite, Subscribed
  <2>2. Content' /\ ClientsInStep'
    BY <2>1 DEF Content, Back, ClientsInStep, InStep
  <2>3. StartsAtTags'
    <3>1. CASE Encode(w)
      BY <2>1, <3>1 DEF Encode, StartsAtTags, Free
    <3>2. CASE MarkGOP(w)
      <4>1. tail \in Nat /\ mu' = mu /\ gopPos' = tail /\ starts' = starts
        BY <3>2 DEF MarkGOP, ShapeInv, TypeOK, Cells
      <4> QED
        BY <2>1, <3>2, <4>1 DEF MarkGOP, StartsAtTags, Free
    <3>3. CASE BeginWrite(w)
      <4>1. wrote \in starts' /\ starts \subseteq starts' /\ gopPos' = gopPos
        BY <3>3 DEF BeginWrite
      <4> QED
        BY <2>1, <4>1 DEF StartsAtTags
    <3>4. CASE EndWrite(w)
      <4>1. Free' /\ gopPos' = gopPos /\ starts' = starts
        BY <3>4 DEF EndWrite, Free
      <4> QED
        BY <2>1, <4>1 DEF StartsAtTags
    <3> QED
      BY <1>2, <3>1, <3>2, <3>3, <3>4
  <2> QED
    BY <2>2, <2>3
<1> QED
  BY <1>1, <1>2

\* What a client in step copies is what is due to it, and it stays in step.
LEMMA CopyInStep ==
  ASSUME ReadInv, NEW c \in Subscribed, NEW n \in 0 .. Dist(pos[c], tail), Copy(c, n),
         InStep(c), UNCHANGED <<buf, tail, full, wrote, join>>
  PROVE  InStep(c)'
<1> USE RingAssumption
<1>1. /\ c \in Clients /\ wrote \in Nat /\ tail \in Cells /\ pos[c] \in Cells
      /\ pos \in [Clients -> Cells] /\ next \in [Clients -> Nat]
  BY DEF ReadInv, ShapeInv, TypeOK, Subscribed, Stream
<1>2. Dist(pos[c], tail) \in 0 .. Size - 1 /\ n \in Nat
  BY <1>1 DEF Dist, Cells
<1>3. pos'[c] = Plus(pos[c], n) /\ next'[c] = next[c] + n
  BY <1>1 DEF Copy
<1>4. next'[c] = wrote' - Dist(pos'[c], tail')
  <2>1. Dist(Plus(pos[c], n), tail) = Dist(pos[c], tail) - n
    BY <1>1, DistShrinks
  <2> QED
    BY <1>1, <1>2, <1>3, <2>1 DEF InStep
<1>5. ~full' => pos'[c] <= tail'
  BY <1>1, <1>2, <1>3 DEF InStep, Plus, Dist, Cells
<1>6. \A k \in 0 .. n - 1 : buf[Plus(pos[c], k)] = next[c] + k
  <2>1. SUFFICES ASSUME NEW k \in 0 .. n - 1 PROVE buf[Plus(pos[c], k)] = next[c] + k
    OBVIOUS
  <2>2. Plus(pos[c], k) \in Cells /\ (full \/ Plus(pos[c], k) < tail)
    BY <1>1, <1>2 DEF InStep, Plus, Dist, Cells
  <2>3. Back(Plus(pos[c], k)) = Dist(pos[c], tail) - k
    BY <1>1, <1>2 DEF Back, Plus, Dist, Cells
  <2>4. buf[Plus(pos[c], k)] = wrote - Back(Plus(pos[c], k))
    BY <2>2 DEF ReadInv, Content
  <2> QED
    BY <1>1, <1>2, <2>3, <2>4 DEF InStep
<1>7. bad' = bad
  BY <1>6 DEF Copy
<1> QED
  BY <1>4, <1>5, <1>7 DEF InStep

LEMMA ClientRead ==
  ASSUME ReadInv, NEW c \in Clients, ClientStep(c)
  PROVE  Content' /\ StartsAtTags' /\ ClientsInStep'
<1>1. UNCHANGED <<sinkVars, ringVars, writerVars, streamHist>>
  BY ClientFrame
<1>2. Content' /\ StartsAtTags'
  BY <1>1 DEF ReadInv, ringVars, writerVars, streamHist, Content, Back, StartsAtTags, Free
<1>3. /\ cpc \in [Clients -> {"new", "admitted", "joined", "listed", "prefixed", "wait", "read",
                             "gone"}]
      /\ pos \in [Clients -> Cells] /\ next \in [Clients -> Nat] /\ join \in [Clients -> Joins]
  BY DEF ReadInv, ShapeInv, TypeOK
<1>4. \* the other clients
      /\ \A d \in Clients \ {c} :
           /\ cpc'[d] = cpc[d] /\ pos'[d] = pos[d] /\ next'[d] = next[d] /\ join'[d] = join[d]
           /\ (d \in bad' <=> d \in bad) /\ (d \in lapped' <=> d \in lapped)
           /\ (d \in stale' <=> d \in stale)
      /\ bad' \subseteq bad \cup {c}
  BY <1>3 DEF ClientStep, Admit, Join, List, SendPrefix, Replay, Wake, Read, EndOfData, Leave,
              Step, Copy, clientVars, clientHist
<1>5. /\ c \in Subscribed' => c \in lapped' \cup stale' \/ InStep(c)'
      /\ c \in bad' => c \in Subscribed'
  <2> USE <1>1, <1>3 DEF Step, clientVars, clientHist, ringVars, streamHist
  <2>0. (c \in bad => c \in Subscribed) /\ (c \in Subscribed => c \in lapped \cup stale \/ InStep(c))
    BY DEF ReadInv, ClientsInStep
  <2>1. CASE Admit(c)
    BY <2>0, <2>1 DEF Admit, Subscribed
  <2>2. CASE Join(c)
    <3>1. c \notin Subscribed
      BY <2>2 DEF Join, Subscribed
    <3>2. c \notin bad' /\ bad' = bad
      BY <2>0, <2>2, <3>1 DEF Join
    <3>3. /\ pos'[c] = StartPos /\ next'[c] = wrote - Dist(StartPos, tail)
          /\ join'[c].whole = (wrote - Dist(StartPos, tail) \in starts \cup {wrote})
      BY <2>2 DEF Join
    <3>4. wrote - Dist(StartPos, tail) \in starts \cup {wrote}
      <4>1. /\ wrote \in Nat /\ tail \in Cells /\ head \in Cells /\ gopPos \in Cells
            /\ IF full THEN head = tail ELSE head = 0
        BY RingAssumption DEF ReadInv, ShapeInv, TypeOK, RingShape, Stream
      <4>2. CASE full
        <5>1. Dist(StartPos, tail) = 0
          BY <4>1, <4>2, RingAssumption DEF StartPos, Dist, Cells
        <5> QED
          BY <4>1, <5>1
      <4>3. CASE ~full
        <5>1. StartPos = 0 \/ (StartPos = gopPos /\ gopPos < tail)
          BY <4>1, <4>3 DEF StartPos, GopValid, Cells
        <5>2. Dist(StartPos, tail) = tail - StartPos
          BY <4>1, <5>1 DEF Dist, Cells
        <5>3. /\ tail > 0 => wrote - tail \in starts
              /\ gopPos < tail => wrote - (tail - gopPos) \in starts
          BY <4>3 DEF ReadInv, StartsAtTags
        <5> QED
          BY <4>1, <5>1, <5>2, <5>3 DEF Cells
      <4> QED
        BY <4>2, <4>3
    <3>5. ~full => StartPos <= tail
      BY StartBounds DEF ReadInv
    <3> QED
      BY <3>2, <3>3, <3>4, <3>5 DEF InStep
  <2>3. CASE List(c)
    BY <2>0, <2>3 DEF List, Subscribed, InStep
  <2>4. CASE SendPrefix(c)
    BY <2>0, <2>4 DEF SendPrefix, Subscribed, InStep
  <2>5. CASE Replay(c)
    <3>1. c \in Subscribed /\ c \in Subscribed' /\ UNCHANGED <<lapped, stale, join>>
      BY <2>5 DEF Replay, Subscribed
    <3>2. Dist(pos[c], tail) \in 0 .. Dist(pos[c], tail)
      BY RingAssumption DEF ReadInv, ShapeInv, TypeOK, Dist, Cells
    <3>3. InStep(c) => InStep(c)'
      BY <2>5, <3>1, <3>2, CopyInStep DEF Replay
    <3> QED
      BY <2>0, <3>1, <3>3
  <2>6. CASE Wake(c)
    BY <2>0, <2>6 DEF Wake, Subscribed, InStep
  <2>7. CASE Read(c)
    <3>1. c \in Subscribed /\ c \in Subscribed' /\ UNCHANGED <<lapped, stale, join>>
      BY <2>7 DEF Read, ReadAgain, Subscribed
    <3>2. Least(ReadSize, Unread(c)) \in 0 .. Dist(pos[c], tail)
      BY RingAssumption DEF ReadInv, ShapeInv, TypeOK, Unread, Least, Dist, Cells
    <3>3. InStep(c) => InStep(c)'
      BY <2>7, <3>1, <3>2, CopyInStep DEF Read
    <3> QED
      BY <2>0, <3>1, <3>3
  <2>8. CASE EndOfData(c)
    BY <2>0, <2>8 DEF EndOfData, Subscribed, InStep
  <2>9. CASE Leave(c)
    BY <2>9 DEF Leave, Subscribed
  <2> QED
    BY <2>1, <2>2, <2>3, <2>4, <2>5, <2>6, <2>7, <2>8, <2>9 DEF ClientStep
<1>6. ASSUME NEW d \in Clients \ {c}
      PROVE  /\ d \in Subscribed' <=> d \in Subscribed
             /\ InStep(d)' <=> InStep(d)
  BY <1>1, <1>4 DEF Subscribed, InStep, ringVars, streamHist
<1>7. ClientsInStep'
  BY <1>4, <1>5, <1>6 DEF ReadInv, ClientsInStep, Subscribed
<1> QED
  BY <1>2, <1>7

LEMMA NextRead == ReadInv /\ [Next]_vars => ReadInv'
<1> SUFFICES ASSUME ReadInv, [Next]_vars PROVE ReadInv'
  OBVIOUS
<1>1. ShapeInv'
  BY NextShape DEF ReadInv
<1>2. Content' /\ StartsAtTags' /\ ClientsInStep'
  <2>1. CASE Start \/ Configure \/ Stop
    BY <2>1, SinkRead
  <2>2. ASSUME NEW w \in Writers,
               Encode(w) \/ MarkGOP(w) \/ BeginWrite(w) \/ Put(w) \/ EndWrite(w)
        PROVE  Content' /\ StartsAtTags' /\ ClientsInStep'
    BY <2>2, WriterRead
  <2>3. ASSUME NEW c \in Clients, ClientStep(c)
        PROVE  Content' /\ StartsAtTags' /\ ClientsInStep'
    BY <2>3, ClientRead
  <2>4. CASE UNCHANGED vars
    BY <2>4 DEF vars, ringVars, writerVars, clientVars, streamHist, clientHist, ReadInv,
                Content, Back, StartsAtTags, Free, ClientsInStep, InStep, Subscribed
  <2> QED
    BY <2>1, <2>2, <2>3, <2>4 DEF Next, ClientStep
<1> QED
  BY <1>1, <1>2 DEF ReadInv

(* A client gets the stream from the start of a tag on, every byte once and   *)
(* in order, for any ring, any number of writers and of other clients, until  *)
(* it is lapped or the sink is configured again under it (ServeHTTP and       *)
(* flvRing).                                                                  *)
THEOREM ClientsGetWholeTags == Spec => []WholeTags
<1>1. ReadInv => WholeTags
  BY DEF ReadInv, ClientsInStep, InStep, WholeTags
<1> QED
  BY <1>1, InitRead, NextRead, PTL DEF Spec
-----------------------------------------------------------------------------
(* Wake-ups.  With the types and the shape, NoLostWakeup is inductive: while a *)
(* tag is being put the lock is held, and the end of the write leaves nobody's *)
(* channel empty.                                                              *)

WakeInv == ShapeInv /\ NoLostWakeup

\* Only what a client itself does brings it to the channel.
Waiting(c) == Free /\ cpc[c] = "wait" /\ ch[c] = 0
Served(c) == c \in stale \/ pos[c] = tail

LEMMA InitWake == Init => NoLostWakeup
BY DEF Init, NoLostWakeup

LEMMA SinkWake ==
  ASSUME WakeInv, Start \/ Configure \/ Stop
  PROVE  NoLostWakeup'
<1> USE DEF WakeInv, NoLostWakeup, Free, clientVars, writerVars
<1>1. CASE Start
  BY <1>1 DEF Start, ringVars, clientHist
<1>2. CASE Configure
  BY <1>2 DEF Configure, Subscribed
<1>3. CASE Stop
  BY <1>3 DEF Stop, ringVars, clientHist
<1> QED
  BY <1>1, <1>2, <1>3

LEMMA WriterWake ==
  ASSUME WakeInv, NEW w \in Writers,
         Encode(w) \/ MarkGOP(w) \/ BeginWrite(w) \/ Put(w) \/ EndWrite(w)
  PROVE  NoLostWakeup'
<1> USE DEF WakeInv, NoLostWakeup, Free, clientVars, clientHist, ringVars
<1>1. CASE Encode(w)
  BY <1>1 DEF Encode
<1>2. CASE MarkGOP(w)
  BY <1>2 DEF MarkGOP
<1>3. CASE BeginWrite(w)
  BY <1>3, RingAssumption DEF BeginWrite
<1>4. CASE Put(w)
  BY <1>4, RingAssumption DEF Put
<1>5. CASE EndWrite(w)
  <2> SUFFICES ASSUME NEW c \in Clients, cpc[c] = "wait" PROVE ch'[c] # 0
    BY <1>5 DEF EndWrite
  <2>1. c \in Subscribed
    BY DEF Subscribed
  <2>2. ch[c] \in 0 .. NotifyCap
    BY DEF ShapeInv, TypeOK
  <2>3. ch'[c] = IF ch[c] < NotifyCap THEN ch[c] + 1 ELSE ch[c]
    BY <1>5, <2>1 DEF EndWrite, Notified
  <2> QED
    BY <2>2, <2>3, RingAssumption
<1> QED
  BY <1>1, <1>2, <1>3, <1>4, <1>5

LEMMA ClientWake ==
  ASSUME WakeInv, NEW c \in Clients, ClientStep(c)
  PROVE  NoLostWakeup'
<1> USE DEF WakeInv
<1>0. /\ cpc \in [Clients -> {"new", "admitted", "joined", "listed", "prefixed", "wait", "read",
                             "gone"}]
      /\ pos \in [Clients -> Cells] /\ ch \in [Clients -> 0 .. NotifyCap] /\ tail \in Cells
  BY DEF ShapeInv, TypeOK
<1>1. /\ UNCHANGED <<mu, tail>>
      /\ stale' \ {c} = stale \ {c}
  BY DEF ClientStep, Admit, Join, List, SendPrefix, Replay, Wake, Read, EndOfData, Leave, Copy,
         ringVars, writerVars, clientHist
<1>2. ASSUME NEW d \in Clients \ {c}
      PROVE  cpc'[d] = cpc[d] /\ pos'[d] = pos[d] /\ ch'[d] = ch[d]
  BY <1>0 DEF ClientStep, Admit, Join, List, SendPrefix, Replay, Wake, Read, EndOfData, Leave,
              Copy, Step, clientVars
<1>3. Waiting(c)' => Served(c)'
  <2>1. CASE Replay(c)
    <3>1. Dist(pos[c], tail) \in 0 .. Size - 1
      BY <1>0, Positions, RingAssumption
    <3>2. Plus(pos[c], Dist(pos[c], tail)) = tail
      BY <1>0, RingAssumption DEF Plus, Dist, Cells
    <3> QED
      BY <2>1, <1>0, <1>1, <3>2 DEF Replay, Copy, Served
  <2>2. CASE EndOfData(c)
    <3>1. pos[c] = tail
      BY <2>2, <1>0, RingAssumption DEF EndOfData, Unread, Dist, Cells
    <3> QED
      BY <2>2, <3>1 DEF EndOfData, Served, ringVars
  <2>3. CASE Admit(c) \/ Join(c) \/ List(c) \/ SendPrefix(c) \/ Wake(c) \/ Read(c) \/ Leave(c)
    BY <2>3, <1>0 DEF Admit, Join, List, SendPrefix, Wake, Read, ReadAgain, Leave, Step, Waiting
  <2> QED
    BY <2>1, <2>2, <2>3 DEF ClientStep
<1> QED
  BY <1>1, <1>2, <1>3 DEF NoLostWakeup, Waiting, Served, Free

(* A client that waits on an empty channel has read what the ring holds, for   *)
(* any ring, any capacity of the channels and any clients: the wake-ups a full *)
(* channel drops are never the last (flvRing.notifyLocked and ServeHTTP).      *)
THEOREM WakeupsSuffice == Spec => []NoLostWakeup
<1>1. WakeInv /\ [Next]_vars => WakeInv'
  <2> SUFFICES ASSUME WakeInv, [Next]_vars PROVE WakeInv'
    OBVIOUS
  <2>1. ShapeInv'
    BY NextShape DEF WakeInv
  <2>2. CASE Start \/ Configure \/ Stop
    BY <2>1, <2>2, SinkWake DEF WakeInv
  <2>3. ASSUME NEW w \in Writers,
               Encode(w) \/ MarkGOP(w) \/ BeginWrite(w) \/ Put(w) \/ EndWrite(w)
        PROVE  NoLostWakeup'
    BY <2>3, WriterWake
  <2>4. ASSUME NEW c \in Clients, ClientStep(c)
        PROVE  NoLostWakeup'
    BY <2>4, ClientWake
  <2>5. CASE UNCHANGED vars
    BY <2>1, <2>5 DEF WakeInv, NoLostWakeup, Free, vars, ringVars, writerVars, clientVars,
                      clientHist
  <2> QED
    BY <2>1, <2>2, <2>3, <2>4, <2>5 DEF Next, ClientStep, WakeInv
<1>2. Init => WakeInv
  BY InitShape, InitWake DEF WakeInv
<1> QED
  BY <1>1, <1>2, PTL DEF Spec, WakeInv
-----------------------------------------------------------------------------
(* The GOP mark.  A mark that no other tag has overtaken is at the tail        *)
(* (MarkFresh); while a tag is being put every other mark is overtaken         *)
(* (MarksLate); and where the last keyframe is in a ring that has not wrapped, *)
(* gopPos is as far behind the tail as the keyframe is behind the stream       *)
(* (MarkTrue), which is by a byte at least once the lock is free (KeyBegun).   *)

MarkFresh == \A w \in Writers : wpc[w] = "marked" /\ w \notin late => gopPos = tail
MarksLate == mu # None => \A w \in Writers : wpc[w] = "marked" => w \in late
Unmarked == \A w \in Writers : wpc[w] # "marked"
KeyHeld == lastKey # NoKey /\ lastKey >= wrote - tail
MarkTrue == Unmarked /\ KeyHeld /\ ~raced /\ ~full => tail - gopPos = wrote - lastKey
KeyBegun == /\ lastKey <= wrote
            /\ mu = None => lastKey < wrote
            /\ \A w \in Writers : mu = w /\ left[w] = 0 => lastKey < wrote
GopInv == ShapeInv /\ MarkFresh /\ MarksLate /\ MarkTrue /\ KeyBegun /\ JoinsAtGOP

LEMMA InitGop == Init => MarkFresh /\ MarksLate /\ MarkTrue /\ KeyBegun /\ JoinsAtGOP
BY RingAssumption DEF Init, MarkFresh, MarksLate, MarkTrue, Unmarked, KeyHeld, KeyBegun, JoinsAtGOP,
                      Subscribed, NoKey

LEMMA GopFacts ==
  ASSUME ShapeInv
  PROVE  /\ wrote \in Nat /\ lastKey \in Int /\ Size \in Nat /\ Size > 1
         /\ tail \in 0 .. Size - 1 /\ gopPos \in 0 .. Size - 1 /\ head \in 0 .. Size - 1
         /\ full \in BOOLEAN /\ (~full => head = 0)
         /\ left \in [Writers -> 0 .. MaxTag] /\ MaxTag \in Nat
         /\ wpc \in [Writers -> {"idle", "coded", "marked", "put"}]
         /\ raced \in BOOLEAN
BY RingAssumption DEF ShapeInv, TypeOK, RingShape, Cells, Stream, NoKey

LEMMA SinkGop ==
  ASSUME GopInv, Start \/ Configure \/ Stop
  PROVE  MarkFresh' /\ MarksLate' /\ MarkTrue' /\ KeyBegun' /\ JoinsAtGOP'
<1> USE DEF GopInv, MarkFresh, MarksLate, MarkTrue, Unmarked, KeyHeld, KeyBegun, JoinsAtGOP,
            Subscribed, Free, writerVars, clientVars, streamHist, clientHist, ringVars
<1>1. CASE Start
  BY <1>1 DEF Start
<1>2. CASE Configure
  BY <1>2, GopFacts DEF Configure
<1>3. CASE Stop
  BY <1>3 DEF Stop
<1> QED
  BY <1>1, <1>2, <1>3

LEMMA WriterGop ==
  ASSUME GopInv, NEW w \in Writers,
         Encode(w) \/ MarkGOP(w) \/ BeginWrite(w) \/ Put(w) \/ EndWrite(w)
  PROVE  MarkFresh' /\ MarksLate' /\ MarkTrue' /\ KeyBegun' /\ JoinsAtGOP'
<1> USE DEF GopInv
<1>0. JoinsAtGOP'
  BY DEF JoinsAtGOP, Subscribed, Encode, MarkGOP, BeginWrite, Put, EndWrite, clientVars, clientHist
<1>a. w # None
  BY RingAssumption
<1>1. CASE Encode(w)
  BY <1>0, <1>1, GopFacts
  DEF Encode, MarkFresh, MarksLate, MarkTrue, Unmarked, KeyHeld, KeyBegun, streamHist, ringVars
<1>2. CASE MarkGOP(w)
  <2>1. wpc'[w] = "marked" /\ w \notin late'
    BY <1>2, GopFacts DEF MarkGOP
  <2>2. MarkFresh' /\ MarksLate' /\ MarkTrue'
    BY <1>2, <2>1 DEF MarkGOP, Free, MarkFresh, MarksLate, MarkTrue, Unmarked
  <2> QED
    BY <1>0, <1>2, <2>2 DEF MarkGOP, Free, KeyBegun
<1>3. CASE BeginWrite(w)
  <2>1. /\ mu = None /\ mu' = w /\ wpc' = [wpc EXCEPT ![w] = "put"]
        /\ late' = (late \ {w}) \cup {v \in Writers \ {w} : wpc[v] = "marked"}
        /\ UNCHANGED <<tail, gopPos, full, wrote>>
        /\ lastKey' = IF tag[w].key THEN wrote ELSE lastKey
        /\ wpc[w] = (IF tag[w].key THEN "marked" ELSE "coded")
    BY <1>3 DEF BeginWrite, Free, ringVars
  <2>2. left'[w] > 0 /\ left' \in [Writers -> Int]
    BY <1>3, GopFacts DEF BeginWrite, ShapeInv, TypeOK, Tags
  <2>3. ASSUME NEW v \in Writers, wpc'[v] = "marked" PROVE v \in late'
    BY <2>1, <2>3, GopFacts
  <2>4. MarkFresh' /\ MarksLate'
    BY <2>3 DEF MarkFresh, MarksLate
  <2>5. KeyBegun'
    BY <2>1, <2>2, <1>a, GopFacts DEF KeyBegun
  <2>6. MarkTrue'
    <3> SUFFICES ASSUME Unmarked', KeyHeld', ~raced', ~full'
                 PROVE  tail' - gopPos' = wrote' - lastKey'
      BY DEF MarkTrue
    <3>1. CASE tag[w].key
      <4>1. raced' = (w \in late)
        BY <1>3, <3>1 DEF BeginWrite
      <4>2. gopPos = tail
        BY <4>1, <2>1, <3>1 DEF MarkFresh
      <4> QED
        BY <4>2, <2>1, <3>1, GopFacts
    <3>2. CASE ~tag[w].key
      <4>1. raced' = raced /\ lastKey' = lastKey
        BY <1>3, <3>2 DEF BeginWrite
      <4>2. Unmarked
        BY <2>1, <3>2, GopFacts DEF Unmarked
      <4> QED
        BY <4>1, <4>2, <2>1 DEF MarkTrue, KeyHeld
    <3> QED
      BY <3>1, <3>2
  <2> QED
    BY <1>0, <2>4, <2>5, <2>6
<1>4. CASE Put(w)
  <2>1. /\ mu = w /\ tail' = Succ(tail) /\ wrote' = wrote + 1
        /\ UNCHANGED <<gopPos, mu, wpc, lastKey, late, raced>>
    BY <1>4 DEF Put
  <2>2. MarkFresh' /\ MarksLate'
    BY <2>1, <1>a DEF MarkFresh, MarksLate
  <2>3. KeyBegun'
    BY <2>1, <1>a, GopFacts DEF KeyBegun
  <2>4. ASSUME ~full' PROVE ~full /\ tail' = tail + 1
    <3>1. ~full /\ full' = (Succ(tail) = head)
      BY <1>4, <2>4 DEF Put, AdvanceHead
    <3>2. head = 0 /\ Succ(tail) # head
      BY <2>4, <3>1, GopFacts
    <3> QED
      BY <2>1, <3>1, <3>2, GopFacts DEF Succ
  <2>5. MarkTrue'
    BY <2>1, <2>4, GopFacts DEF MarkTrue, Unmarked, KeyHeld
  <2> QED
    BY <1>0, <2>2, <2>3, <2>5
<1>5. CASE EndWrite(w)
  <2>0. wpc[w] = "put"
    BY <1>5 DEF EndWrite, ShapeInv, LockInv
  <2>1. MarkFresh' /\ MarksLate' /\ MarkTrue'
    BY <1>5, <2>0, GopFacts DEF EndWrite, MarkFresh, MarksLate, MarkTrue, Unmarked, KeyHeld, ringVars,
                          streamHist
  <2>2. KeyBegun'
    BY <1>5, <1>a, GopFacts DEF EndWrite, KeyBegun, streamHist
  <2> QED
    BY <1>0, <2>1, <2>2
<1> QED
  BY <1>1, <1>2, <1>3, <1>4, <1>5

LEMMA ClientGop ==
  ASSUME GopInv, NEW c \in Clients, ClientStep(c)
  PROVE  MarkFresh' /\ MarksLate' /\ MarkTrue' /\ KeyBegun' /\ JoinsAtGOP'
<1> USE DEF GopInv
<1>1. UNCHANGED <<ringVars, writerVars, streamHist>>
  BY DEF ClientStep, Admit, Join, List, SendPrefix, Replay, Wake, Read, EndOfData, Leave
<1>2. MarkFresh' /\ MarksLate' /\ MarkTrue' /\ KeyBegun'
  BY <1>1 DEF MarkFresh, MarksLate, MarkTrue, Unmarked, KeyHeld, KeyBegun, ringVars, writerVars,
              streamHist
<1>3. /\ cpc \in [Clients -> {"new", "admitted", "joined", "listed", "prefixed", "wait", "read",
                             "gone"}]
      /\ join \in [Clients -> Joins]
  BY DEF ShapeInv, TypeOK
<1>4. CASE Join(c)
  <2> DEFINE j == [at |-> wrote - Dist(StartPos, tail),
                   whole |-> wrote - Dist(StartPos, tail) \in starts \cup {wrote},
                   key |-> KeyInRing, full |-> full,
                   raced |-> raced \/ \E w \in Writers : wpc[w] = "marked"]
  <2>1. join' = [join EXCEPT ![c] = j] /\ cpc' = [cpc EXCEPT ![c] = "joined"] /\ mu = None
    BY <1>4 DEF Join, Step, Free
  <2>2. ASSUME KeyInRing # NoKey, ~full, ~raced, Unmarked PROVE wrote - Dist(StartPos, tail) = KeyInRing
    <3>1. head = 0 /\ Held = tail
      BY <2>2, GopFacts DEF Held, Dist
    <3>2. KeyInRing = lastKey /\ KeyHeld
      BY <2>2, <3>1 DEF KeyInRing, KeyHeld
    <3>3. tail - gopPos = wrote - lastKey /\ lastKey < wrote
      BY <2>1, <2>2, <3>2 DEF MarkTrue, KeyBegun
    <3>4. gopPos < tail
      BY <3>3, GopFacts
    <3>5. StartPos = gopPos
      BY <2>2, <3>1, <3>4, GopFacts DEF StartPos, GopValid
    <3> QED
      BY <3>2, <3>3, <3>4, <3>5, GopFacts DEF Dist
  <2>3. j.key # NoKey /\ ~j.full /\ ~j.raced => j.at = j.key
    BY <2>2 DEF Unmarked
  <2> HIDE DEF j
  <2>4. ASSUME NEW d \in Subscribed' PROVE d = c \/ (d \in Subscribed /\ join'[d] = join[d])
    BY <2>1, <1>3 DEF Subscribed
  <2> QED
    BY <1>2, <1>3, <2>1, <2>3, <2>4 DEF JoinsAtGOP
<1>5. CASE Leave(c)
  <2>1. ASSUME NEW d \in Subscribed' PROVE d \in Subscribed /\ join'[d] = join[d]
    BY <1>3, <1>5 DEF Leave, Step, Subscribed
  <2> QED
    BY <1>2, <2>1 DEF JoinsAtGOP
<1>6. CASE \/ Admit(c) \/ List(c) \/ SendPrefix(c) \/ Replay(c) \/ Wake(c) \/ Read(c)
           \/ EndOfData(c)
  <2>1. join' = join /\ Subscribed' \subseteq Subscribed
    BY <1>3, <1>6 DEF Admit, List, SendPrefix, Replay, Wake, Read, ReadAgain, EndOfData, Step,
                      Subscribed, clientHist
  <2> QED
    BY <1>2, <2>1 DEF JoinsAtGOP
<1> QED
  BY <1>4, <1>5, <1>6 DEF ClientStep

(* A client that connects before the ring has wrapped starts at the latest    *)
(* keyframe, for any ring, tags, writers and clients, unless a second writer  *)
(* got in between the mark and the tag (markGOP, write and newReader).        *)
THEOREM MarkLeadsToKeyframe == Spec => []JoinsAtGOP
<1>1. GopInv /\ [Next]_vars => GopInv'
  <2> SUFFICES ASSUME GopInv, [Next]_vars PROVE GopInv'
    OBVIOUS
  <2>1. ShapeInv'
    BY NextShape DEF GopInv
  <2>2. MarkFresh' /\ MarksLate' /\ MarkTrue' /\ KeyBegun' /\ JoinsAtGOP'
    <3>1. CASE Start \/ Configure \/ Stop
      BY <3>1, SinkGop
    <3>2. ASSUME NEW w \in Writers,
                 Encode(w) \/ MarkGOP(w) \/ BeginWrite(w) \/ Put(w) \/ EndWrite(w)
          PROVE  MarkFresh' /\ MarksLate' /\ MarkTrue' /\ KeyBegun' /\ JoinsAtGOP'
      BY <3>2, WriterGop
    <3>3. ASSUME NEW c \in Clients, ClientStep(c)
          PROVE  MarkFresh' /\ MarksLate' /\ MarkTrue' /\ KeyBegun' /\ JoinsAtGOP'
      BY <3>3, ClientGop
    <3>4. CASE UNCHANGED vars
      BY <3>4 DEF GopInv, MarkFresh, MarksLate, MarkTrue, Unmarked, KeyHeld, KeyBegun, JoinsAtGOP,
                  Subscribed, vars, ringVars, writerVars, clientVars, streamHist, clientHist
    <3> QED
      BY <3>1, <3>2, <3>3, <3>4 DEF Next, ClientStep
  <2> QED
    BY <2>1, <2>2 DEF GopInv
<1>2. Init => GopInv
  BY InitShape, InitGop DEF GopInv
<1> QED
  BY <1>1, <1>2, PTL DEF Spec, GopInv
=============================================================================
