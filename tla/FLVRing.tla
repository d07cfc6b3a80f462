------------------------------- MODULE FLVRing -------------------------------
(***************************************************************************)
(* media.HTTPFLVSink (src/server/internal/media/httpflv_sink.go): the        *)
(* goroutines of pipes encode frames into one ring of bytes; each HTTP       *)
(* client follows it with a cursor of its own and a channel of wake-ups.     *)
(*                                                                           *)
(* h.mu guards the state of the sink, ring.mu the ring; a section under a    *)
(* lock is one step, except flvRing.write, whose loop is one step per byte   *)
(* with mu held.  A "byte" stands for a stretch of the real stream; a tag is *)
(* 1 to MaxTag of them.  Its value is its number in the whole stream, so     *)
(* what a client reads shows whether a byte is lost, repeated or foreign.    *)
(***************************************************************************)
EXTENDS Integers, FiniteSets

CONSTANTS Writers,     \* goroutines inside WriteFrame: two while runs of a pipe overlap
          Clients,     \* HTTP connections
          Size,        \* len(buf); 2 MiB in the code
          ReadSize,    \* bytes one Read takes; 32 KiB in the code
          NotifyCap,   \* capacity of a reader's channel; 16 in the code
          MaxTag,      \* bound: bytes of a tag
          MaxBytes,    \* bound: bytes written in all
          MaxConfigs,  \* bound: calls of Configure
          None         \* nobody

ASSUME RingAssumption == /\ Size \in Nat \ {0, 1}
                         /\ ReadSize \in Nat \ {0} /\ NotifyCap \in Nat \ {0}
                         /\ MaxTag \in Nat \ {0} /\ MaxBytes \in Nat /\ MaxConfigs \in Nat
                         /\ None \notin Writers

VARIABLES
  status, ready, configs,             \* the sink; calls of Configure so far
  buf, head, tail, full, gopPos,      \* flvRing
  mu,                                 \* holder of ring.mu between steps, or None
  wpc, tag, left,                     \* a writer: where it is, its tag, bytes still to write
  cpc, pos, ch, listed,               \* a client: where it is, cursor, wake-ups; h.flvClients
  wrote, starts, lastKey,             \* history: bytes written, where tags and the last keyframe start
  late, raced,                        \* history: writers whose mark is wrong, whether gopPos is
  next, bad, join,                    \* history of clients: the byte due, whether another came
  lapped, stale                       \* history: clients overtaken, clients connected at a Configure

sinkVars == <<status, ready, configs>>
ringVars == <<buf, head, tail, full, gopPos>>
writerVars == <<mu, wpc, tag, left>>
clientVars == <<cpc, pos, ch, listed>>
streamHist == <<wrote, starts, lastKey, late, raced>>
clientHist == <<next, bad, join, lapped, stale>>
vars == <<sinkVars, ringVars, writerVars, clientVars, streamHist, clientHist>>

Cells == 0 .. Size - 1
Stream == 0 .. MaxBytes
Tags == [key : BOOLEAN, len : 1 .. MaxTag]
NoTag == [key |-> FALSE, len |-> 1]
NoKey == -1
\* How a client joined: where it starts and whether that is the start of a
\* tag, the keyframe it could have started at, whether the ring was full,
\* whether a second writer made gopPos unreliable.
Joins == [at : Stream, whole : BOOLEAN, key : Stream \cup {NoKey}, full : BOOLEAN, raced : BOOLEAN]
NotJoined == [at |-> 0, whole |-> TRUE, key |-> NoKey, full |-> FALSE, raced |-> FALSE]

Subscribed == {c \in Clients : cpc[c] \in {"joined", "listed", "prefixed", "wait", "read"}}

TypeOK ==
  /\ status \in {"stopped", "running"} /\ ready \in BOOLEAN /\ configs \in 0 .. MaxConfigs
  /\ buf \in [Cells -> Stream \cup {NoKey}]
  /\ head \in Cells /\ tail \in Cells /\ gopPos \in Cells /\ full \in BOOLEAN
  /\ mu \in Writers \cup {None}
  /\ wpc \in [Writers -> {"idle", "coded", "marked", "put"}]
  /\ tag \in [Writers -> Tags] /\ left \in [Writers -> 0 .. MaxTag]
  /\ cpc \in [Clients -> {"new", "admitted", "joined", "listed", "prefixed", "wait", "read", "gone"}]
  /\ pos \in [Clients -> Cells] /\ ch \in [Clients -> 0 .. NotifyCap]
  /\ listed \in SUBSET Subscribed
  /\ wrote \in Stream /\ starts \in SUBSET Stream /\ lastKey \in Stream \cup {NoKey}
  /\ late \in SUBSET Writers /\ raced \in BOOLEAN
  /\ next \in [Clients -> Nat] /\ bad \in SUBSET Clients /\ lapped \in SUBSET Clients
  /\ stale \in SUBSET Clients /\ join \in [Clients -> Joins]

Init ==
  /\ status = "stopped" /\ ready = FALSE /\ configs = 0
  /\ buf = [k \in Cells |-> NoKey]
  /\ head = 0 /\ tail = 0 /\ full = FALSE /\ gopPos = 0
  /\ mu = None
  /\ wpc = [w \in Writers |-> "idle"] /\ tag = [w \in Writers |-> NoTag]
  /\ left = [w \in Writers |-> 0]
  /\ cpc = [c \in Clients |-> "new"] /\ pos = [c \in Clients |-> 0]
  /\ ch = [c \in Clients |-> 0] /\ listed = {}
  /\ wrote = 0 /\ starts = {} /\ lastKey = NoKey /\ late = {} /\ raced = FALSE
  /\ next = [c \in Clients |-> 0] /\ bad = {} /\ lapped = {} /\ stale = {}
  /\ join = [c \in Clients |-> NotJoined]

Free == mu = None

\* (i + 1) % len(buf), and (to - from + len(buf)) % len(buf).
Succ(i) == IF i = Size - 1 THEN 0 ELSE i + 1
Dist(from, to) == IF to >= from THEN to - from ELSE Size - from + to
Plus(i, n) == IF i + n >= Size THEN i + n - Size ELSE i + n
Least(m, n) == IF m <= n THEN m ELSE n

-----------------------------------------------------------------------------
(* Start, Configure, Stop.  Configure resets the ring and leaves the cursors *)
(* of connected clients where they are.                                      *)

Start ==
  /\ status = "stopped" /\ status' = "running"
  /\ UNCHANGED <<ready, configs, ringVars, writerVars, clientVars, streamHist, clientHist>>

Configure ==
  /\ Free /\ configs < MaxConfigs
  /\ configs' = configs + 1 /\ ready' = TRUE
  /\ head' = 0 /\ tail' = 0 /\ full' = FALSE /\ gopPos' = 0
  /\ raced' = FALSE
  /\ stale' = stale \cup Subscribed
  /\ UNCHANGED <<status, buf, writerVars, clientVars, wrote, starts, lastKey, late, next, bad, join,
                 lapped>>

Stop ==
  /\ status = "running" /\ status' = "stopped" /\ ready' = FALSE
  /\ UNCHANGED <<configs, ringVars, writerVars, clientVars, streamHist, clientHist>>

-----------------------------------------------------------------------------
(* WriteFrame: read the sink's state and encode, mark the GOP, write.        *)

Encode(w) ==
  /\ wpc[w] = "idle" /\ status = "running" /\ ready
  /\ \E t \in Tags : tag' = [tag EXCEPT ![w] = t]
  /\ wpc' = [wpc EXCEPT ![w] = "coded"]
  /\ UNCHANGED <<sinkVars, ringVars, mu, left, clientVars, streamHist, clientHist>>

MarkGOP(w) ==
  /\ Free /\ wpc[w] = "coded" /\ tag[w].key
  /\ gopPos' = tail
  /\ wpc' = [wpc EXCEPT ![w] = "marked"]
  /\ late' = late \ {w}
  /\ UNCHANGED <<sinkVars, buf, head, tail, full, mu, tag, left, clientVars, wrote, starts, lastKey,
                 raced, clientHist>>

\* flvRing.write takes the lock.  A tag that gets in between the mark and the
\* write of another writer's keyframe makes that mark point at the wrong tag.
BeginWrite(w) ==
  /\ Free /\ wpc[w] = (IF tag[w].key THEN "marked" ELSE "coded")
  /\ wrote + tag[w].len <= MaxBytes
  /\ mu' = w
  /\ wpc' = [wpc EXCEPT ![w] = "put"]
  /\ left' = [left EXCEPT ![w] = tag[w].len]
  /\ starts' = starts \cup {wrote}
  /\ lastKey' = IF tag[w].key THEN wrote ELSE lastKey
  /\ late' = (late \ {w}) \cup {v \in Writers \ {w} : wpc[v] = "marked"}
  /\ raced' = IF tag[w].key THEN w \in late ELSE raced
  /\ UNCHANGED <<sinkVars, ringVars, tag, clientVars, wrote, clientHist>>

AdvanceHead ==
  \/ full /\ head' = Succ(head) /\ UNCHANGED full
  \/ ~full /\ full' = (Succ(tail) = head) /\ UNCHANGED head

\* A client whose cursor is a whole ring behind has been lapped.
Overtaken == {c \in Subscribed : wrote + 1 - next[c] >= Size}

Put(w) ==
  /\ mu = w /\ left[w] > 0
  /\ buf' = [buf EXCEPT ![tail] = wrote]
  /\ tail' = Succ(tail)
  /\ AdvanceHead
  /\ left' = [left EXCEPT ![w] = @ - 1]
  /\ wrote' = wrote + 1
  /\ starts' = {k \in starts : k >= wrote + 1 - Size}
  /\ lapped' = lapped \cup Overtaken
  /\ UNCHANGED <<sinkVars, gopPos, mu, wpc, tag, clientVars, lastKey, late, raced, next, bad, join,
                 stale>>

\* notifyLocked: a wake-up is dropped when the channel is full.
Notified == [c \in Clients |-> IF c \in Subscribed /\ ch[c] < NotifyCap THEN ch[c] + 1 ELSE ch[c]]

EndWrite(w) ==
  /\ mu = w /\ left[w] = 0
  /\ ch' = Notified
  /\ mu' = None
  /\ wpc' = [wpc EXCEPT ![w] = "idle"]
  /\ tag' = [tag EXCEPT ![w] = NoTag]
  /\ UNCHANGED <<sinkVars, ringVars, left, cpc, pos, listed, streamHist, clientHist>>

-----------------------------------------------------------------------------
(* ServeHTTP.                                                                *)

Step(c, at) == cpc' = [cpc EXCEPT ![c] = at]

Admit(c) ==
  /\ cpc[c] = "new"
  /\ Step(c, IF ready THEN "admitted" ELSE "gone")
  /\ UNCHANGED <<sinkVars, ringVars, writerVars, pos, ch, listed, streamHist, clientHist>>

GopValid ==
  /\ gopPos # tail
  /\ \/ head <= tail /\ gopPos >= head /\ gopPos < tail
     \/ head > tail /\ (gopPos >= head \/ gopPos < tail)

\* Faults: the mark is used although it may be overwritten; never used.
StartPosAlways == IF GopValid \/ full THEN gopPos ELSE head
StartPosOldest == head

StartPos == IF ~full /\ GopValid THEN gopPos ELSE head

\* The last keyframe whose first byte is still in the ring.
Held == IF full THEN Size ELSE Dist(head, tail)
KeyInRing == IF lastKey # NoKey /\ lastKey >= wrote - Held THEN lastKey ELSE NoKey

\* newReader.
Join(c) ==
  /\ Free /\ cpc[c] = "admitted"
  /\ pos' = [pos EXCEPT ![c] = StartPos]
  /\ next' = [next EXCEPT ![c] = wrote - Dist(StartPos, tail)]
  /\ join' = [join EXCEPT ![c] =
       [at |-> wrote - Dist(StartPos, tail),
        whole |-> wrote - Dist(StartPos, tail) \in starts \cup {wrote},
        key |-> KeyInRing, full |-> full,
        raced |-> raced \/ \E w \in Writers : wpc[w] = "marked"]]
  /\ Step(c, "joined")
  /\ UNCHANGED <<sinkVars, ringVars, writerVars, ch, listed, streamHist, bad, lapped, stale>>

List(c) ==
  /\ cpc[c] = "joined"
  /\ listed' = listed \cup {c}
  /\ Step(c, "listed")
  /\ UNCHANGED <<sinkVars, ringVars, writerVars, pos, ch, streamHist, clientHist>>

SendPrefix(c) ==
  /\ cpc[c] = "listed"
  /\ Step(c, "prefixed")
  /\ UNCHANGED <<sinkVars, ringVars, writerVars, pos, ch, listed, streamHist, clientHist>>

\* Copy n bytes from the cursor; they should be the next n of the stream.
Copy(c, n) ==
  /\ pos' = [pos EXCEPT ![c] = Plus(@, n)]
  /\ next' = [next EXCEPT ![c] = @ + n]
  /\ bad' = IF c \in bad \/ \A k \in 0 .. n - 1 : buf[Plus(pos[c], k)] = next[c] + k
            THEN bad ELSE bad \cup {c}

Replay(c) ==
  /\ Free /\ cpc[c] = "prefixed"
  /\ Copy(c, Dist(pos[c], tail))
  /\ Step(c, "wait")
  /\ UNCHANGED <<sinkVars, ringVars, writerVars, ch, listed, streamHist, join, lapped, stale>>

Wake(c) ==
  /\ cpc[c] = "wait" /\ ch[c] > 0
  /\ ch' = [ch EXCEPT ![c] = @ - 1]
  /\ Step(c, "read")
  /\ UNCHANGED <<sinkVars, ringVars, writerVars, pos, listed, streamHist, clientHist>>

Unread(c) == Dist(pos[c], tail)

\* Fault: back to the channel after one Read.
ReadOnce == "wait"

\* The inner loop: Read until it returns io.EOF.
ReadAgain == "read"

Read(c) ==
  /\ Free /\ cpc[c] = "read" /\ Unread(c) > 0
  /\ Copy(c, Least(ReadSize, Unread(c)))
  /\ Step(c, ReadAgain)
  /\ UNCHANGED <<sinkVars, ringVars, writerVars, ch, listed, streamHist, join, lapped, stale>>

EndOfData(c) ==
  /\ Free /\ cpc[c] = "read" /\ Unread(c) = 0
  /\ Step(c, "wait")
  /\ UNCHANGED <<sinkVars, ringVars, writerVars, pos, ch, listed, streamHist, clientHist>>

\* The request's context is done, or a write to the client fails.
Leave(c) ==
  /\ cpc[c] \in {"listed", "wait", "read"}
  /\ Step(c, "gone")
  /\ listed' = listed \ {c}
  /\ ch' = [ch EXCEPT ![c] = 0]
  /\ pos' = [pos EXCEPT ![c] = 0]
  /\ next' = [next EXCEPT ![c] = 0] /\ join' = [join EXCEPT ![c] = NotJoined]
  /\ bad' = bad \ {c} /\ lapped' = lapped \ {c} /\ stale' = stale \ {c}
  /\ UNCHANGED <<sinkVars, ringVars, writerVars, streamHist>>

Next ==
  \/ Start \/ Configure \/ Stop
  \/ \E w \in Writers : Encode(w) \/ MarkGOP(w) \/ BeginWrite(w) \/ Put(w) \/ EndWrite(w)
  \/ \E c \in Clients : \/ Admit(c) \/ Join(c) \/ List(c) \/ SendPrefix(c) \/ Replay(c)
                        \/ Wake(c) \/ Read(c) \/ EndOfData(c) \/ Leave(c)

Spec == Init /\ [][Next]_vars
-----------------------------------------------------------------------------
(* Properties                                                                *)

(* availableLocked, and the invariant of the loop in write: the ring has      *)
(* wrapped exactly when the oldest byte is the next to be overwritten; before *)
(* that, the oldest is at 0.                                                  *)
RingShape == IF full THEN head = tail ELSE head = 0

(* A client gets the stream from the start of a tag on, every byte once and   *)
(* in order, whatever other clients and writers do: until the writers are a   *)
(* whole ring ahead of it, or the sink is configured again under it.          *)
WholeTags ==
  \A c \in Subscribed :
    \/ c \in lapped \cup stale
    \/ c \notin bad /\ join[c].whole

(* A client that waits with an empty channel has read everything (a Configure *)
(* under it aside): the wake-ups a full channel drops are never the last.     *)
NoLostWakeup ==
  \A c \in Clients :
    Free /\ cpc[c] = "wait" /\ ch[c] = 0 => c \in stale \/ pos[c] = tail

(* A client that connects before the ring has wrapped starts at the latest    *)
(* keyframe, unless a second writer got in between the mark and the tag.      *)
JoinsAtGOP ==
  \A c \in Subscribed : LET j == join[c]
                    IN  j.key # NoKey /\ ~j.full /\ ~j.raced => j.at = j.key

(* "A new client starts from the latest keyframe" (design.md 12.9), if the    *)
(* ring holds one.  Refuted: once the ring has wrapped, it starts at the next *)
(* tag written, whatever that is.                                             *)
NewClientStartsAtKeyframe ==
  \A c \in Subscribed : LET j == join[c] IN j.key # NoKey /\ ~j.raced => j.at = j.key
=============================================================================
