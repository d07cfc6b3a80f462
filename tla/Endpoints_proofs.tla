---------------------------- MODULE Endpoints_proofs ----------------------------
(***************************************************************************)
(* The inputs and outputs keep one connection each and their streams in      *)
(* order, for any number of connections, browsers, frames and places in the  *)
(* queues, and any file: the RTMP output, the RTSP input, the WebRTC output   *)
(* and the MP4 input one by one, and Endpoints, where they run side by side.  *)
(***************************************************************************)
EXTENDS Endpoints, SequenceTheorems, WellFoundedInduction, TLAPS

(***************************************************************************)
(* The RTMP output.  Stop may overtake a WriteFrame in the middle, so what a  *)
(* connection has got depends on whether its client is the newest, whether    *)
(* the metadata went out and where WriteFrame is.                             *)
(***************************************************************************)
PublisherShape ==
  /\ client \in R!Clients /\ conn \in [R!Clients -> {"new", "open", "closed"}]
  /\ log \in [R!Clients -> Seq({"meta", "headers", "frame"})]
  /\ pc \in {"idle", "connect", "meta", "headers", "frame"}
  /\ metaSent \in BOOLEAN

(* Only the newest client may be connected; those to come are untouched.      *)
Single ==
  \A c \in R!Clients : /\ conn[c] = "open" => c = client
                       /\ c > client => conn[c] = "new" /\ log[c] = <<>>

(* What a connection has got, none of whose writes failed.                    *)
InOrder(l) ==
  /\ Len(l) > 0 => l[1] = "meta"
  /\ Len(l) > 1 => l[2] = "headers"
  /\ \A i \in 3 .. Len(l) : l[i] = "frame"

(* A WriteFrame that was overtaken by Stop meets a client nobody connected.   *)
Stale == pc \in {"headers", "frame"} /\ ~metaSent =>
           conn[client] # "open" \/ client \in torn

(* How far the newest connection has come; the log ends at MaxLog.            *)
Progress ==
  client \notin torn =>
    /\ ~metaSent => log[client] = <<>>
    /\ metaSent /\ pc = "headers" => Len(log[client]) <= 1
    /\ metaSent => Len(log[client]) >= 1 \/ Len(log[client]) >= MaxLog
    /\ metaSent /\ pc # "headers" => Len(log[client]) >= 2 \/ Len(log[client]) >= MaxLog

Ordered == \A c \in R!Clients \ torn : InOrder(log[c])

PublisherInv == PublisherShape /\ Single /\ Stale /\ Progress /\ Ordered
-----------------------------------------------------------------------------
LEMMA InitPublisher == ASSUME MaxPublishers \in Nat \ {0} PROVE R!Init => PublisherInv
<1> SUFFICES ASSUME R!Init PROVE PublisherInv
  OBVIOUS
<1>1. PublisherShape
  <2>1. <<>> \in Seq({"meta", "headers", "frame"})
    OBVIOUS
  <2> QED
    <3>1. client \in R!Clients
      BY DEF R!Init, R!Clients
    <3> QED
      BY <2>1, <3>1 DEF R!Init, PublisherShape
<1>2. Single
  BY DEF R!Init, Single, R!Clients
<1>3. Stale /\ Progress
  BY <1>1 DEF R!Init, Stale, Progress, PublisherShape
<1>4. Ordered
  <2>1. \A c \in R!Clients : log[c] = <<>>
    BY DEF R!Init
  <2> QED
    BY <2>1 DEF Ordered, InOrder
<1> QED
  BY <1>1, <1>2, <1>3, <1>4 DEF PublisherInv

(* Renew, after Stop or a failure: the new client is untouched.               *)
LEMMA RenewStep ==
  ASSUME MaxPublishers \in Nat, MaxLog \in Nat, PublisherInv, R!Room, R!Renew, metaSent' = FALSE,
         UNCHANGED log, torn \subseteq torn', pc' \in {pc, "idle"}
  PROVE  PublisherInv'
<1>1. client' \in R!Clients /\ client' = client + 1 /\ client' # client
  BY DEF PublisherInv, PublisherShape, R!Clients, R!Room, R!Renew
<1>2. conn' = [conn EXCEPT ![client] = "closed"]
  BY DEF R!Renew
<1>3. conn'[client'] = "new" /\ log'[client'] = <<>>
  BY <1>1, <1>2 DEF PublisherInv, PublisherShape, Single, R!Clients
<1>4. PublisherShape'
  BY <1>1, <1>2 DEF PublisherInv, PublisherShape
<1>5. Single'
  BY <1>1, <1>2 DEF PublisherInv, PublisherShape, Single, R!Clients
<1>6. Stale' /\ Progress'
  BY <1>3 DEF Stale, Progress
<1>7. Ordered'
  BY DEF PublisherInv, Ordered
<1> QED
  BY <1>4, <1>5, <1>6, <1>7 DEF PublisherInv

(* One more message on a connection that is in order.                         *)
LEMMA OneMore ==
  ASSUME NEW l \in Seq({"meta", "headers", "frame"}), InOrder(l),
         NEW what \in {"meta", "headers", "frame"},
         what = "meta" => Len(l) = 0, what = "headers" => Len(l) = 1, what = "frame" => Len(l) >= 2
  PROVE  InOrder(Append(l, what)) /\ Len(Append(l, what)) = Len(l) + 1
<1> DEFINE a == Append(l, what)
<1>1. Len(a) = Len(l) + 1 /\ Len(l) \in Nat /\ a[Len(l) + 1] = what
  OBVIOUS
<1>2. \A i \in 1 .. Len(l) : a[i] = l[i]
  OBVIOUS
<1>3. Len(a) > 0 => a[1] = "meta"
  BY <1>1, <1>2 DEF InOrder
<1>4. Len(a) > 1 => a[2] = "headers"
  BY <1>1, <1>2 DEF InOrder
<1>5. ASSUME NEW i \in 3 .. Len(a) PROVE a[i] = "frame"
  BY <1>1, <1>2 DEF InOrder
<1> QED
  BY <1>1, <1>3, <1>4, <1>5 DEF InOrder

(* A message that the connection takes in its turn.                           *)
LEMMA DeliverStep ==
  ASSUME MaxLog \in Nat, PublisherInv, NEW what \in {"meta", "headers", "frame"}, R!Delivered(what),
         client \notin torn =>
           \/ Len(log[client]) >= MaxLog
           \/ /\ what = "meta" => Len(log[client]) = 0
              /\ what = "headers" => Len(log[client]) = 1
              /\ what = "frame" => Len(log[client]) >= 2
  PROVE  /\ log' \in [R!Clients -> Seq({"meta", "headers", "frame"})] /\ Ordered'
         /\ \A c \in R!Clients : c # client => log'[c] = log[c]
         /\ Len(log'[client]) = Len(log[client]) + (IF Len(log[client]) < MaxLog THEN 1 ELSE 0)
         /\ Len(log[client]) \in Nat /\ UNCHANGED torn
<1> DEFINE l == log[client]
<1>1. /\ client \in R!Clients /\ l \in Seq({"meta", "headers", "frame"}) /\ UNCHANGED torn
      /\ log \in [R!Clients -> Seq({"meta", "headers", "frame"})] /\ Len(l) \in Nat
  BY DEF PublisherInv, PublisherShape, R!Delivered
<1>2. CASE Len(l) < MaxLog
  <2>1. log' = [log EXCEPT ![client] = Append(l, what)]
    BY <1>2 DEF R!Delivered
  <2>2. Append(l, what) \in Seq({"meta", "headers", "frame"}) /\ Len(Append(l, what)) = Len(l) + 1
    BY <1>1
  <2>3. client \notin torn => InOrder(Append(l, what))
    BY <1>1, <1>2, OneMore DEF PublisherInv, Ordered
  <2> QED
    BY <1>1, <1>2, <2>1, <2>2, <2>3 DEF PublisherInv, Ordered
<1>3. CASE ~(Len(l) < MaxLog)
  BY <1>1, <1>3 DEF R!Delivered, PublisherInv, Ordered
<1> QED
  BY <1>2, <1>3

LEMMA OneOrFull ==
  ASSUME NEW n \in Nat, NEW most \in Nat, n <= 1, n >= 1 \/ n >= most
  PROVE  n >= most \/ n = 1
  OBVIOUS

LEMMA PublisherStep ==
  ASSUME MaxPublishers \in Nat, MaxLog \in Nat, PublisherInv, [R!Next]_(R!vars)
  PROVE  PublisherInv'
<1> USE DEF PublisherInv
<1>1. CASE R!Start
  BY <1>1 DEF R!Start, Ordered, PublisherShape, Single, Stale, Progress
<1>2. CASE R!Stop
  BY <1>2, RenewStep DEF R!Stop
<1>3. CASE R!WriteFrame
  BY <1>3 DEF R!WriteFrame, R!state, Ordered, PublisherShape, Single, Stale, Progress
<1>4. CASE R!Connect
  <2>1. UNCHANGED <<client, metaSent, log, torn>>
    BY <1>4 DEF R!Connect, R!state
  <2>2. pc = "connect" /\ pc' \in {"idle", "meta"}
    BY <1>4 DEF R!Connect
  <2>3. conn' = conn \/ conn' = [conn EXCEPT ![client] = IF @ = "new" THEN "open" ELSE @]
    BY <1>4 DEF R!Connect
  <2>4. PublisherShape'
    BY <2>1, <2>2, <2>3 DEF PublisherShape
  <2>5. Single'
    BY <2>1, <2>3 DEF PublisherShape, Single, R!Clients
  <2>6. Stale' /\ Progress'
    BY <2>1, <2>2 DEF Stale, Progress
  <2> QED
    BY <2>1, <2>4, <2>5, <2>6 DEF Ordered
<1>5. CASE R!ConnectFails
  BY <1>5, RenewStep DEF R!ConnectFails, R!Fail
<1>6. CASE R!SendMetadata
  <2>1. CASE ~metaSent /\ R!Delivered("meta") /\ metaSent' = TRUE /\ pc' = "headers"
    <3>1. /\ UNCHANGED <<client, conn, torn>>
          /\ client \notin torn => Len(log[client]) = 0
      BY <1>6, <2>1 DEF R!SendMetadata, R!Delivered, PublisherShape, Progress
    <3>2. /\ log' \in [R!Clients -> Seq({"meta", "headers", "frame"})] /\ Ordered'
          /\ \A c \in R!Clients : c # client => log'[c] = log[c]
          /\ Len(log'[client]) = Len(log[client]) + (IF Len(log[client]) < MaxLog THEN 1 ELSE 0)
          /\ Len(log[client]) \in Nat
      BY <2>1, <3>1, DeliverStep
    <3>3. PublisherShape'
      BY <2>1, <3>1, <3>2 DEF PublisherShape
    <3>4. Single'
      <4> SUFFICES ASSUME NEW c \in R!Clients
                   PROVE  /\ conn'[c] = "open" => c = client'
                          /\ c > client' => conn'[c] = "new" /\ log'[c] = <<>>
        BY DEF Single
      <4>1. CASE c = client
        BY <3>1, <4>1 DEF Single, PublisherShape, R!Clients
      <4>2. CASE c # client
        BY <3>1, <3>2, <4>2 DEF Single
      <4> QED
        BY <4>1, <4>2
    <3>5. Stale'
      BY <2>1 DEF Stale
    <3>6. Progress'
      <4>1. CASE client \in torn
        BY <3>1, <4>1 DEF Progress
      <4>2. CASE client \notin torn
        <5>1. Len(log[client]) = 0
          BY <3>1, <4>2
        <5>2. Len(log'[client]) = IF 0 < MaxLog THEN 1 ELSE 0
          BY <3>2, <5>1
        <5> QED
          BY <2>1, <3>1, <5>2 DEF Progress
      <4> QED
        BY <4>1, <4>2
    <3> QED
      BY <3>2, <3>3, <3>4, <3>5, <3>6
  <2>2. CASE metaSent /\ pc' = "frame" /\ UNCHANGED <<metaSent, log, torn>>
    BY <1>6, <2>2 DEF R!SendMetadata, Ordered, PublisherShape, Single, Stale, Progress
  <2>3. CASE ~metaSent /\ R!Refused /\ pc' = "headers" /\ UNCHANGED metaSent
    BY <1>6, <2>3 DEF R!SendMetadata, R!Refused, Ordered, PublisherShape, Single, Stale, Progress
  <2> QED
    BY <1>6, <2>1, <2>2, <2>3 DEF R!SendMetadata
<1>7. CASE R!SendSequenceHeaders
  <2>1. CASE R!Delivered("headers")
    <3>1. /\ UNCHANGED <<client, conn, torn, metaSent>> /\ pc' = "frame" /\ pc = "headers"
          /\ conn[client] = "open"
      BY <1>7, <2>1 DEF R!SendSequenceHeaders, R!Delivered, R!Accepts, R!state
    <3>2. Len(log[client]) \in Nat
      BY DEF PublisherShape
    <3>3. client \notin torn => metaSent
      BY <3>1 DEF Stale
    <3>4. ASSUME client \notin torn
          PROVE  Len(log[client]) >= MaxLog \/ Len(log[client]) = 1
      <4>1. Len(log[client]) <= 1 /\ (Len(log[client]) >= 1 \/ Len(log[client]) >= MaxLog)
        BY <3>1, <3>3, <3>4 DEF Progress
      <4> QED
        BY <3>2, <4>1, OneOrFull
    <3> QED
      BY <2>1, <3>1, <3>3, <3>4, DeliverStep DEF PublisherShape, Single, Stale, Progress
  <2>2. CASE R!Refused
    BY <1>7, <2>2 DEF R!SendSequenceHeaders, R!Refused, R!state, Ordered, PublisherShape, Single, Stale, Progress
  <2> QED
    BY <1>7, <2>1, <2>2 DEF R!SendSequenceHeaders
<1>8. CASE R!SendFrame
  <2>1. /\ UNCHANGED <<client, conn, torn, metaSent>> /\ pc' = "idle" /\ pc = "frame"
        /\ conn[client] = "open" /\ R!Delivered("frame")
    BY <1>8 DEF R!SendFrame, R!Delivered, R!Accepts, R!state
  <2>2. client \notin torn => \/ Len(log[client]) >= MaxLog
                              \/ Len(log[client]) >= 2
    BY <2>1 DEF Stale, Progress
  <2> QED
    BY <2>1, <2>2, DeliverStep DEF PublisherShape, Single, Stale, Progress
<1>9. CASE R!SendFrameFails
  BY <1>9, RenewStep DEF R!SendFrameFails, R!Refused, R!Fail
<1>10. CASE R!SkipFrame
  BY <1>10 DEF R!SkipFrame, R!state, Ordered, PublisherShape, Single, Stale, Progress
<1>11. CASE R!Break
  BY <1>11 DEF R!Break, R!state, Ordered, PublisherShape, Single, Stale, Progress
<1>12. CASE R!BackoffPasses
  BY <1>12 DEF R!BackoffPasses, Ordered, PublisherShape, Single, Stale, Progress
<1>13. CASE UNCHANGED R!vars
  BY <1>13 DEF R!vars, Ordered, PublisherShape, Single, Stale, Progress
<1> QED
  BY <1>1, <1>2, <1>3, <1>4, <1>5, <1>6, <1>7, <1>8, <1>9, <1>10, <1>11, <1>12, <1>13 DEF R!Next

(* However Stop and the failures of WriteFrame fall between each other, a     *)
(* server never carries two publishers of the output, and no frame precedes   *)
(* the headers on a connection that took all it was sent                      *)
(* (rtmp_sink.go:118-122, 140-146).                                           *)
THEOREM PublisherInOrder ==
  ASSUME MaxPublishers \in Nat \ {0}, MaxLog \in Nat
  PROVE  R!Spec => [](R!OnePublisher /\ R!HeadersFirst)
<1>1. R!Init => PublisherInv
  BY InitPublisher
<1>2. PublisherInv /\ [R!Next]_(R!vars) => PublisherInv'
  BY PublisherStep
<1>3. PublisherInv => R!OnePublisher /\ R!HeadersFirst
  BY DEF PublisherInv, Single, Ordered, InOrder, R!OnePublisher, R!HeadersFirst
<1> QED
  BY <1>1, <1>2, <1>3, PTL DEF R!Spec

-----------------------------------------------------------------------------
(***************************************************************************)
(* The RTSP input.  A client that neither fails nor is lost is closed by its *)
(* own read loop before another is made.                                     *)
(***************************************************************************)
LetGo == readLoop \in {"none", "sleep"} => mine \notin open \/ mine \in abandoned

InputInv == I!OneSession /\ I!KeyIsTimed /\ LetGo

LEMMA InitInput == I!Init => InputInv
  BY DEF I!Init, InputInv, I!OneSession, I!KeyIsTimed, LetGo

(* A client is made when the loop has let go of the one before.               *)
LEMMA ConnectStep ==
  ASSUME InputInv, readLoop \in {"none", "sleep"}, open' = open \cup {made + 1}, mine' = made + 1,
         readLoop' = "setup", I!NewSession, UNCHANGED abandoned
  PROVE  InputInv'
<1>1. \A c \in open : c \in abandoned
  BY DEF InputInv, I!OneSession, LetGo
<1>2. I!OneSession'
  BY <1>1 DEF I!OneSession
<1>3. I!KeyIsTimed'
  BY DEF I!NewSession, I!KeyIsTimed
<1> QED
  BY <1>2, <1>3 DEF InputInv, LetGo

(* Nothing but the connections that are left, and those given up.             *)
LEMMA FewerStep ==
  ASSUME InputInv, open' \subseteq open, abandoned \subseteq abandoned', UNCHANGED mine,
         I!KeyIsTimed', readLoop' \in {"none", "sleep"} =>
           readLoop \in {"none", "sleep"} \/ mine \notin open' \/ mine \in abandoned'
  PROVE  InputInv'
<1>1. I!OneSession'
  BY DEF InputInv, I!OneSession
<1>2. LetGo'
  BY DEF InputInv, LetGo
<1> QED
  BY <1>1, <1>2 DEF InputInv

LEMMA InputStep ==
  ASSUME InputInv, [I!Next]_(I!vars)
  PROVE  InputInv'
<1>1. CASE I!Start
  BY <1>1, ConnectStep DEF I!Start, I!MayStart, I!Connected
<1>2. CASE I!Reconnect
  BY <1>2, ConnectStep DEF I!Reconnect, I!Connected
<1>3. CASE UNCHANGED I!session /\ UNCHANGED mine /\ open' \subseteq open /\ abandoned \subseteq abandoned'
           /\ (readLoop' \in {"none", "sleep"} =>
                 readLoop \in {"none", "sleep"} \/ mine \notin open' \/ mine \in abandoned')
  <2>1. I!KeyIsTimed'
    BY <1>3 DEF I!session, I!KeyIsTimed, InputInv
  <2> QED
    BY <1>3, <2>1, FewerStep
<1>4. CASE I!StartFails \/ I!SetUp \/ I!Play \/ I!SessionFails
  BY <1>3, <1>4 DEF I!StartFails, I!SetUp, I!Play, I!SessionFails
<1>5. CASE I!Disconnected \/ I!SessionStops \/ I!BackoffStops \/ I!ReconnectFails
  BY <1>3, <1>5 DEF I!Disconnected, I!SessionStops, I!BackoffStops, I!ReconnectFails
<1>6. ASSUME NEW s \in Stoppers, I!StopCalled(s) \/ I!StopWaits(s) \/ I!StopCloses(s)
      PROVE  InputInv'
  BY <1>3, <1>6 DEF I!StopCalled, I!StopWaits, I!StopCloses
<1>7. CASE I!Break
  BY <1>3, <1>7 DEF I!Break
<1>8. ASSUME UNCHANGED <<open, mine, readLoop, abandoned>>, I!KeyIsTimed'
      PROVE  InputInv'
  BY <1>8, FewerStep
<1>9. CASE I!PacketsLost
  BY <1>8, <1>9 DEF I!PacketsLost, I!KeyIsTimed
<1>10. ASSUME NEW unit \in {"key", "delta"}, I!Whole(unit)
       PROVE  InputInv'
  BY <1>8, <1>10 DEF I!Whole, I!Arrives, I!KeyIsTimed
<1>11. ASSUME NEW unit \in {"key", "delta"}, I!FragmentStarts(unit)
       PROVE  InputInv'
  <2>1. UNCHANGED <<open, mine, readLoop, abandoned>>
    BY <1>11 DEF I!FragmentStarts, I!Arrives
  <2>2. decoder' = unit /\ timed' = (timed \/ unit = "key")
    BY <1>11 DEF I!FragmentStarts
  <2>3. I!KeyIsTimed'
    BY <2>2 DEF I!KeyIsTimed
  <2> QED
    BY <1>8, <2>1, <2>3
<1>12. CASE I!FragmentEnds
  BY <1>8, <1>12 DEF I!FragmentEnds, I!Arrives, I!KeyIsTimed
<1>13. ASSUME NEW n \in 1 .. 2, NEW bytes \in {5, 8}, I!AudioPacket(n, bytes)
       PROVE  InputInv'
  BY <1>8, <1>13 DEF I!AudioPacket, I!Arrives, I!KeyIsTimed, InputInv
<1>14. CASE UNCHANGED I!vars
  BY <1>3, <1>14 DEF I!vars, I!session
<1> QED
  BY <1>1, <1>2, <1>4, <1>5, <1>6, <1>7, <1>9, <1>10, <1>11, <1>12, <1>13, <1>14 DEF I!Next

(* However a pull is lost, resumed and stopped, the input holds no RTSP       *)
(* client but the one of its session and those it gave up half made, and a    *)
(* key unit has the time of its own packets (rtsp_input.go:74-92, 260-296,    *)
(* 405-432).                                                                  *)
THEOREM OnePullAtATime == I!Spec => [](I!OneSession /\ I!KeyIsTimed)
<1>1. I!Init => InputInv
  BY InitInput
<1>2. InputInv /\ [I!Next]_(I!vars) => InputInv'
  BY InputStep
<1>3. InputInv => I!OneSession /\ I!KeyIsTimed
  BY DEF InputInv
<1> QED
  BY <1>1, <1>2, <1>3, PTL DEF I!Spec
-----------------------------------------------------------------------------
(***************************************************************************)
(* The WebRTC output.  What a browser has got and what waits for it are the  *)
(* packets of frames that WriteFrame is through with, in order; the frame    *)
(* under way is later than all of them.                                      *)
(***************************************************************************)
Packet == Nat \X (1 .. 2)
Time(x) == 2 * x[1] + x[2]

Rising(s) == \A i, j \in DOMAIN s : i < j => Time(s[i]) < Time(s[j])
Before(s, t) == \A i \in DOMAIN s, j \in DOMAIN t : Time(s[i]) < Time(t[j])
Holds(s, x) == \E k \in DOMAIN s : s[k] = x
UpTo(s, f) == \A k \in DOMAIN s : s[k][1] <= f

(* The newest frame that was distributed.                                     *)
Written == IF writing = 0 THEN count ELSE count - 1

WebShape ==
  /\ got \in [Peers -> Seq(Packet)] /\ queue \in [Peers -> Seq(Packet)]
  /\ \A p \in Peers : Len(queue[p]) <= QueueCap
  /\ count \in Nat /\ (writing = 0 \/ (writing = count /\ count > 0))
  /\ clients \subseteq Peers /\ first \in [Peers -> Nat]
  /\ whep \in [Peers -> {"none", "refused", "negotiate", "register", "hook", "done"}]
  /\ writeLoop \in [Peers -> {"none", "running", "failing", "ended"}]

(* What p has got and what waits for it.                                      *)
OneStream(p) ==
  /\ Rising(got[p]) /\ Rising(queue[p]) /\ Before(got[p], queue[p])
  /\ UpTo(got[p], Written) /\ UpTo(queue[p], Written)

(* A client whose queue never overflowed lacks nothing.                       *)
Whole(p) ==
  p \in clients \ overrun /\ writeLoop[p] = "running" =>
    \A f \in first[p] + 1 .. count : f # writing =>
      \A i \in 1 .. 2 : Holds(got[p], <<f, i>>) \/ Holds(queue[p], <<f, i>>)

(* A request that is not answered yet has no client.                          *)
NotYetIn(p) == whep[p] \in {"none", "refused", "negotiate", "register"} => p \notin clients

WebInv == WebShape /\ \A p \in Peers : OneStream(p) /\ Whole(p) /\ NotYetIn(p)

LEMMA InitWeb == ASSUME QueueCap \in Nat PROVE W!Init => WebInv
<1> SUFFICES ASSUME W!Init PROVE WebInv
  OBVIOUS
<1>1. \A p \in Peers : got[p] = <<>> /\ queue[p] = <<>>
  BY DEF W!Init
<1>2. <<>> \in Seq(Packet) /\ Len(<<>>) = 0 /\ DOMAIN <<>> = {}
  OBVIOUS
<1>3. WebShape
  <2>1. got \in [Peers -> Seq(Packet)] /\ queue \in [Peers -> Seq(Packet)]
    BY <1>2 DEF W!Init
  <2>2. \A p \in Peers : Len(queue[p]) <= QueueCap
    BY <1>1, <1>2
  <2> QED
    BY <2>1, <2>2 DEF WebShape, W!Init
<1>4. \A p \in Peers : OneStream(p)
  BY <1>1, <1>2 DEF OneStream, Rising, Before, UpTo
<1>5. \A p \in Peers : Whole(p) /\ NotYetIn(p)
  BY DEF W!Init, Whole, NotYetIn
<1> QED
  BY <1>3, <1>4, <1>5 DEF WebInv

(* A step that moves no packet: a client that joins owes nothing before the   *)
(* frames to come.                                                            *)
LEMMA NoPacketStep ==
  ASSUME WebInv, UNCHANGED <<got, queue, count, writing, overrun>>, clients' \subseteq Peers,
         first' \in [Peers -> Nat],
         whep' \in [Peers -> {"none", "refused", "negotiate", "register", "hook", "done"}],
         writeLoop' \in [Peers -> {"none", "running", "failing", "ended"}],
         \A p \in Peers : NotYetIn(p)',
         \A p \in Peers : p \in clients' =>
           \/ first'[p] = count
           \/ p \in clients /\ first'[p] = first[p] /\ (writeLoop'[p] = "running" => writeLoop[p] = "running")
  PROVE  WebInv'
<1>1. WebShape'
  BY DEF WebInv, WebShape
<1>2. \A p \in Peers : OneStream(p)'
  BY DEF WebInv, OneStream, Written
<1>3. ASSUME NEW p \in Peers PROVE Whole(p)'
  <2>1. CASE first'[p] = count
    BY <2>1 DEF Whole, WebInv, WebShape
  <2>2. CASE p \in clients /\ first'[p] = first[p] /\ (writeLoop'[p] = "running" => writeLoop[p] = "running")
    BY <2>2 DEF Whole, WebInv
  <2>3. CASE p \notin clients'
    BY <2>3 DEF Whole
  <2> QED
    BY <2>1, <2>2, <2>3
<1> QED
  BY <1>1, <1>2, <1>3 DEF WebInv

(* A frame is begun: what was distributed stays what it was.                  *)
LEMMA LookStep == ASSUME WebInv, W!LookAtSink PROVE WebInv'
<1>1. /\ writing = 0 /\ count' = count + 1 /\ writing' = count + 1 /\ count \in Nat
      /\ UNCHANGED <<got, queue, overrun, first, clients, whep, writeLoop>>
  BY DEF W!LookAtSink, W!sink, W!pairs, W!streams, WebInv, WebShape
<1>2. Written' = Written
  BY <1>1 DEF Written
<1>3. WebShape'
  BY <1>1 DEF WebInv, WebShape
<1>4. \A p \in Peers : OneStream(p)' /\ NotYetIn(p)'
  BY <1>1, <1>2 DEF WebInv, OneStream, NotYetIn
<1>5. ASSUME NEW p \in Peers PROVE Whole(p)'
  <2>1. \A f \in first[p] + 1 .. count + 1 : f # count + 1 => f \in first[p] + 1 .. count /\ f # writing
    BY <1>1 DEF WebInv, WebShape
  <2> QED
    BY <1>1, <2>1 DEF Whole, WebInv
<1> QED
  BY <1>3, <1>4, <1>5 DEF WebInv

(* The packets of a frame that a queue has room for.                          *)
Fitting(f, m) == SubSeq(<< <<f, 1>>, <<f, 2>> >>, 1, m)

LEMMA NewPackets ==
  ASSUME NEW f \in Nat, NEW m \in 0 .. 2
  PROVE  /\ Fitting(f, m) \in Seq(Packet) /\ Len(Fitting(f, m)) = m /\ DOMAIN Fitting(f, m) = 1 .. m
         /\ \A i \in 1 .. m : Fitting(f, m)[i] = <<f, i>> /\ Time(Fitting(f, m)[i]) = 2 * f + i
<1> DEFINE v == << <<f, 1>>, <<f, 2>> >>
           w == SubSeq(v, 1, m)
<1>1. <<f, 1>> \in Packet /\ <<f, 2>> \in Packet
  BY DEF Packet
<1>2. v[1] = <<f, 1>> /\ v[2] = <<f, 2>>
  OBVIOUS
<1>3. w = Fitting(f, m)
  BY DEF Fitting
<1> HIDE DEF v
<1>4. \A i \in 1 .. m : v[i] \in Packet
  BY <1>1, <1>2
<1>5. /\ w \in Seq(Packet) /\ Len(w) = (IF 1 <= m THEN m - 1 + 1 ELSE 0)
      /\ \A i \in 1 .. m - 1 + 1 : w[i] = v[1 + i - 1]
  <2>1. 1 \in Int /\ m \in Int
    OBVIOUS
  <2> QED
    BY <1>4, <2>1, SubSeqProperties
<1> HIDE DEF w
<1>6. Len(w) = m
  BY <1>5
<1>7. DOMAIN w = 1 .. m
  <2>1. DOMAIN w = 1 .. Len(w)
    BY <1>5, LenProperties
  <2> QED
    BY <1>6, <2>1
<1>8. \A i \in 1 .. m : w[i] = <<f, i>>
  BY <1>2, <1>5
<1>9. \A i \in 1 .. m : Time(<<f, i>>) = 2 * f + i
  BY DEF Time
<1> QED
  BY <1>3, <1>5, <1>6, <1>7, <1>8, <1>9

LEMMA TimeBound == ASSUME NEW x \in Packet PROVE Time(x) \in Nat /\ Time(x) <= 2 * x[1] + 2 /\ x[1] \in Nat
  BY DEF Packet, Time

(* The packets of a frame later than all that waits.                          *)
LEMMA Enqueue ==
  ASSUME NEW q \in Seq(Packet), NEW f \in Nat \ {0}, NEW m \in 0 .. 2, Rising(q), UpTo(q, f - 1),
         NEW r, r = q \o Fitting(f, m)
  PROVE  /\ r \in Seq(Packet) /\ Len(r) = Len(q) + m /\ Rising(r) /\ UpTo(r, f)
         /\ \A x : Holds(q, x) => Holds(r, x)
         /\ m = 2 => \A i \in 1 .. 2 : Holds(r, <<f, i>>)
         /\ \A s \in Seq(Packet) : Before(s, q) /\ UpTo(s, f - 1) => Before(s, r)
<1>1. PICK w : w = Fitting(f, m)
  OBVIOUS
<1>2. /\ w \in Seq(Packet) /\ Len(w) = m /\ DOMAIN w = 1 .. m
      /\ \A i \in 1 .. m : w[i] = <<f, i>> /\ Time(w[i]) = 2 * f + i
  BY <1>1, NewPackets
<1>3. Len(q) \in Nat /\ DOMAIN q = 1 .. Len(q)
  BY LenProperties
<1>4. /\ r \in Seq(Packet) /\ Len(r) = Len(q) + m /\ DOMAIN r = 1 .. Len(q) + m
      /\ \A k \in 1 .. Len(q) + m : r[k] = IF k <= Len(q) THEN q[k] ELSE w[k - Len(q)]
  <2>1. r = q \o w
    BY <1>1
  <2>2. /\ r \in Seq(Packet) /\ Len(r) = Len(q) + Len(w)
        /\ \A k \in 1 .. Len(q) + Len(w) : r[k] = IF k <= Len(q) THEN q[k] ELSE w[k - Len(q)]
    BY <1>2, <2>1, ConcatProperties
  <2>3. DOMAIN r = 1 .. Len(r)
    BY <2>2, LenProperties, Zenon
  <2> QED
    BY <1>2, <2>2, <2>3
<1>5. ASSUME NEW k \in 1 .. Len(q) PROVE r[k] = q[k] /\ q[k] \in Packet /\ q[k][1] <= f - 1
  <2>1. q[k] \in Packet
    BY ElementOfSeq
  <2>2. q[k][1] <= f - 1
    BY <1>3 DEF UpTo
  <2>3. k \in 1 .. Len(q) + m /\ k <= Len(q)
    BY <1>3
  <2> QED
    BY <1>4, <2>1, <2>2, <2>3
<1>6. \A i \in 1 .. m : Len(q) + i \in DOMAIN r /\ r[Len(q) + i] = <<f, i>> /\ Time(r[Len(q) + i]) = 2 * f + i
  <2> TAKE i \in 1 .. m
  <2>1. Len(q) + i \in 1 .. Len(q) + m /\ ~(Len(q) + i <= Len(q)) /\ Len(q) + i - Len(q) = i
    BY <1>3
  <2>2. PICK k : k = Len(q) + i
    OBVIOUS
  <2>3. k \in 1 .. Len(q) + m /\ ~(k <= Len(q)) /\ k - Len(q) = i
    BY <2>1, <2>2
  <2>4. r[k] = w[i]
    BY <1>4, <2>3
  <2>5. r[Len(q) + i] = w[i] /\ Len(q) + i \in DOMAIN r
    BY <1>4, <2>1, <2>2, <2>4
  <2> QED
    BY <1>2, <2>5
<1>7. \A k \in 1 .. Len(q) : Time(r[k]) \in Nat /\ Time(r[k]) <= 2 * f
  <2> TAKE k \in 1 .. Len(q)
  <2>1. Time(q[k]) \in Nat /\ Time(q[k]) <= 2 * q[k][1] + 2 /\ q[k][1] \in Nat /\ q[k][1] <= f - 1
    BY <1>5, TimeBound
  <2> QED
    BY <1>5, <2>1
<1>8. \A k \in DOMAIN r : k \in 1 .. Len(q) \/ \E i \in 1 .. m : k = Len(q) + i
  <2> TAKE k \in DOMAIN r
  <2>1. CASE ~(k <= Len(q))
    <3>1. k - Len(q) \in 1 .. m /\ k = Len(q) + (k - Len(q))
      BY <1>3, <1>4, <2>1
    <3> QED
      BY <3>1
  <2> QED
    BY <1>3, <1>4, <2>1
<1>9. Rising(r)
  <2> SUFFICES ASSUME NEW j \in DOMAIN r, NEW k \in DOMAIN r, j < k PROVE Time(r[j]) < Time(r[k])
    BY DEF Rising
  <2>1. CASE k \in 1 .. Len(q)
    <3>1. j \in 1 .. Len(q)
      BY <1>3, <1>4, <2>1
    <3> QED
      BY <1>3, <1>5, <2>1, <3>1 DEF Rising
  <2>2. CASE k \notin 1 .. Len(q)
    <3>1. PICK i \in 1 .. m : k = Len(q) + i
      BY <1>8, <2>2
    <3>2. Time(r[k]) = 2 * f + i
      BY <1>6, <3>1
    <3>3. CASE j \in 1 .. Len(q)
      <4>1. Time(r[j]) \in Nat /\ Time(r[j]) <= 2 * f
        BY <1>7, <3>3
      <4> QED
        BY <3>2, <4>1
    <3>4. CASE j \notin 1 .. Len(q)
      <4>1. PICK h \in 1 .. m : j = Len(q) + h
        BY <1>8, <3>4
      <4>2. Time(r[j]) = 2 * f + h
        BY <1>6, <4>1
      <4>3. h < i
        BY <1>3, <3>1, <4>1
      <4> QED
        BY <3>2, <4>2, <4>3
    <3> QED
      BY <3>3, <3>4
  <2> QED
    BY <2>1, <2>2
<1>10. UpTo(r, f)
  <2> SUFFICES ASSUME NEW k \in DOMAIN r PROVE r[k][1] <= f
    BY DEF UpTo
  <2>1. CASE k \in 1 .. Len(q)
    <3>1. r[k] = q[k] /\ q[k] \in Packet /\ q[k][1] <= f - 1
      BY <1>5, <2>1
    <3>2. q[k][1] \in Nat
      BY <3>1, TimeBound
    <3> QED
      BY <3>1, <3>2
  <2>2. CASE k \notin 1 .. Len(q)
    <3>1. PICK i \in 1 .. m : k = Len(q) + i
      BY <1>8, <2>2
    <3>2. r[k] = <<f, i>>
      BY <1>6, <3>1
    <3> QED
      BY <3>2
  <2> QED
    BY <2>1, <2>2
<1>11. \A x : Holds(q, x) => Holds(r, x)
  BY <1>3, <1>4, <1>5 DEF Holds
<1>12. m = 2 => \A i \in 1 .. 2 : Holds(r, <<f, i>>)
  BY <1>6 DEF Holds
<1>13. ASSUME NEW s \in Seq(Packet), Before(s, q), UpTo(s, f - 1) PROVE Before(s, r)
  <2> SUFFICES ASSUME NEW j \in DOMAIN s, NEW k \in DOMAIN r PROVE Time(s[j]) < Time(r[k])
    BY DEF Before
  <2>1. CASE k \in 1 .. Len(q)
    BY <1>3, <1>5, <1>13, <2>1 DEF Before
  <2>2. CASE k \notin 1 .. Len(q)
    <3>1. PICK i \in 1 .. m : k = Len(q) + i
      BY <1>8, <2>2
    <3>2. Time(r[k]) = 2 * f + i
      BY <1>6, <3>1
    <3>3. s[j] \in Packet /\ s[j][1] <= f - 1
      BY <1>13, LenProperties, ElementOfSeq DEF UpTo
    <3>4. Time(s[j]) \in Nat /\ Time(s[j]) <= 2 * s[j][1] + 2 /\ s[j][1] \in Nat
      BY <3>3, TimeBound
    <3> QED
      BY <3>2, <3>3, <3>4
  <2> QED
    BY <2>1, <2>2
<1> QED
  BY <1>4, <1>9, <1>10, <1>11, <1>12, <1>13

(* The next packet leaves the queue, for the browser or for nobody.           *)
LEMMA Dequeue ==
  ASSUME NEW g \in Seq(Packet), NEW q \in Seq(Packet), q # <<>>, NEW f,
         Rising(g), Rising(q), Before(g, q), UpTo(g, f), UpTo(q, f),
         NEW t, t = Tail(q), NEW a, a = Append(g, Head(q))
  PROVE  /\ t \in Seq(Packet) /\ Len(t) = Len(q) - 1 /\ Rising(t) /\ UpTo(t, f) /\ Before(g, t)
         /\ a \in Seq(Packet) /\ Rising(a) /\ UpTo(a, f) /\ Before(a, t)
         /\ \A x : Holds(g, x) => Holds(a, x)
         /\ \A x : Holds(q, x) => Holds(a, x) \/ Holds(t, x)
<1>1. /\ Len(g) \in Nat /\ DOMAIN g = 1 .. Len(g) /\ Len(q) \in Nat /\ DOMAIN q = 1 .. Len(q) /\ Len(q) > 0
      /\ Head(q) = q[1]
  BY LenProperties, EmptySeq
<1>2. /\ t \in Seq(Packet) /\ Len(t) = Len(q) - 1 /\ DOMAIN t = 1 .. Len(q) - 1
      /\ \A i \in 1 .. Len(q) - 1 : t[i] = q[i + 1]
  <2>1. t \in Seq(Packet) /\ Len(t) = Len(q) - 1 /\ \A i \in 1 .. Len(t) : t[i] = q[i + 1]
    BY HeadTailProperties
  <2> QED
    BY <2>1, LenProperties
<1>3. Head(q) \in Packet
  BY HeadTailProperties
<1>4. PICK n : n = Len(g) + 1
  OBVIOUS
<1>5. /\ a \in Seq(Packet) /\ Len(a) = n /\ DOMAIN a = 1 .. n /\ a[n] = q[1]
      /\ \A i \in 1 .. Len(g) : a[i] = g[i]
  <2>1. /\ a \in Seq(Packet) /\ Len(a) = Len(g) + 1 /\ a[Len(g) + 1] = Head(q)
        /\ \A i \in 1 .. Len(g) : a[i] = g[i]
    BY <1>3, AppendProperties
  <2> QED
    BY <1>1, <1>4, <2>1, LenProperties
<1>6. \A i \in DOMAIN a : i \in DOMAIN g \/ i = n
  BY <1>1, <1>4, <1>5
<1>7. \A i \in DOMAIN t : i + 1 \in DOMAIN q /\ 1 < i + 1 /\ 1 \in DOMAIN q
  BY <1>1, <1>2
<1>8. Rising(t) /\ UpTo(t, f)
  <2>1. \A i \in DOMAIN t : t[i] = q[i + 1]
    BY <1>2
  <2>2. UpTo(t, f)
    BY <1>7, <2>1 DEF UpTo
  <2>3. \A i, j \in DOMAIN t : i < j => i + 1 < j + 1
    BY <1>2
  <2>4. Rising(t)
    BY <1>7, <2>1, <2>3 DEF Rising
  <2> QED
    BY <2>2, <2>4
<1>9. Before(g, t)
  BY <1>2, <1>7 DEF Before
<1>10. Rising(a)
  <2> SUFFICES ASSUME NEW i \in DOMAIN a, NEW j \in DOMAIN a, i < j PROVE Time(a[i]) < Time(a[j])
    BY DEF Rising
  <2>1. i \in DOMAIN g /\ a[i] = g[i]
    BY <1>1, <1>4, <1>5
  <2>2. CASE j = n
    BY <1>1, <1>5, <2>1, <2>2 DEF Before
  <2>3. CASE j \in DOMAIN g
    BY <1>1, <1>5, <2>1, <2>3 DEF Rising
  <2> QED
    BY <1>6, <2>2, <2>3
<1>11. UpTo(a, f)
  <2> SUFFICES ASSUME NEW i \in DOMAIN a PROVE a[i][1] <= f
    BY DEF UpTo
  <2>1. CASE i = n
    BY <1>1, <1>5, <2>1 DEF UpTo
  <2>2. CASE i \in DOMAIN g
    BY <1>1, <1>5, <2>2 DEF UpTo
  <2> QED
    BY <1>6, <2>1, <2>2
<1>12. Before(a, t)
  <2> SUFFICES ASSUME NEW i \in DOMAIN a, NEW j \in DOMAIN t PROVE Time(a[i]) < Time(t[j])
    BY DEF Before
  <2>1. CASE i = n
    <3>1. Time(q[1]) < Time(q[j + 1])
      BY <1>7 DEF Rising
    <3> QED
      BY <1>2, <1>5, <2>1, <3>1
  <2>2. CASE i \in DOMAIN g
    BY <1>1, <1>5, <1>9, <2>2 DEF Before
  <2> QED
    BY <1>6, <2>1, <2>2
<1>13. \A x : Holds(g, x) => Holds(a, x)
  <2>1. \A i \in DOMAIN g : i \in DOMAIN a /\ a[i] = g[i]
    BY <1>1, <1>4, <1>5
  <2> QED
    BY <2>1 DEF Holds
<1>14. ASSUME NEW x, Holds(q, x) PROVE Holds(a, x) \/ Holds(t, x)
  <2>1. PICK k \in DOMAIN q : q[k] = x
    BY <1>14 DEF Holds
  <2>2. CASE k = 1
    <3>1. n \in DOMAIN a
      BY <1>1, <1>4, <1>5
    <3> QED
      BY <1>5, <2>1, <2>2, <3>1 DEF Holds
  <2>3. CASE k # 1
    <3>1. k - 1 \in DOMAIN t /\ (k - 1) + 1 = k
      BY <1>1, <1>2, <2>3
    <3>2. t[k - 1] = x
      BY <1>2, <2>1, <3>1
    <3> QED
      BY <3>1, <3>2 DEF Holds
  <2> QED
    BY <2>2, <2>3
<1> QED
  BY <1>2, <1>5, <1>8, <1>9, <1>10, <1>11, <1>12, <1>13, <1>14

(* The frame that is written goes to whoever is a client.                     *)
LEMMA DistributeStep == ASSUME QueueCap \in Nat, WebInv, W!Distribute PROVE WebInv'
<1> DEFINE room(p) == QueueCap - Len(queue[p])
           m(p) == IF room(p) < 2 THEN room(p) ELSE 2
<1>1. /\ writing = count /\ writing \in Nat \ {0} /\ writing' = 0 /\ count' = count
      /\ UNCHANGED <<got, first, clients, whep, writeLoop>> /\ Written = writing - 1 /\ Written' = writing
  BY DEF W!Distribute, W!sink, W!pairs, WebInv, WebShape, Written
<1>2. /\ queue' = [p \in Peers |-> IF p \notin clients THEN queue[p]
                                   ELSE queue[p] \o Fitting(writing, m(p))]
      /\ overrun' = overrun \cup {p \in clients : room(p) < 2}
  BY DEF W!Distribute, W!Room, W!Packets, Fitting
<1>3. ASSUME NEW p \in Peers
      PROVE  /\ queue[p] \in Seq(Packet) /\ got[p] \in Seq(Packet) /\ Len(queue[p]) \in Nat
             /\ m(p) \in 0 .. 2 /\ Len(queue[p]) + m(p) <= QueueCap /\ (p \in clients \ overrun' => m(p) = 2)
  <2>1. queue[p] \in Seq(Packet) /\ got[p] \in Seq(Packet) /\ Len(queue[p]) <= QueueCap
    BY DEF WebInv, WebShape
  <2>2. Len(queue[p]) \in Nat
    BY <2>1, LenProperties
  <2>3. m(p) \in 0 .. 2 /\ Len(queue[p]) + m(p) <= QueueCap
    <3>1. PICK l : l = Len(queue[p])
      OBVIOUS
    <3>2. l \in Nat /\ l <= QueueCap /\ room(p) = QueueCap - l
      BY <2>1, <2>2, <3>1
    <3>3. CASE room(p) < 2
      BY <3>1, <3>2, <3>3
    <3>4. CASE ~(room(p) < 2)
      BY <3>1, <3>2, <3>4
    <3> QED
      BY <3>3, <3>4
  <2>4. p \in clients \ overrun' => ~(room(p) < 2)
    BY <1>2
  <2> QED
    BY <2>1, <2>2, <2>3, <2>4
<1>4. ASSUME NEW p \in Peers
      PROVE  /\ queue'[p] \in Seq(Packet) /\ Len(queue'[p]) <= QueueCap /\ OneStream(p)' /\ Whole(p)'
  <2>1. OneStream(p) /\ Whole(p)
    BY DEF WebInv
  <2>2. CASE p \in clients
    <3>1. PICK r : r = queue[p] \o Fitting(writing, m(p))
      OBVIOUS
    <3>2. queue'[p] = r
      BY <1>2, <2>2, <3>1
    <3>3. Rising(queue[p]) /\ UpTo(queue[p], writing - 1) /\ Before(got[p], queue[p]) /\ UpTo(got[p], writing - 1)
      BY <1>1, <2>1 DEF OneStream
    <3>4. /\ r \in Seq(Packet) /\ Len(r) = Len(queue[p]) + m(p) /\ Rising(r) /\ UpTo(r, writing)
          /\ \A x : Holds(queue[p], x) => Holds(r, x)
          /\ m(p) = 2 => \A i \in 1 .. 2 : Holds(r, <<writing, i>>)
          /\ \A s \in Seq(Packet) : Before(s, queue[p]) /\ UpTo(s, writing - 1) => Before(s, r)
      <4>1. PICK k : k = m(p)
        OBVIOUS
      <4>2. k \in 0 .. 2 /\ r = queue[p] \o Fitting(writing, k)
        BY <1>3, <3>1, <4>1
      <4>3. PICK q : q = queue[p]
        OBVIOUS
      <4>4. /\ q \in Seq(Packet) /\ Rising(q) /\ UpTo(q, writing - 1)
            /\ r = q \o Fitting(writing, k)
        BY <1>3, <3>3, <4>2, <4>3
      <4>5. /\ r \in Seq(Packet) /\ Len(r) = Len(q) + k /\ Rising(r) /\ UpTo(r, writing)
            /\ \A x : Holds(q, x) => Holds(r, x)
            /\ k = 2 => \A i \in 1 .. 2 : Holds(r, <<writing, i>>)
            /\ \A s \in Seq(Packet) : Before(s, q) /\ UpTo(s, writing - 1) => Before(s, r)
        BY <1>1, <4>2, <4>4, Enqueue
      <4> HIDE DEF m
      <4> QED
        BY <4>1, <4>3, <4>5
    <3>5. UpTo(got[p], writing)
      <4>1. \A k \in DOMAIN got[p] : got[p][k][1] \in Nat /\ got[p][k][1] <= writing - 1
        BY <1>3, <3>3, LenProperties, ElementOfSeq, TimeBound DEF UpTo
      <4> QED
        BY <1>1, <4>1 DEF UpTo
    <3>6. OneStream(p)'
      <4>1. Rising(got'[p]) /\ Rising(queue'[p]) /\ Before(got'[p], queue'[p])
        BY <1>1, <1>3, <2>1, <3>2, <3>3, <3>4 DEF OneStream
      <4>2. UpTo(got'[p], Written') /\ UpTo(queue'[p], Written')
        BY <1>1, <3>2, <3>4, <3>5
      <4> QED
        BY <4>1, <4>2 DEF OneStream
    <3>7. Whole(p)'
      <4> SUFFICES ASSUME p \in clients \ overrun', writeLoop[p] = "running",
                          NEW f \in first[p] + 1 .. count, NEW i \in 1 .. 2
                   PROVE  Holds(got[p], <<f, i>>) \/ Holds(r, <<f, i>>)
        BY <1>1, <3>2 DEF Whole
      <4>1. CASE f = writing
        BY <1>3, <3>4, <4>1
      <4>2. CASE f # writing
        <5>1. p \in clients \ overrun
          BY <1>2
        <5>2. Holds(got[p], <<f, i>>) \/ Holds(queue[p], <<f, i>>)
          BY <2>1, <4>2, <5>1 DEF Whole
        <5> QED
          BY <3>4, <5>2
      <4> QED
        BY <4>1, <4>2
    <3>8. Len(queue'[p]) <= QueueCap
      BY <1>3, <3>2, <3>4
    <3> QED
      BY <3>2, <3>4, <3>6, <3>7, <3>8
  <2>3. CASE p \notin clients
    <3>1. queue'[p] = queue[p] /\ got'[p] = got[p] /\ p \notin clients'
      BY <1>1, <1>2, <2>3
    <3>2. UpTo(got[p], writing) /\ UpTo(queue[p], writing)
      <4>1. \A k \in DOMAIN got[p] : got[p][k][1] \in Nat /\ got[p][k][1] <= writing - 1
        BY <1>1, <1>3, <2>1, LenProperties, ElementOfSeq, TimeBound DEF UpTo, OneStream
      <4>2. \A k \in DOMAIN queue[p] : queue[p][k][1] \in Nat /\ queue[p][k][1] <= writing - 1
        BY <1>1, <1>3, <2>1, LenProperties, ElementOfSeq, TimeBound DEF UpTo, OneStream
      <4> QED
        BY <1>1, <4>1, <4>2 DEF UpTo
    <3>3. OneStream(p)'
      BY <1>1, <2>1, <3>1, <3>2 DEF OneStream
    <3>4. Whole(p)'
      BY <3>1 DEF Whole
    <3> QED
      BY <1>3, <3>1, <3>3, <3>4 DEF WebInv, WebShape
  <2> QED
    BY <2>2, <2>3
<1>5. WebShape'
  <2>1. queue' \in [Peers -> Seq(Packet)] /\ \A p \in Peers : Len(queue'[p]) <= QueueCap
    BY <1>2, <1>4
  <2> QED
    BY <1>1, <2>1 DEF WebInv, WebShape
<1>6. \A p \in Peers : NotYetIn(p)'
  BY <1>1 DEF WebInv, NotYetIn
<1> QED
  BY <1>4, <1>5, <1>6 DEF WebInv

(* The send loop of a browser takes a packet.                                 *)
LEMMA SendStep == ASSUME QueueCap \in Nat, WebInv, NEW p \in Peers, W!SendPacket(p) PROVE WebInv'
<1> DEFINE g == got[p]
           q == queue[p]
           t == Tail(q)
           a == Append(g, Head(q))
<1>1. /\ writeLoop[p] = "running" /\ q # <<>> /\ queue' = [queue EXCEPT ![p] = t]
      /\ UNCHANGED <<count, writing, overrun, first, clients, whep>> /\ Written' = Written
      /\ \/ got' = [got EXCEPT ![p] = a] /\ writeLoop' = writeLoop
         \/ got' = got /\ writeLoop' = [writeLoop EXCEPT ![p] = "failing"]
  BY DEF W!SendPacket, W!sink, Written
<1>2. g \in Seq(Packet) /\ q \in Seq(Packet) /\ OneStream(p) /\ Whole(p) /\ Len(q) <= QueueCap /\ Len(q) \in Nat
  BY LenProperties DEF WebInv, WebShape
<1>3. /\ t \in Seq(Packet) /\ Len(t) = Len(q) - 1 /\ Rising(t) /\ UpTo(t, Written) /\ Before(g, t)
      /\ a \in Seq(Packet) /\ Rising(a) /\ UpTo(a, Written) /\ Before(a, t)
      /\ \A x : Holds(g, x) => Holds(a, x)
      /\ \A x : Holds(q, x) => Holds(a, x) \/ Holds(t, x)
  <2> HIDE DEF g, q
  <2>1. Rising(g) /\ Rising(q) /\ Before(g, q) /\ UpTo(g, Written) /\ UpTo(q, Written)
    BY <1>2 DEF OneStream, g, q
  <2> QED
    BY <1>1, <1>2, <2>1, Dequeue
<1>4. queue'[p] = t /\ \A r \in Peers : r # p => queue'[r] = queue[r] /\ got'[r] = got[r] /\ writeLoop'[r] = writeLoop[r]
  BY <1>1 DEF WebInv, WebShape
<1>5. \/ got'[p] = a /\ writeLoop'[p] = "running"
      \/ got'[p] = g /\ writeLoop'[p] = "failing"
  BY <1>1 DEF WebInv, WebShape
<1> HIDE DEF t, a
<1>6. WebShape'
  <2>1. ASSUME NEW r \in Peers
        PROVE  queue'[r] \in Seq(Packet) /\ Len(queue'[r]) <= QueueCap /\ got'[r] \in Seq(Packet)
    <3>1. CASE r = p
      <4>1. Len(t) <= QueueCap
        BY <1>2, <1>3
      <4>2. got'[p] \in Seq(Packet)
        BY <1>2, <1>3, <1>5
      <4> QED
        BY <1>3, <1>4, <3>1, <4>1, <4>2
    <3>2. CASE r # p
      BY <1>4, <3>2 DEF WebInv, WebShape
    <3> QED
      BY <3>1, <3>2
  <2>2. queue' \in [Peers -> Seq(Packet)] /\ got' \in [Peers -> Seq(Packet)]
    BY <1>1, <2>1 DEF WebInv, WebShape
  <2>3. writeLoop' \in [Peers -> {"none", "running", "failing", "ended"}]
    BY <1>1 DEF WebInv, WebShape
  <2> QED
    BY <1>1, <2>1, <2>2, <2>3 DEF WebInv, WebShape
<1>7. ASSUME NEW r \in Peers PROVE OneStream(r)' /\ Whole(r)' /\ NotYetIn(r)'
  <2>1. NotYetIn(r)'
    BY <1>1 DEF WebInv, NotYetIn
  <2>2. CASE r # p
    BY <1>1, <1>4, <2>1, <2>2 DEF WebInv, OneStream, Whole
  <2>3. CASE r = p
    <3>1. OneStream(p)'
      BY <1>1, <1>2, <1>3, <1>4, <1>5 DEF OneStream
    <3>2. Whole(p)'
      <4>1. CASE got'[p] = a /\ writeLoop'[p] = "running"
        BY <1>1, <1>2, <1>3, <1>4, <4>1 DEF Whole
      <4>2. CASE writeLoop'[p] = "failing"
        BY <4>2 DEF Whole
      <4> QED
        BY <1>5, <4>1, <4>2
    <3> QED
      BY <2>1, <2>3, <3>1, <3>2
  <2> QED
    BY <2>2, <2>3
<1> QED
  BY <1>6, <1>7 DEF WebInv

LEMMA WebStep == ASSUME QueueCap \in Nat, WebInv, [W!Next]_(W!vars) PROVE WebInv'
<1>1. CASE W!Start \/ W!Configure \/ W!Stop
  BY <1>1, NoPacketStep DEF W!Start, W!Configure, W!Stop, W!pairs, W!streams, WebInv, WebShape, NotYetIn
<1>2. CASE W!LookAtSink
  BY <1>2, LookStep
<1>3. CASE W!Distribute
  BY <1>3, DistributeStep
<1>4. ASSUME NEW p \in Peers, W!Offer(p) \/ W!Negotiate(p) \/ W!Answer(p)
      PROVE  WebInv'
  <2>1. /\ UNCHANGED <<got, queue, count, writing, overrun, first, clients>>
        /\ whep' \in [Peers -> {"none", "refused", "negotiate", "register", "hook", "done"}]
        /\ writeLoop' \in [Peers -> {"none", "running", "failing", "ended"}]
    BY <1>4 DEF W!Offer, W!Negotiate, W!Answer, W!streams, WebInv, WebShape
  <2>2. \A r \in Peers : r # p => whep'[r] = whep[r] /\ writeLoop'[r] = writeLoop[r]
    BY <1>4 DEF W!Offer, W!Negotiate, W!Answer, WebInv, WebShape
  <2>3. p \in clients => whep[p] = "hook" /\ whep'[p] = "done" /\ writeLoop'[p] = writeLoop[p]
    BY <1>4 DEF W!Offer, W!Negotiate, W!Answer, WebInv, WebShape, NotYetIn
  <2>4. \A r \in Peers : NotYetIn(r)'
    BY <2>1, <2>2, <2>3 DEF WebInv, NotYetIn
  <2>5. \A r \in Peers : r \in clients' => r \in clients /\ first'[r] = first[r] /\ writeLoop'[r] = writeLoop[r]
    BY <2>1, <2>2, <2>3
  <2> QED
    BY <2>1, <2>4, <2>5, NoPacketStep DEF WebInv, WebShape
<1>5. ASSUME NEW p \in Peers, W!RegisterClient(p)
      PROVE  WebInv'
  <2>1. /\ UNCHANGED <<got, queue, count, writing, overrun, writeLoop>> /\ clients' = clients \cup {p}
        /\ first' = [first EXCEPT ![p] = count] /\ whep' = [whep EXCEPT ![p] = "hook"]
    BY <1>5 DEF W!RegisterClient, W!sink
  <2>2. /\ first' \in [Peers -> Nat] /\ clients' \subseteq Peers
        /\ whep' \in [Peers -> {"none", "refused", "negotiate", "register", "hook", "done"}]
    BY <2>1 DEF WebInv, WebShape
  <2>3. \A r \in Peers : NotYetIn(r)'
    BY <2>1 DEF WebInv, WebShape, NotYetIn
  <2>4. \A r \in Peers : r \in clients' => first'[r] = count \/ (r \in clients /\ first'[r] = first[r])
    BY <2>1 DEF WebInv, WebShape
  <2> QED
    BY <2>1, <2>2, <2>3, <2>4, NoPacketStep DEF WebInv, WebShape
<1>6. ASSUME NEW p \in Peers, W!SendPacket(p) PROVE WebInv'
  BY <1>6, SendStep
<1>7. ASSUME NEW p \in Peers, W!LoopEnds(p) \/ W!LoopFails(p) \/ W!PeerFails(p) \/ W!StateCallback(p)
      PROVE  WebInv'
  <2>1. /\ UNCHANGED <<got, queue, count, writing, overrun, first, whep>> /\ clients' \subseteq clients
        /\ (writeLoop' = writeLoop \/ writeLoop' = [writeLoop EXCEPT ![p] = "ended"])
    BY <1>7 DEF W!LoopEnds, W!LoopFails, W!PeerFails, W!StateCallback, W!DropClient, W!streams, W!sink
  <2>2. /\ writeLoop' \in [Peers -> {"none", "running", "failing", "ended"}]
        /\ \A r \in Peers : writeLoop'[r] = "running" => writeLoop[r] = "running"
    BY <2>1 DEF WebInv, WebShape
  <2>3. \A r \in Peers : NotYetIn(r)'
    BY <2>1 DEF WebInv, NotYetIn
  <2> QED
    BY <2>1, <2>2, <2>3, NoPacketStep DEF WebInv, WebShape
<1>8. CASE UNCHANGED W!vars
  <2>1. UNCHANGED <<got, queue, count, writing, overrun, first, clients, whep, writeLoop>>
    BY <1>8 DEF W!vars
  <2>2. \A r \in Peers : NotYetIn(r)'
    BY <2>1 DEF WebInv, NotYetIn
  <2> QED
    BY <2>1, <2>2, NoPacketStep DEF WebInv, WebShape
<1> QED
  BY <1>1, <1>2, <1>3, <1>4, <1>5, <1>6, <1>7, <1>8 DEF W!Next

(* What the browser has got and what waits for it, one after the other.       *)
LEMMA WebOrder == ASSUME WebInv PROVE W!PacketsInOrder
<1> DEFINE ByTime(s) == \A i, j \in DOMAIN s : i < j => 2 * s[i][1] + s[i][2] < 2 * s[j][1] + s[j][2]
           Complete(p, s) == p \in clients \ overrun /\ writeLoop[p] = "running" =>
                               \A f \in first[p] + 1 .. count : f # writing =>
                                 \A i \in 1 .. 2 : \E k \in DOMAIN s : s[k] = <<f, i>>
<1> SUFFICES ASSUME NEW p \in Peers, NEW s, s = got[p] \o queue[p]
             PROVE  ByTime(s) /\ Complete(p, s)
  <2>1. ASSUME NEW p \in Peers PROVE ByTime(got[p] \o queue[p]) /\ Complete(p, got[p] \o queue[p])
    <3>1. PICK s : s = got[p] \o queue[p]
      OBVIOUS
    <3> HIDE DEF ByTime, Complete
    <3>2. ByTime(s) /\ Complete(p, s)
      BY <3>1
    <3> QED
      BY <3>1, <3>2
  <2> QED
    BY <2>1, Zenon DEF W!PacketsInOrder
<1> DEFINE g == got[p]
           q == queue[p]
<1>1. g \in Seq(Packet) /\ q \in Seq(Packet) /\ OneStream(p) /\ Whole(p)
  BY DEF WebInv, WebShape
<1>2. Rising(g) /\ Rising(q) /\ Before(g, q)
  BY <1>1 DEF OneStream
<1>3. s = g \o q
  OBVIOUS
<1> HIDE DEF g, q
<1>4. PICK n : n = Len(g)
  OBVIOUS
<1>5. n \in Nat /\ DOMAIN g = 1 .. n /\ Len(q) \in Nat /\ DOMAIN q = 1 .. Len(q)
  BY <1>1, <1>4, LenProperties
<1>6. DOMAIN s = 1 .. n + Len(q) /\ \A k \in 1 .. n + Len(q) : s[k] = IF k <= n THEN g[k] ELSE q[k - n]
  BY <1>1, <1>3, <1>4, ConcatProperties, LenProperties
<1>7. ASSUME NEW k \in DOMAIN s
      PROVE  \/ k <= n /\ k \in DOMAIN g /\ s[k] = g[k]
             \/ k > n /\ k - n \in DOMAIN q /\ s[k] = q[k - n]
  <2>1. k \in Nat /\ 1 <= k /\ k <= n + Len(q)
    BY <1>5, <1>6
  <2>2. CASE k <= n
    <3>1. s[k] = g[k]
      BY <1>6, <2>2
    <3>2. k \in 1 .. n
      BY <1>5, <2>1, <2>2
    <3> QED
      BY <1>5, <2>2, <3>1, <3>2
  <2>3. CASE ~(k <= n)
    <3>1. k > n /\ k - n \in 1 .. Len(q)
      BY <1>5, <2>1, <2>3
    <3>2. s[k] = q[k - n]
      BY <1>6, <2>3
    <3> QED
      BY <1>5, <3>1, <3>2
  <2> QED
    BY <2>2, <2>3
<1>8. ASSUME NEW i \in DOMAIN s, NEW j \in DOMAIN s, i < j PROVE Time(s[i]) < Time(s[j])
  <2>1. CASE j <= n /\ j \in DOMAIN g /\ s[j] = g[j]
    <3>1. i \in Nat /\ j \in Nat
      BY <1>5, <1>6
    <3>2. ~(i > n)
      BY <1>5, <1>8, <2>1, <3>1
    <3>3. i \in DOMAIN g /\ s[i] = g[i]
      BY <1>7, <3>2
    <3> QED
      BY <1>2, <1>8, <2>1, <3>3 DEF Rising
  <2>2. CASE j > n /\ j - n \in DOMAIN q /\ s[j] = q[j - n]
    <3>1. CASE i \in DOMAIN g /\ s[i] = g[i]
      BY <1>2, <2>2, <3>1 DEF Before
    <3>2. CASE i > n /\ i - n \in DOMAIN q /\ s[i] = q[i - n]
      <4>1. i - n < j - n
        BY <1>5, <1>6, <1>8
      <4> QED
        BY <1>2, <2>2, <3>2, <4>1 DEF Rising
    <3> QED
      BY <1>7, <3>1, <3>2
  <2> QED
    BY <1>7, <2>1, <2>2
<1>9. ASSUME NEW x, Holds(g, x) \/ Holds(q, x) PROVE \E k \in DOMAIN s : s[k] = x
  <2>1. CASE Holds(g, x)
    <3>1. PICK k \in DOMAIN g : g[k] = x
      BY <2>1 DEF Holds
    <3>2. k \in 1 .. n + Len(q) /\ k <= n
      BY <1>5
    <3>3. k \in DOMAIN s /\ s[k] = g[k]
      BY <1>6, <3>2
    <3> QED
      BY <3>1, <3>3
  <2>2. CASE Holds(q, x)
    <3>1. PICK k \in DOMAIN q : q[k] = x
      BY <2>2 DEF Holds
    <3>2. PICK l : l = n + k
      OBVIOUS
    <3>3. l \in 1 .. n + Len(q) /\ ~(l <= n) /\ l - n = k
      BY <1>5, <3>2
    <3>4. l \in DOMAIN s /\ s[l] = q[k]
      BY <1>6, <3>3
    <3> QED
      BY <3>1, <3>4
  <2> QED
    BY <1>9, <2>1, <2>2
<1>10. p \in clients \ overrun /\ writeLoop[p] = "running" =>
         \A f \in first[p] + 1 .. count : f # writing => \A i \in 1 .. 2 : Holds(g, <<f, i>>) \/ Holds(q, <<f, i>>)
  BY <1>1 DEF Whole, g, q
<1> QED
  BY <1>8, <1>9, <1>10 DEF Time

(* Whenever browsers come and go and however their queues fill, a browser     *)
(* gets the packets of the frames in their order, none twice, and one that    *)
(* stays and whose queue never overran misses none since it came              *)
(* (webrtc_sink.go:234-249, 318-346).                                         *)
THEOREM BrowserInOrder == ASSUME QueueCap \in Nat PROVE W!Spec => []W!PacketsInOrder
<1>1. W!Init => WebInv
  BY InitWeb
<1>2. WebInv /\ [W!Next]_(W!vars) => WebInv'
  BY WebStep
<1>3. WebInv => W!PacketsInOrder
  BY WebOrder
<1> QED
  BY <1>1, <1>2, <1>3, PTL DEF W!Spec
-----------------------------------------------------------------------------
(***************************************************************************)
(* The MP4 input: the frames of all tracks leave in the order of their media *)
(* times, around and around.                                                 *)
(***************************************************************************)
(* The least number of a set: an induction is a least counterexample.         *)
LEMMA NatOrdered == IsWellFoundedOn({ss \in Nat \X Nat : ss[1] < ss[2]}, Nat)
  BY NatLessThanWellFounded DEF OpToRel

LEMMA Least ==
  ASSUME NEW S \in SUBSET Nat, S # {}
  PROVE  \E n \in S : \A m \in S : n <= m
<1> DEFINE less == {ss \in Nat \X Nat : ss[1] < ss[2]}
<1>1. \A x, y \in Nat : x < y => <<x, y>> \in less
  OBVIOUS
<1>2. IsWellFoundedOn(less, Nat)
  BY NatOrdered
<1> HIDE DEF less
<1>3. PICK x \in S : \A y \in S : ~ (<<y, x>> \in less)
  BY <1>2, WFMin
<1>4. ASSUME NEW m \in S PROVE x <= m
  <2>1. x \in Nat /\ m \in Nat
    OBVIOUS
  <2>2. ~(m < x)
    BY <1>1, <1>3, <2>1
  <2> QED
    BY <2>1, <2>2
<1> QED
  BY <1>4

(* Conversions between clocks, which round down.                              *)
LEMMA TimesMore ==
  ASSUME NEW a \in Nat, NEW b \in Nat, NEW c \in Nat, a <= b
  PROVE  a * c <= b * c /\ a * c \in Nat /\ b * c \in Nat
  OBVIOUS

LEMMA Rounds ==
  ASSUME NEW v \in Nat, NEW from \in Nat \ {0}, NEW to \in Nat
  PROVE  /\ ConvertClock(v, from, to) \in Nat
         /\ ConvertClock(v, from, to) * from <= v * to
         /\ v * to < ConvertClock(v, from, to) * from + from
<1>1. PICK x \in Nat : x = v * to
  OBVIOUS
<1>2. PICK q : q = x \div from
  OBVIOUS
<1>3. q \in Nat /\ q * from <= x /\ x < q * from + from
  BY <1>2
<1> QED
  BY <1>1, <1>2, <1>3 DEF ConvertClock

(* A time on one clock that is no later than one on another stays so.         *)
LEMMA RoundsInOrder ==
  ASSUME NEW v \in Nat, NEW w \in Nat, NEW f \in Nat \ {0}, NEW g \in Nat \ {0}, NEW to \in Nat,
         v * g <= w * f
  PROVE  ConvertClock(v, f, to) <= ConvertClock(w, g, to)
<1>1. PICK p \in Nat : p = ConvertClock(v, f, to) /\ p * f <= v * to
  BY Rounds
<1>2. PICK q \in Nat : q = ConvertClock(w, g, to) /\ w * to < q * g + g
  BY Rounds
<1>3. SUFFICES ASSUME q + 1 <= p PROVE FALSE
  BY <1>1, <1>2
<1>4. (q + 1) * f <= p * f
  BY <1>3, TimesMore
<1>5. (q + 1) * f * g <= v * to * g
  <2>1. (q + 1) * f \in Nat /\ v * to \in Nat /\ (q + 1) * f <= v * to
    BY <1>1, <1>4
  <2> QED
    BY <2>1, TimesMore
<1>6. (v * g) * to <= (w * f) * to
  <2>1. v * g \in Nat /\ w * f \in Nat
    OBVIOUS
  <2> QED
    BY <2>1, TimesMore
<1>7. (w * to) * f < (q * g + g) * f
  <2>1. w * to \in Nat /\ q * g + g \in Nat /\ w * to + 1 <= q * g + g
    BY <1>2
  <2>2. (w * to + 1) * f <= (q * g + g) * f
    BY <2>1, TimesMore
  <2> QED
    BY <2>1, <2>2
<1>8. v * to * g = (v * g) * to /\ (w * f) * to = (w * to) * f /\ (q * g + g) * f = (q + 1) * f * g
  OBVIOUS
<1> QED
  BY <1>5, <1>6, <1>7, <1>8

(* The first of the least, the first of the greatest.                         *)
LEMMA FirstLeast ==
  ASSUME NEW S \in SUBSET Nat, S # {}, NEW L \in [S -> Nat]
  PROVE  \E t \in S : \A u \in S : L[t] < L[u] \/ (L[t] = L[u] /\ t <= u)
<1>1. PICK x \in {L[t] : t \in S} : \A y \in {L[t] : t \in S} : x <= y
  <2>1. {L[t] : t \in S} \in SUBSET Nat /\ {L[t] : t \in S} # {}
    OBVIOUS
  <2> QED
    BY <2>1, Least
<1>2. PICK t \in {u \in S : L[u] = x} : \A u \in {v \in S : L[v] = x} : t <= u
  <2>1. {u \in S : L[u] = x} \in SUBSET Nat /\ {u \in S : L[u] = x} # {}
    BY <1>1
  <2> QED
    BY <2>1, Least
<1>3. ASSUME NEW u \in S PROVE L[t] < L[u] \/ (L[t] = L[u] /\ t <= u)
  <2>1. x <= L[u] /\ L[t] = x /\ x \in Nat /\ L[u] \in Nat
    BY <1>1, <1>2
  <2> QED
    BY <1>2, <2>1
<1> QED
  BY <1>2, <1>3

LEMMA Bounded ==
  ASSUME NEW N \in Nat, NEW L \in [1 .. N -> Nat]
  PROVE  \E b \in Nat : \A t \in 1 .. N : L[t] <= b
<1> DEFINE P(k) == \E b \in Nat : \A t \in 1 .. k : L[t] <= b
           Bad == {k \in 0 .. N : ~P(k)}
<1>1. P(0)
  OBVIOUS
<1>2. ASSUME NEW k \in 1 .. N, P(k - 1) PROVE P(k)
  <2>1. PICK b \in Nat : \A t \in 1 .. k - 1 : L[t] <= b
    BY <1>2
  <2>2. \A t \in 1 .. k : t \in 1 .. k - 1 \/ t = k
    OBVIOUS
  <2>3. b + L[k] \in Nat /\ \A t \in 1 .. k : L[t] <= b + L[k]
    BY <2>1, <2>2
  <2> QED
    BY <2>3
<1> HIDE DEF P
<1>3. Bad = {}
  <2> SUFFICES ASSUME Bad # {} PROVE FALSE
    OBVIOUS
  <2>1. PICK k \in Bad : \A m \in Bad : k <= m
    <3>1. Bad \in SUBSET Nat
      OBVIOUS
    <3> QED
      BY <3>1, Least
  <2>2. k \in 1 .. N /\ ~P(k)
    BY <1>1
  <2>3. k - 1 \in 0 .. N /\ ~(k <= k - 1)
    BY <2>2
  <2>4. P(k - 1)
    BY <2>1, <2>3
  <2> QED
    BY <1>2, <2>2, <2>4
<1>4. P(N)
  BY <1>3
<1> QED
  BY <1>4 DEF P

LEMMA FirstGreatest ==
  ASSUME NEW N \in Nat \ {0}, NEW L \in [1 .. N -> Nat]
  PROVE  \E t \in 1 .. N : \A u \in 1 .. N : L[u] < L[t] \/ (L[u] = L[t] /\ t <= u)
<1>1. PICK b \in Nat : \A t \in 1 .. N : L[t] <= b
  BY Bounded
<1>2. PICK M : M = [t \in 1 .. N |-> b - L[t]]
  OBVIOUS
<1>3. M \in [1 .. N -> Nat] /\ \A t \in 1 .. N : M[t] = b - L[t] /\ L[t] \in Nat
  BY <1>1, <1>2
<1>4. PICK t \in 1 .. N : \A u \in 1 .. N : M[t] < M[u] \/ (M[t] = M[u] /\ t <= u)
  <2>1. 1 .. N \in SUBSET Nat /\ 1 .. N # {}
    OBVIOUS
  <2> QED
    BY <1>3, <2>1, FirstLeast
<1>5. \A u \in 1 .. N : L[u] < L[t] \/ (L[u] = L[t] /\ t <= u)
  BY <1>3, <1>4
<1> QED
  BY <1>5

-----------------------------------------------------------------------------
(* Tracks and the times of their samples.                                     *)
LEMMA TracksAre ==
  /\ Len(Tracks) \in Nat \ {0} /\ T = 1 .. Len(Tracks) /\ 1 \in T
  /\ \A t \in T : /\ Tracks[t].video \in BOOLEAN /\ Tracks[t].scale \in Nat \ {0}
                  /\ Tracks[t].deltas \in Seq(Nat) /\ Tracks[t].sync \in SUBSET Nat
                  /\ Total(t) \in Nat \ {0}
<1> DEFINE Track == [video : BOOLEAN, scale : Nat \ {0}, deltas : Seq(Nat), sync : SUBSET Nat]
<1>1. Tracks \in Seq(Track) /\ Tracks # <<>> /\ \A t \in T : Tracks[t].deltas # <<>>
  BY SourceAssumption DEF T
<1>2. \A t \in T : Tracks[t] \in Track
  <2> HIDE DEF Track
  <2> QED
    BY <1>1 DEF T
<1>3. /\ Len(Tracks) \in Nat \ {0} /\ T = 1 .. Len(Tracks)
  <2> HIDE DEF Track
  <2> QED
    BY <1>1 DEF T
<1>4. \A d \in Seq(Nat) : d # <<>> => Len(d) \in Nat \ {0}
  OBVIOUS
<1>5. \A t \in T : Tracks[t].deltas \in Seq(Nat)
  BY <1>2
<1>6. \A t \in T : Total(t) \in Nat \ {0}
  BY <1>1, <1>4, <1>5 DEF Total
<1> QED
  BY <1>2, <1>3, <1>5, <1>6

LEMMA RunningSum ==
  ASSUME NEW d \in Seq(Nat)
  PROVE  \E f \in [0 .. Len(d) -> Nat] :
           f = [n \in 0 .. Len(d) |-> IF n = 0 THEN 0 ELSE f[n - 1] + d[n]]
<1>1. PICK N \in Nat : N = Len(d)
  OBVIOUS
<1>2. \A n \in 1 .. N : d[n] \in Nat
  BY <1>1
<1> DEFINE P(k) == \E f \in [0 .. k -> Nat] :
                     f = [n \in 0 .. k |-> IF n = 0 THEN 0 ELSE f[n - 1] + d[n]]
           Bad == {k \in 0 .. N : ~P(k)}
<1>3. P(0)
  <2>1. PICK f : f = [n \in 0 .. 0 |-> 0]
    OBVIOUS
  <2>2. f \in [0 .. 0 -> Nat] /\ f = [n \in 0 .. 0 |-> IF n = 0 THEN 0 ELSE f[n - 1] + d[n]]
    BY <2>1
  <2> QED
    BY <2>2
<1>4. ASSUME NEW k \in 1 .. N, P(k - 1) PROVE P(k)
  <2>1. PICK f \in [0 .. k - 1 -> Nat] :
          f = [n \in 0 .. k - 1 |-> IF n = 0 THEN 0 ELSE f[n - 1] + d[n]]
    BY <1>4
  <2>2. PICK g : g = [n \in 0 .. k |-> IF n = k THEN f[k - 1] + d[k] ELSE f[n]]
    OBVIOUS
  <2>3. f[k - 1] \in Nat /\ d[k] \in Nat
    BY <1>2
  <2>4. g \in [0 .. k -> Nat]
    BY <2>2, <2>3
  <2>5. ASSUME NEW n \in 0 .. k PROVE g[n] = IF n = 0 THEN 0 ELSE g[n - 1] + d[n]
    <3>1. CASE n = k
      BY <2>2, <3>1
    <3>2. CASE n < k
      <4>1. n \in 0 .. k - 1 /\ g[n] = f[n] /\ (n # 0 => n - 1 \in 0 .. k - 1 /\ g[n - 1] = f[n - 1])
        BY <2>2, <3>2
      <4> QED
        BY <2>1, <4>1
    <3> QED
      BY <3>1, <3>2
  <2>6. g = [n \in 0 .. k |-> IF n = 0 THEN 0 ELSE g[n - 1] + d[n]]
    BY <2>4, <2>5
  <2> QED
    BY <2>4, <2>6
<1> HIDE DEF P
<1>5. Bad = {}
  <2> SUFFICES ASSUME Bad # {} PROVE FALSE
    OBVIOUS
  <2>1. PICK k \in Bad : \A m \in Bad : k <= m
    <3>1. Bad \in SUBSET Nat
      OBVIOUS
    <3> QED
      BY <3>1, Least
  <2>2. k \in 1 .. N /\ ~P(k)
    BY <1>3
  <2>3. k - 1 \in 0 .. N /\ ~(k <= k - 1)
    BY <2>2
  <2>4. P(k - 1)
    BY <2>1, <2>3
  <2> QED
    BY <1>4, <2>2, <2>4
<1>6. P(N)
  BY <1>5
<1> QED
  BY <1>1, <1>6 DEF P

(* The recursion of Sums defines the running sums of the durations.           *)
LEMMA SumsRun ==
  ASSUME NEW t \in T
  PROVE  /\ SumTo(t, 0) = 0
         /\ \A n \in 1 .. Total(t) : SumTo(t, n) = SumTo(t, n - 1) + Tracks[t].deltas[n]
<1> DEFINE F(s) == [n \in 0 .. Total(t) |-> IF n = 0 THEN 0 ELSE s[n - 1] + Tracks[t].deltas[n]]
<1>1. Sums[t] = CHOOSE s : s = F(s)
  BY DEF Sums
<1>2. PICK f \in [0 .. Total(t) -> Nat] : f = F(f)
  BY TracksAre, RunningSum DEF Total
<1>3. Sums[t] = F(Sums[t])
  <2> HIDE DEF F
  <2> QED
    BY <1>1, <1>2
<1>4. Total(t) \in Nat
  BY TracksAre
<1>5. 0 \in 0 .. Total(t) /\ \A n \in 1 .. Total(t) : n \in 0 .. Total(t) /\ n # 0
  BY <1>4
<1> QED
  BY <1>3, <1>5 DEF SumTo

LEMMA SumsRise ==
  ASSUME NEW t \in T
  PROVE  \A n \in 0 .. Total(t) :
           SumTo(t, n) \in Nat /\ \A m \in 0 .. n : SumTo(t, m) <= SumTo(t, n)
<1>1. PICK N \in Nat : N = Total(t)
  BY TracksAre
<1>2. \A n \in 1 .. N : Tracks[t].deltas[n] \in Nat
  BY <1>1, TracksAre DEF Total
<1> DEFINE P(n) == /\ \A m \in 0 .. n : SumTo(t, m) \in Nat
                   /\ \A m \in 0 .. n : SumTo(t, m) <= SumTo(t, n)
           Bad == {n \in 0 .. N : ~P(n)}
<1>3. P(0)
  <2>1. \A m \in 0 .. 0 : m = 0
    OBVIOUS
  <2> QED
    BY <2>1, SumsRun
<1>4. ASSUME NEW n \in 1 .. N, P(n - 1) PROVE P(n)
  <2>1. SumTo(t, n) = SumTo(t, n - 1) + Tracks[t].deltas[n] /\ Tracks[t].deltas[n] \in Nat
    BY <1>1, <1>2, SumsRun
  <2>2. SumTo(t, n) \in Nat /\ SumTo(t, n - 1) <= SumTo(t, n)
    BY <1>4, <2>1
  <2>3. ASSUME NEW m \in 0 .. n PROVE SumTo(t, m) \in Nat /\ SumTo(t, m) <= SumTo(t, n)
    <3>1. m = n \/ m \in 0 .. n - 1
      OBVIOUS
    <3>2. ASSUME m \in 0 .. n - 1 PROVE SumTo(t, m) \in Nat /\ SumTo(t, m) <= SumTo(t, n)
      BY <1>4, <2>1, <3>2
    <3> QED
      BY <2>2, <3>1, <3>2
  <2> QED
    BY <2>2, <2>3
<1> HIDE DEF P
<1>5. Bad = {}
  <2> SUFFICES ASSUME Bad # {} PROVE FALSE
    OBVIOUS
  <2>1. PICK k \in Bad : \A m \in Bad : k <= m
    <3>1. Bad \in SUBSET Nat
      OBVIOUS
    <3> QED
      BY <3>1, Least
  <2>2. k \in 1 .. N /\ ~P(k)
    BY <1>3
  <2>3. k - 1 \in 0 .. N /\ ~(k <= k - 1)
    BY <2>2
  <2>4. P(k - 1)
    BY <2>1, <2>3
  <2> QED
    BY <1>4, <2>2, <2>4
<1>6. \A n \in 0 .. N : P(n)
  BY <1>5
<1> QED
  BY <1>1, <1>6 DEF P

LEMMA TimesRise ==
  ASSUME NEW grid \in BOOLEAN, NEW t \in T
  PROVE  /\ TimeOf(grid, t, 0) = 0
         /\ \A n \in 0 .. Total(t) : TimeOf(grid, t, n) \in Nat
         /\ \A n \in 0 .. Total(t) : \A m \in 0 .. n : TimeOf(grid, t, m) <= TimeOf(grid, t, n)
<1>1. PICK N \in Nat \ {0} : N = Total(t)
  BY TracksAre
<1>2. PICK g : g = GridStep[t]
  OBVIOUS
<1>3. g \in Nat
  <2>1. PICK x \in Nat : x = SumTo(t, N)
    BY <1>1, SumsRise
  <2>2. g = IF Tracks[t].video THEN (2 * x + N) \div (2 * N) ELSE 1
    BY <1>1, <1>2, <2>1 DEF GridStep
  <2>3. 2 * x + N \in Nat /\ 2 * N \in Nat \ {0}
    OBVIOUS
  <2>4. (2 * x + N) \div (2 * N) \in Nat
    BY <2>3
  <2> QED
    BY <2>2, <2>4
<1>4. \A n \in 0 .. N : TimeOf(grid, t, n) = IF grid THEN n * g ELSE SumTo(t, n)
  BY <1>2 DEF TimeOf
<1>5. \A n \in 0 .. N : n * g \in Nat /\ \A m \in 0 .. n : m * g <= n * g
  BY <1>3, TimesMore
<1>6. 0 * g = 0
  BY <1>3
<1>7. /\ SumTo(t, 0) = 0
      /\ \A n \in 0 .. N : SumTo(t, n) \in Nat /\ \A m \in 0 .. n : SumTo(t, m) <= SumTo(t, n)
  BY <1>1, SumsRun, SumsRise
<1>8. \A n \in 0 .. N : \A m \in 0 .. n : m \in 0 .. N
  OBVIOUS
<1> QED
  BY <1>1, <1>4, <1>5, <1>6, <1>7, <1>8

LEMMA BaseIsTrack == ASSUME NEW grid \in BOOLEAN PROVE BaseTrack[grid] \in T
<1> DEFINE long(t) == ConvertClock(TimeOf(grid, t, Total(t)), Tracks[t].scale, Micro)
<1>1. PICK N \in Nat \ {0} : T = 1 .. N
  BY TracksAre
<1>2. ASSUME NEW t \in T PROVE long(t) \in Nat
  <2>1. Total(t) \in 0 .. Total(t) /\ Tracks[t].scale \in Nat \ {0} /\ Micro \in Nat
    BY TracksAre, SourceAssumption
  <2>2. TimeOf(grid, t, Total(t)) \in Nat
    BY <2>1, TimesRise
  <2> QED
    BY <2>1, <2>2, Rounds
<1>3. BaseTrack[grid] = CHOOSE t \in T : \A u \in T : long(u) < long(t) \/ (long(u) = long(t) /\ t <= u)
  BY DEF BaseTrack
<1> HIDE DEF long
<1>4. PICK L : L = [t \in 1 .. N |-> long(t)]
  OBVIOUS
<1>5. L \in [1 .. N -> Nat] /\ \A t \in T : L[t] = long(t)
  BY <1>1, <1>2, <1>4
<1>6. PICK t \in 1 .. N : \A u \in 1 .. N : L[u] < L[t] \/ (L[u] = L[t] /\ t <= u)
  BY <1>5, FirstGreatest
<1>7. \E x \in T : \A u \in T : long(u) < long(x) \/ (long(u) = long(x) /\ x <= u)
  BY <1>1, <1>5, <1>6
<1> QED
  BY <1>3, <1>7

-----------------------------------------------------------------------------
(* When sample n of track t is to be played.                                  *)
MediaAt(t, n) == ConvertClock(DecodeTime(t, n) + loopDur[t], Tracks[t].scale, Micro)

Scale(t) == Tracks[t].scale

(* Cancelling a common factor.                                                *)
LEMMA Cancel ==
  ASSUME NEW a \in Nat, NEW b \in Nat, NEW c \in Nat \ {0}
  PROVE  /\ a * c <= b * c => a <= b
         /\ a * c < b * c => a < b
<1>1. ASSUME a > b PROVE a * c > b * c
  <2>1. (b + 1) * c <= a * c
    BY <1>1, TimesMore
  <2>2. (b + 1) * c = b * c + c
    OBVIOUS
  <2>3. b * c \in Nat /\ a * c \in Nat
    OBVIOUS
  <2> QED
    BY <2>1, <2>2, <2>3
<1>2. a * c \in Nat /\ b * c \in Nat
  OBVIOUS
<1>3. a = b => a * c = b * c
  OBVIOUS
<1> QED
  BY <1>1, <1>2, <1>3

(* The arithmetic of a round: sb, st, su are the scales of the base track, of *)
(* the track whose round starts at n, and of the track that was d in its last *)
(* round; the base track was at l and its round lasts e.                      *)
LEMMA NextRoundIsLater ==
  ASSUME NEW sb \in Nat \ {0}, NEW st \in Nat \ {0}, NEW su \in Nat \ {0},
         NEW l \in Nat, NEW e \in Nat, NEW d \in Nat, NEW last \in Nat, NEW n \in Nat,
         d * sb <= l * su, (last * st + su) * sb <= e * su * st, (l + e) * st < n * sb + sb
  PROVE  (last + d) * st <= n * su
<1>1. d * sb * st <= l * su * st
  <2>1. d * sb \in Nat /\ l * su \in Nat
    OBVIOUS
  <2> QED
    BY <2>1, TimesMore
<1>2. (l + e) * st * su + su <= (n * sb + sb) * su
  <2>1. (l + e) * st \in Nat /\ n * sb + sb \in Nat /\ (l + e) * st + 1 <= n * sb + sb
    OBVIOUS
  <2>2. ((l + e) * st + 1) * su <= (n * sb + sb) * su
    BY <2>1, TimesMore
  <2>3. PICK x \in Nat : x = (l + e) * st
    OBVIOUS
  <2>4. (x + 1) * su = x * su + su
    OBVIOUS
  <2> QED
    BY <2>2, <2>3, <2>4
<1>3. (last + d) * st * sb < (n * su) * sb
  <2>1. (last + d) * st * sb = last * st * sb + d * sb * st
    OBVIOUS
  <2>2. (last * st + su) * sb = last * st * sb + su * sb
    OBVIOUS
  <2>3. (l + e) * st * su = l * su * st + e * su * st
    OBVIOUS
  <2>4. (n * sb + sb) * su = (n * su) * sb + su * sb
    OBVIOUS
  <2> QED
    BY <1>1, <1>2, <2>1, <2>2, <2>3, <2>4
<1>4. (last + d) * st \in Nat /\ n * su \in Nat
  OBVIOUS
<1>5. PICK a \in Nat : a = (last + d) * st
  BY <1>4
<1>6. PICK b \in Nat : b = n * su
  BY <1>4
<1>7. a * sb < b * sb
  BY <1>3, <1>5, <1>6
<1>8. a < b
  BY <1>7, Cancel
<1> QED
  BY <1>5, <1>6, <1>8

\* The same for a track's own next round, and for that of the base track.
LEMMA OwnRoundIsLater ==
  ASSUME NEW sb \in Nat \ {0}, NEW su \in Nat \ {0},
         NEW l \in Nat, NEW e \in Nat, NEW d \in Nat, NEW last \in Nat,
         d * sb <= l * su, last * sb <= e * su
  PROVE  /\ (last + d) * sb <= (l + e) * su
         /\ \A n \in Nat : (l + e) * su < n * sb + sb => last + d <= n
<1>1. (last + d) * sb <= (l + e) * su
  <2>1. (last + d) * sb = last * sb + d * sb /\ (l + e) * su = l * su + e * su
    OBVIOUS
  <2> QED
    BY <2>1
<1>2. ASSUME NEW n \in Nat, (l + e) * su < n * sb + sb PROVE last + d <= n
  <2>1. (n + 1) * sb = n * sb + sb
    OBVIOUS
  <2>2. (last + d) * sb < (n + 1) * sb
    BY <1>1, <1>2, <2>1
  <2>3. last + d < n + 1
    BY <2>2, Cancel
  <2> QED
    BY <2>3
<1> QED
  BY <1>1, <1>2

-----------------------------------------------------------------------------
(* What the loop keeps.                                                       *)
SourceShape ==
  /\ conf \in Configs /\ tr \in T /\ loop \in {"none", "pick", "next", "count", "read", "paced", "idle"}
  /\ nr \in [T -> Nat \ {0}] /\ loopDur \in [T -> Nat] /\ play \in [T -> BOOLEAN]
  /\ epoch \in Nat /\ picked \in Nat /\ picked <= epoch
  /\ sent = [track |-> sent.track, media |-> sent.media, header |-> sent.header, payload |-> sent.payload]

(* The rounds of a track do not begin later than those of the base track.     *)
Aligned == \A t \in T : loopDur[t] * Scale(Base) <= loopDur[Base] * Scale(t)

HasSent == sent.track # 0
BeforeAll(m) == \A t \in Sending : m <= Media(t)

(* What was sent lies before what may be sent next, and before the end of its *)
(* round.                                                                     *)
SentBefore ==
  HasSent => /\ sent.media \in Nat /\ BeforeAll(sent.media)
             /\ \E t \in T : sent.media <= MediaAt(t, Total(t))

(* The sample the loop has chosen, unless the media time has jumped since.    *)
InHand == IF loop = "next" THEN nr[tr] ELSE header
ChosenNext ==
  loop \in {"next", "count", "read"} /\ picked = epoch =>
    /\ InHand \in 1 .. Total(tr)
    /\ HasSent => sent.media <= MediaAt(tr, InHand)
    /\ BeforeAll(MediaAt(tr, InHand))
    /\ loop = "count" => nr[tr] = header
    /\ loop = "read" => nr[tr] = header + 1

SourceInv == SourceShape /\ Aligned /\ SentBefore /\ ChosenNext

LEMMA ConfIs ==
  ASSUME SourceShape
  PROVE  /\ conf.grid \in BOOLEAN /\ Base \in T /\ Base = BaseTrack[conf.grid] /\ Micro \in Nat \ {0}
         /\ \A t \in T : Scale(t) \in Nat \ {0} /\ t # 0 /\ Total(t) \in Nat \ {0}
<1>1. conf.grid \in BOOLEAN /\ Micro \in Nat \ {0}
  BY SourceAssumption DEF SourceShape
<1>2. Base = BaseTrack[conf.grid]
  BY DEF Base
<1> QED
  BY <1>1, <1>2, BaseIsTrack, TracksAre DEF Scale

(* A track's times rise within its round.                                     *)
LEMMA StampsRise ==
  ASSUME NEW g \in BOOLEAN, NEW t \in T, NEW d \in Nat, NEW n \in 1 .. Total(t), NEW m \in 1 .. n
  PROVE  /\ ConvertClock(TimeOf(g, t, n - 1) + d, Tracks[t].scale, Micro) \in Nat
         /\ ConvertClock(TimeOf(g, t, m - 1) + d, Tracks[t].scale, Micro)
              <= ConvertClock(TimeOf(g, t, n - 1) + d, Tracks[t].scale, Micro)
<1>1. PICK N \in Nat \ {0} : N = Total(t)
  BY TracksAre
<1>2. PICK s \in Nat \ {0} : s = Tracks[t].scale
  BY TracksAre
<1>3. /\ \A k \in 0 .. N : TimeOf(g, t, k) \in Nat
      /\ \A k \in 0 .. N : \A j \in 0 .. k : TimeOf(g, t, j) <= TimeOf(g, t, k)
  BY <1>1, TimesRise
<1>4. Micro \in Nat
  BY SourceAssumption
<1>5. n - 1 \in 0 .. N /\ m - 1 \in 0 .. n - 1 /\ m - 1 \in 0 .. N
  BY <1>1
<1>6. PICK x \in Nat : x = TimeOf(g, t, m - 1) + d
  BY <1>3, <1>5
<1>7. PICK y \in Nat : y = TimeOf(g, t, n - 1) + d
  BY <1>3, <1>5
<1>8. x <= y
  <2>1. TimeOf(g, t, m - 1) <= TimeOf(g, t, n - 1)
    BY <1>3, <1>5
  <2>2. TimeOf(g, t, m - 1) \in Nat /\ TimeOf(g, t, n - 1) \in Nat
    BY <1>3, <1>5
  <2> QED
    BY <1>6, <1>7, <2>1, <2>2
<1>9. x * s <= y * s
  BY <1>8, TimesMore
<1>10. ConvertClock(x, s, Micro) <= ConvertClock(y, s, Micro)
  BY <1>4, <1>9, RoundsInOrder
<1>11. ConvertClock(y, s, Micro) \in Nat
  BY <1>4, Rounds
<1> QED
  BY <1>2, <1>6, <1>7, <1>10, <1>11

LEMMA MediaRises ==
  ASSUME SourceShape, NEW t \in T
  PROVE  /\ MediaAt(t, nr[t]) = Media(t)
         /\ \A n \in 1 .. Total(t) : MediaAt(t, n) \in Nat
         /\ \A n \in 1 .. Total(t) : \A m \in 1 .. n : MediaAt(t, m) <= MediaAt(t, n)
<1>1. PICK g \in BOOLEAN : g = conf.grid
  BY ConfIs
<1>2. PICK N \in Nat \ {0} : N = Total(t)
  BY ConfIs
<1>3. PICK d \in Nat : d = loopDur[t]
  BY DEF SourceShape
<1>4. PICK s \in Nat \ {0} : s = Tracks[t].scale
  BY TracksAre
<1>5. \A n : MediaAt(t, n) = ConvertClock(TimeOf(g, t, n - 1) + d, s, Micro)
  BY <1>1, <1>3, <1>4 DEF MediaAt, DecodeTime
<1>6. ASSUME NEW n \in 1 .. N, NEW m \in 1 .. n
      PROVE  MediaAt(t, n) \in Nat /\ MediaAt(t, m) <= MediaAt(t, n)
  BY <1>2, <1>4, <1>5, StampsRise
<1>7. MediaAt(t, nr[t]) = Media(t)
  BY DEF MediaAt, Media
<1>8. \A n \in 1 .. N : n \in 1 .. n
  OBVIOUS
<1> QED
  BY <1>2, <1>6, <1>7, <1>8

\* A track that may send has a sample left.
LEMMA SendingIs ==
  ASSUME SourceShape, NEW t \in Sending
  PROVE  t \in T /\ nr[t] \in 1 .. Total(t) /\ Media(t) \in Nat
<1>1. t \in T /\ nr[t] <= Total(t)
  BY DEF Sending, Left
<1>2. nr[t] \in 1 .. Total(t)
  BY <1>1, ConfIs DEF SourceShape
<1> QED
  BY <1>1, <1>2, MediaRises

LEMMA EarliestIs ==
  ASSUME SourceShape, Sending # {}
  PROVE  Earliest(Sending) \in Sending /\ \A t \in Sending : Media(Earliest(Sending)) <= Media(t)
<1>1. PICK S : S = Sending
  OBVIOUS
<1>2. PICK L : L = [t \in S |-> Media(t)]
  OBVIOUS
<1>3. S \in SUBSET Nat /\ S # {} /\ L \in [S -> Nat]
  BY <1>1, <1>2, SendingIs, TracksAre
<1>4. PICK t \in S : \A u \in S : L[t] < L[u] \/ (L[t] = L[u] /\ t <= u)
  BY <1>3, FirstLeast
<1>5. \E x \in S : \A u \in S : Media(x) < Media(u) \/ (Media(x) = Media(u) /\ x <= u)
  BY <1>2, <1>4
<1>6. PICK e : e = Earliest(S)
  OBVIOUS
<1>7. e \in S /\ \A u \in S : Media(e) < Media(u) \/ (Media(e) = Media(u) /\ e <= u)
  BY <1>5, <1>6 DEF Earliest
<1>8. \A u \in S : Media(u) \in Nat
  BY <1>1, SendingIs
<1>9. \A u \in S : Media(e) <= Media(u)
  BY <1>7, <1>8
<1> QED
  BY <1>1, <1>6, <1>7, <1>9

(* The round that begins lies after everything of the one that ends.          *)
LEMMA RoundBegins ==
  ASSUME FineScales, conf.repeat, SourceShape, Aligned, AlignLoopDuration, NEW t \in T, NEW u \in T
  PROVE  /\ loopDur'[t] \in Nat
         /\ loopDur'[t] * Scale(Base) <= loopDur'[Base] * Scale(t)
         /\ MediaAt(u, Total(u)) <= ConvertClock(loopDur'[t], Scale(t), Micro)
<1>1. PICK b \in T : b = Base
  BY ConfIs
<1>2. PICK sb \in Nat \ {0} : sb = Scale(b)
  BY ConfIs
<1>3. PICK st \in Nat \ {0} : st = Scale(t)
  BY ConfIs
<1>4. PICK su \in Nat \ {0} : su = Scale(u)
  BY ConfIs
<1>5. PICK l \in Nat : l = loopDur[b]
  BY DEF SourceShape
<1>6. PICK d \in Nat : d = loopDur[u]
  BY DEF SourceShape
<1>7. PICK g \in BOOLEAN : g = conf.grid
  BY ConfIs
<1>8. PICK e \in Nat : e = TotalDuration(b) /\ e = RoundEnd(g)
  <2>1. Total(b) \in 0 .. Total(b)
    BY ConfIs
  <2>2. TimeOf(g, b, Total(b)) \in Nat
    BY <2>1, TimesRise
  <2> QED
    BY <1>1, <1>7, <2>2, ConfIs DEF TotalDuration, RoundEnd
<1>9. PICK last \in Nat : last = LastStart(g, u) /\ (u = b => last <= e)
  <2>1. Total(u) - 1 \in 0 .. Total(u) /\ Total(u) \in 0 .. Total(u)
    BY ConfIs
  <2>2. TimeOf(g, u, Total(u) - 1) \in Nat /\ TimeOf(g, u, Total(u) - 1) <= TimeOf(g, u, Total(u))
    BY <2>1, TimesRise
  <2> QED
    BY <1>1, <1>7, <1>8, <2>2 DEF LastStart, TotalDuration
<1>10. /\ loopDur'[b] = l + e
       /\ t # b => loopDur'[t] = ConvertClock(l + e, sb, st)
  BY <1>1, <1>2, <1>3, <1>5, <1>8 DEF AlignLoopDuration, Scale
<1>11. PICK n \in Nat : /\ n = loopDur'[t] /\ n * sb <= (l + e) * st
                        /\ (l + e) * st < n * sb + sb /\ (t = b => n = l + e /\ st = sb)
  <2>1. CASE t = b
    <3>1. st = sb /\ (l + e) * st < (l + e) * sb + sb
      BY <1>2, <1>3, <2>1
    <3> QED
      BY <1>10, <2>1, <3>1
  <2>2. CASE t # b
    <3>1. l + e \in Nat
      OBVIOUS
    <3>2. /\ ConvertClock(l + e, sb, st) \in Nat
          /\ ConvertClock(l + e, sb, st) * sb <= (l + e) * st
          /\ (l + e) * st < ConvertClock(l + e, sb, st) * sb + sb
      BY <3>1, Rounds
    <3> QED
      BY <1>10, <2>2, <3>2
  <2> QED
    BY <2>1, <2>2
<1>12. d * sb <= l * su
  BY <1>1, <1>2, <1>4, <1>5, <1>6 DEF Aligned
<1>13. MediaAt(u, Total(u)) = ConvertClock(last + d, su, Micro)
  BY <1>4, <1>6, <1>7, <1>9 DEF MediaAt, DecodeTime, LastStart, Scale
<1>14. \A v \in T : u # v => (last * Scale(v) + su) * sb <= e * su * Scale(v)
  BY <1>1, <1>2, <1>4, <1>7, <1>8, <1>9, ConfIs DEF FineScales, SourceShape, Scale
<1>15. last * sb <= e * su
  <2>1. CASE u = b
    <3>1. su = sb
      BY <1>2, <1>4, <2>1
    <3> QED
      BY <1>9, <2>1, <3>1, TimesMore
  <2>2. CASE u # b
    <3>1. (last * sb + su) * sb <= (e * su) * sb
      BY <1>2, <1>14, <2>2
    <3>2. last * sb + su \in Nat /\ e * su \in Nat
      OBVIOUS
    <3>3. last * sb + su <= e * su
      BY <3>1, <3>2, Cancel
    <3>4. last * sb \in Nat
      OBVIOUS
    <3> QED
      BY <3>2, <3>3, <3>4
  <2> QED
    BY <2>1, <2>2
<1>16. (last + d) * st <= n * su
  <2>1. CASE t = b
    BY <1>11, <1>12, <1>15, <2>1, OwnRoundIsLater
  <2>2. CASE t # b /\ t = u
    <3>1. st = su
      BY <1>3, <1>4, <2>2
    <3>2. last + d <= n
      BY <1>11, <1>12, <1>15, <3>1, OwnRoundIsLater
    <3>3. last + d \in Nat
      OBVIOUS
    <3> QED
      BY <3>1, <3>2, <3>3, TimesMore
  <2>3. CASE t # b /\ t # u
    <3>1. (last * st + su) * sb <= e * su * st
      BY <1>3, <1>14, <2>3
    <3> QED
      BY <1>11, <1>12, <3>1, NextRoundIsLater
  <2> QED
    BY <2>1, <2>2, <2>3
<1>17. ConvertClock(last + d, su, Micro) <= ConvertClock(n, st, Micro)
  <2>1. last + d \in Nat /\ Micro \in Nat
    BY ConfIs
  <2> QED
    BY <1>16, <2>1, RoundsInOrder
<1> QED
  BY <1>1, <1>2, <1>3, <1>10, <1>11, <1>13, <1>17

(* Where a seek lands, and a round begins.                                    *)
(* The sync sample a seek goes back to is one of the track's.                 *)
LEMMA SyncIs ==
  ASSUME NEW t, NEW n \in Nat \ {0}
  PROVE  SyncBefore(t, n) \in 1 .. n
<1>1. PICK sync \in SUBSET (1 .. n) : sync = {k \in 1 .. n : k \in Tracks[t].sync}
  OBVIOUS
<1>2. ASSUME sync # {} PROVE (CHOOSE k \in sync : \A j \in sync : j <= k) \in 1 .. n
  <2>1. PICK least \in {n - k : k \in sync} : \A m \in {n - k : k \in sync} : least <= m
    <3>1. \A k \in 1 .. n : n - k \in Nat
      OBVIOUS
    <3>2. \A k \in sync : n - k \in Nat
      BY <3>1
    <3>3. {n - k : k \in sync} \in SUBSET Nat /\ {n - k : k \in sync} # {}
      BY <1>2, <3>2
    <3> QED
      BY <3>3, Least
  <2>2. PICK k \in sync : least = n - k
    OBVIOUS
  <2>3. ASSUME NEW j \in sync PROVE j <= k
    <3>1. n - k <= n - j
      BY <2>1, <2>2
    <3>2. j \in 1 .. n /\ k \in 1 .. n
      OBVIOUS
    <3> QED
      BY <3>1, <3>2
  <2>4. \E x \in sync : \A j \in sync : j <= x
    BY <2>3
  <2>5. (CHOOSE x \in sync : \A j \in sync : j <= x) \in sync
    BY <2>4
  <2> QED
    BY <2>5
<1>3. SyncBefore(t, n) = IF Tracks[t].video /\ sync # {}
                         THEN CHOOSE k \in sync : \A j \in sync : j <= k ELSE n
  BY <1>1 DEF SyncBefore
<1>4. CASE Tracks[t].video /\ sync # {}
  <2>1. PICK x \in 1 .. n : x = (CHOOSE k \in sync : \A j \in sync : j <= k)
    BY <1>2, <1>4
  <2>2. SyncBefore(t, n) = x
    BY <1>3, <1>4, <2>1
  <2> QED
    BY <2>2
<1>5. CASE ~(Tracks[t].video /\ sync # {})
  BY <1>3, <1>5
<1> QED
  BY <1>4, <1>5

LEMMA SoughtIs ==
  ASSUME NEW t \in T, NEW pts \in Points, Seek(t, pts), nr \in [T -> Nat \ {0}]
  PROVE  \E n \in 1 .. Total(t) : nr' = [nr EXCEPT ![t] = n]
<1> DEFINE n == IF Found(t, pts) = {} THEN 1
                ELSE SyncBefore(t, CHOOSE x \in Found(t, pts) : TRUE)
<1>1. nr' = [nr EXCEPT ![t] = n]
  BY DEF Seek
<1>2. CASE Found(t, pts) = {}
  <2>1. Total(t) \in Nat \ {0}
    BY TracksAre
  <2>2. n = 1 /\ 1 \in 1 .. Total(t)
    BY <1>2, <2>1
  <2> QED
    BY <1>1, <2>2
<1>3. CASE Found(t, pts) # {}
  <2>1. PICK x : x = (CHOOSE y \in Found(t, pts) : TRUE)
    OBVIOUS
  <2>2. x \in Found(t, pts)
    BY <1>3, <2>1
  <2>3. x \in 1 .. Total(t) /\ Total(t) \in Nat \ {0}
    BY <2>2, TracksAre DEF Found
  <2>4. SyncBefore(t, x) \in 1 .. x
    BY <2>3, SyncIs
  <2>5. n = SyncBefore(t, x)
    BY <1>3, <2>1
  <2>6. n \in 1 .. Total(t)
    BY <2>3, <2>4, <2>5
  <2> QED
    BY <1>1, <2>6
<1> QED
  BY <1>2, <1>3

LEMMA RoundTyped ==
  ASSUME SourceShape, AlignLoopDuration
  PROVE  /\ nr' = [t \in T |-> 1] /\ loopDur' \in [T -> Nat]
         /\ loopDur'[Base] = loopDur[Base] + TotalDuration(Base) /\ TotalDuration(Base) \in Nat
<1>1. PICK b \in T : b = Base
  BY ConfIs
<1>2. PICK l \in Nat : l = loopDur[b]
  BY DEF SourceShape
<1>3. PICK e \in Nat : e = TotalDuration(b)
  <2>1. Total(b) \in 0 .. Total(b) /\ conf.grid \in BOOLEAN
    BY ConfIs
  <2>2. TimeOf(conf.grid, b, Total(b)) \in Nat
    BY <2>1, TimesRise
  <2> QED
    BY <2>2 DEF TotalDuration
<1>4. loopDur' = [t \in T |-> IF t = b THEN l + e
                             ELSE ConvertClock(l + e, Tracks[b].scale, Tracks[t].scale)]
  BY <1>1, <1>2, <1>3 DEF AlignLoopDuration
<1>5. l + e \in Nat
  OBVIOUS
<1>6. \A t \in T : ConvertClock(l + e, Tracks[b].scale, Tracks[t].scale) \in Nat
  BY <1>5, Rounds, TracksAre
<1> QED
  BY <1>1, <1>2, <1>3, <1>4, <1>5, <1>6 DEF AlignLoopDuration

(* Steps that leave the tracks where they are.                                *)
LEMMA Untouched ==
  ASSUME SourceShape, \/ StartFails \/ StopCalled \/ StopReturns \/ FileEnds \/ Idle \/ Exits
                      \/ WakesUp \/ Tick \/ Pause \/ UNCHANGED vars
  PROVE  /\ UNCHANGED <<conf, nr, loopDur, tr, epoch, picked, sent>>
         /\ UNCHANGED <<loop, header>> \/ loop' \in {"none", "pick", "paced", "idle"}
         /\ play' \in [T -> BOOLEAN] /\ \A t \in T : play'[t] => play[t]
<1>1. /\ UNCHANGED <<conf, nr, loopDur, tr, epoch, picked, sent>>
      /\ UNCHANGED <<loop, header>> \/ loop' \in {"none", "pick", "paced", "idle"}
      /\ play' = play \/ play' = [t \in T |-> FALSE]
  BY DEF StartFails, StopCalled, StopReturns, FileEnds, Idle, Exits, WakesUp, Tick, Pause,
         vars, tracks, history
<1>2. play' \in [T -> BOOLEAN] /\ \A t \in T : play'[t] => play[t]
  BY <1>1 DEF SourceShape
<1> QED
  BY <1>1, <1>2

LEMMA ShapeStep == ASSUME SourceShape, [Next]_vars PROVE SourceShape'
<1>1. /\ nr \in [T -> Nat \ {0}] /\ loopDur \in [T -> Nat] /\ play \in [T -> BOOLEAN]
      /\ epoch \in Nat /\ picked \in Nat /\ picked <= epoch /\ epoch + 1 \in Nat
      /\ sent = [track |-> sent.track, media |-> sent.media, header |-> sent.header,
                 payload |-> sent.payload]
  BY DEF SourceShape
<1>2. ASSUME NEW media, Jump(media), UNCHANGED <<conf, tr>>,
             loop' \in {"none", "pick", "next", "count", "read", "paced", "idle"},
             nr' \in [T -> Nat \ {0}], loopDur' \in [T -> Nat], play' \in [T -> BOOLEAN]
      PROVE  SourceShape'
  <2>1. epoch' = epoch + 1 /\ sent' = [sent EXCEPT !.track = 0] /\ picked' = picked
    BY <1>2 DEF Jump
  <2>2. sent' = [track |-> 0, media |-> sent.media, header |-> sent.header,
                 payload |-> sent.payload]
    BY <1>1, <2>1
  <2>3. sent' = [track |-> sent'.track, media |-> sent'.media, header |-> sent'.header,
                 payload |-> sent'.payload]
    BY <2>2
  <2>4. epoch' \in Nat /\ picked' \in Nat /\ picked' <= epoch'
    BY <1>1, <2>1
  <2> QED
    BY <1>2, <2>3, <2>4 DEF SourceShape
<1>3. CASE Start
  <2>1. /\ nr' = [t \in T |-> 1] /\ loopDur' = [t \in T |-> 0] /\ play' = [t \in T |-> TRUE]
        /\ Jump(0) /\ loop' = "pick" /\ UNCHANGED <<conf, tr>>
    BY <1>3 DEF Start
  <2>2. nr' \in [T -> Nat \ {0}] /\ loopDur' \in [T -> Nat] /\ play' \in [T -> BOOLEAN]
    BY <2>1
  <2> QED
    BY <1>2, <2>1, <2>2
<1>4. CASE \/ StartFails \/ StopCalled \/ StopReturns \/ FileEnds \/ Idle \/ Exits
           \/ WakesUp \/ Tick \/ Pause \/ UNCHANGED vars
  <2>1. /\ UNCHANGED <<conf, nr, loopDur, tr, epoch, picked, sent>>
        /\ loop' = loop \/ loop' \in {"none", "pick", "paced", "idle"}
        /\ play' \in [T -> BOOLEAN]
    BY <1>4, Untouched
  <2> QED
    BY <2>1 DEF SourceShape
<1>5. CASE Pick
  <2>1. /\ Sending # {} /\ tr' = Earliest(Sending) /\ loop' = "next" /\ picked' = epoch
        /\ UNCHANGED <<conf, nr, loopDur, play, epoch, sent>>
    BY <1>5 DEF Pick, tracks
  <2>2. tr' \in T
    BY <2>1, EarliestIs, SendingIs
  <2>3. picked' <= epoch'
    BY <1>1, <2>1
  <2> QED
    BY <2>1, <2>2, <2>3 DEF SourceShape
<1>6. CASE Wrap
  <2>1. /\ AlignLoopDuration /\ loop' = "idle"
        /\ UNCHANGED <<conf, play, tr, epoch, picked, sent>>
    BY <1>6 DEF Wrap, history
  <2>2. nr' \in [T -> Nat \ {0}] /\ loopDur' \in [T -> Nat]
    BY <2>1, RoundTyped
  <2> QED
    BY <2>1, <2>2 DEF SourceShape
<1>7. CASE ReadsHeader
  BY <1>7 DEF ReadsHeader, SourceShape, tracks, history
<1>8. CASE Counts
  <2>1. /\ loop' = "read" /\ nr' = [nr EXCEPT ![tr] = @ + 1]
        /\ UNCHANGED <<conf, loopDur, play, tr, epoch, picked, sent>>
    BY <1>8 DEF Counts, history
  <2>2. nr[tr] + 1 \in Nat \ {0}
    BY <1>1 DEF SourceShape
  <2>3. nr' \in [T -> Nat \ {0}]
    BY <1>1, <2>1, <2>2
  <2> QED
    BY <2>1, <2>3 DEF SourceShape
<1>9. CASE Emit
  <2>1. /\ loop' = "paced"
        /\ \E m, k : sent' = [track |-> IF picked = epoch THEN tr ELSE 0, header |-> header,
                              payload |-> m, media |-> k]
        /\ UNCHANGED <<conf, nr, loopDur, play, tr, epoch, picked>>
    BY <1>9 DEF Emit, tracks
  <2>2. sent' = [track |-> sent'.track, media |-> sent'.media, header |-> sent'.header,
                 payload |-> sent'.payload]
    BY <2>1
  <2> QED
    BY <2>1, <2>2 DEF SourceShape
<1>10. CASE Resume
  <2>1. /\ play' = [t \in T |-> TRUE] /\ Jump(Position(nr[Base]))
        /\ UNCHANGED <<conf, loop, nr, loopDur, tr>>
    BY <1>10 DEF Resume
  <2>2. /\ nr' \in [T -> Nat \ {0}] /\ loopDur' \in [T -> Nat] /\ play' \in [T -> BOOLEAN]
        /\ loop' \in {"none", "pick", "next", "count", "read", "paced", "idle"}
    BY <2>1 DEF SourceShape
  <2> QED
    BY <1>2, <2>1, <2>2
<1>11. ASSUME NEW t \in T, NEW pts \in Points, Seek(t, pts) PROVE SourceShape'
  <2>1. /\ Jump(Position(nr'[Base])) /\ UNCHANGED <<conf, loop, loopDur, tr>>
        /\ play' = [play EXCEPT ![t] = @ \/ Found(t, pts) # {}]
    BY <1>11 DEF Seek
  <2>2. PICK n \in 1 .. Total(t) : nr' = [nr EXCEPT ![t] = n]
    BY <1>1, <1>11, SoughtIs
  <2>3. n \in Nat \ {0}
    BY TracksAre
  <2>4. nr' \in [T -> Nat \ {0}]
    BY <1>1, <2>2, <2>3
  <2>5. play' \in [T -> BOOLEAN]
    <3>1. (play[t] \/ Found(t, pts) # {}) \in BOOLEAN
      BY <1>1
    <3> QED
      BY <1>1, <2>1, <3>1
  <2>6. loopDur' \in [T -> Nat]
        /\ loop' \in {"none", "pick", "next", "count", "read", "paced", "idle"}
    BY <2>1 DEF SourceShape
  <2> QED
    BY <1>2, <2>1, <2>4, <2>5, <2>6
<1> QED
  BY <1>3, <1>4, <1>5, <1>6, <1>7, <1>8, <1>9, <1>10, <1>11 DEF Next

-----------------------------------------------------------------------------
LEMMA InitSource == Init => SourceInv
<1> SUFFICES ASSUME Init PROVE SourceInv
  OBVIOUS
<1>1. conf \in Configs /\ loop = "none" /\ tr = 1 /\ epoch = 0 /\ picked = 0
  BY DEF Init
<1>2. nr = [t \in T |-> 1] /\ loopDur = [t \in T |-> 0] /\ play = [t \in T |-> TRUE]
  BY DEF Init
<1>3. sent = [track |-> 0, media |-> 0, header |-> 0, payload |-> 0]
  BY DEF Init
<1>4. SourceShape
  <2>1. nr \in [T -> Nat \ {0}] /\ loopDur \in [T -> Nat] /\ play \in [T -> BOOLEAN]
    BY <1>2
  <2>2. tr \in T
    BY <1>1, TracksAre
  <2> QED
    BY <1>1, <1>3, <2>1, <2>2 DEF SourceShape
<1>5. Aligned
  <2>1. \A t \in T : loopDur[t] = 0
    BY <1>2
  <2> QED
    BY <1>4, <2>1, ConfIs DEF Aligned
<1>6. SentBefore
  BY <1>3 DEF SentBefore, HasSent
<1>7. ChosenNext
  BY <1>1 DEF ChosenNext
<1> QED
  BY <1>4, <1>5, <1>6, <1>7 DEF SourceInv

(* The media time jumps: nothing is held against it any more.                 *)
LEMMA JumpStep ==
  ASSUME SourceInv, SourceShape', NEW media, Jump(media), Aligned'
  PROVE  SourceInv' /\ ~HasSent'
<1>1. epoch' = epoch + 1 /\ sent' = [sent EXCEPT !.track = 0] /\ picked' = picked
  BY DEF Jump
<1>2. picked' # epoch'
  BY <1>1 DEF SourceInv, SourceShape
<1>3. sent'.track = 0
  <2>1. sent = [track |-> sent.track, media |-> sent.media, header |-> sent.header,
                payload |-> sent.payload]
    BY DEF SourceInv, SourceShape
  <2> QED
    BY <1>1, <2>1
<1>4. SentBefore'
  BY <1>3 DEF SentBefore, HasSent
<1>5. ChosenNext'
  BY <1>2 DEF ChosenNext
<1> QED
  BY <1>3, <1>4, <1>5 DEF SourceInv, HasSent

(* A step that leaves the tracks where they are, or stops some.               *)
LEMMA QuietStep ==
  ASSUME SourceInv, SourceShape', UNCHANGED <<conf, nr, loopDur, tr, epoch, picked, sent>>,
         \A t \in T : play'[t] => play[t],
         UNCHANGED <<loop, header>> \/ loop' \in {"none", "pick", "paced", "idle"}
  PROVE  SourceInv'
<1>1. Base' = Base
  BY DEF Base
<1>2. Aligned'
  BY <1>1 DEF SourceInv, Aligned
<1>3. \A t : \A n : MediaAt(t, n)' = MediaAt(t, n)
  BY DEF MediaAt, DecodeTime
<1>4. \A t \in Sending' : t \in Sending /\ Media(t)' = Media(t)
  BY DEF Sending, Left, Media, DecodeTime
<1>5. \A m : BeforeAll(m) => BeforeAll(m)'
  BY <1>4 DEF BeforeAll
<1>6. SentBefore'
  BY <1>3, <1>5 DEF SourceInv, SentBefore, HasSent
<1>7. ChosenNext'
  <2>1. CASE loop' \in {"none", "pick", "paced", "idle"}
    BY <2>1 DEF ChosenNext
  <2>2. CASE UNCHANGED <<loop, header>>
    <3>1. InHand' = InHand
      BY <2>2 DEF InHand
    <3>2. BeforeAll(MediaAt(tr, InHand)) => BeforeAll(MediaAt(tr, InHand))'
      <4>1. MediaAt(tr, InHand)' = MediaAt(tr, InHand)
        BY <1>3, <3>1 DEF MediaAt, DecodeTime
      <4> QED
        BY <1>4, <4>1 DEF BeforeAll
    <3>3. MediaAt(tr, InHand)' = MediaAt(tr, InHand)
      BY <1>3, <3>1 DEF MediaAt, DecodeTime
    <3> QED
      BY <2>2, <3>1, <3>2, <3>3 DEF SourceInv, ChosenNext, HasSent
  <2> QED
    BY <2>1, <2>2
<1> QED
  BY <1>2, <1>6, <1>7 DEF SourceInv

LEMMA PickStep == ASSUME SourceInv, SourceShape', Pick PROVE SourceInv'
<1>1. /\ Sending # {} /\ tr' = Earliest(Sending) /\ loop' = "next" /\ picked' = epoch
      /\ UNCHANGED <<conf, nr, loopDur, play, epoch, sent>>
  BY DEF Pick, tracks
<1>2. SourceShape
  BY DEF SourceInv
<1>3. tr' \in Sending /\ \A t \in Sending : Media(tr') <= Media(t)
  BY <1>1, <1>2, EarliestIs
<1>4. tr' \in T /\ nr[tr'] \in 1 .. Total(tr') /\ MediaAt(tr', nr[tr']) = Media(tr')
  BY <1>2, <1>3, SendingIs, MediaRises
<1>5. Aligned'
  <2>1. Base' = Base
    BY <1>1 DEF Base
  <2> QED
    BY <1>1, <2>1 DEF SourceInv, Aligned
<1>6. \A t : Media(t)' = Media(t)
  BY <1>1 DEF Media, DecodeTime
<1>7. Sending' = Sending
  BY <1>1 DEF Sending, Left
<1>8. \A m : BeforeAll(m) => BeforeAll(m)'
  BY <1>6, <1>7 DEF BeforeAll
<1>9. SentBefore'
  <2>1. \A t : \A n : MediaAt(t, n)' = MediaAt(t, n)
    BY <1>1 DEF MediaAt, DecodeTime
  <2> QED
    BY <1>1, <1>8, <2>1 DEF SourceInv, SentBefore, HasSent
<1>10. ChosenNext'
  <2>1. InHand' = nr[tr']
    BY <1>1 DEF InHand
  <2>2. MediaAt(tr, InHand)' = Media(tr')
    BY <1>1, <1>4, <2>1 DEF MediaAt, DecodeTime
  <2>3. BeforeAll(Media(tr'))
    BY <1>3 DEF BeforeAll
  <2>4. BeforeAll(MediaAt(tr, InHand))'
    BY <1>6, <1>7, <2>2, <2>3 DEF BeforeAll
  <2>5. HasSent => sent.media <= Media(tr')
    BY <1>3 DEF SourceInv, SentBefore, BeforeAll
  <2>6. HasSent' <=> HasSent
    BY <1>1 DEF HasSent
  <2>7. sent'.media = sent.media /\ loop' = "next"
    BY <1>1
  <2>8. InHand' \in 1 .. Total(tr')
    BY <1>4, <2>1
  <2>9. HasSent' => sent'.media <= MediaAt(tr, InHand)'
    BY <2>2, <2>5, <2>6, <2>7
  <2> QED
    BY <2>4, <2>7, <2>8, <2>9 DEF ChosenNext
<1> QED
  BY <1>5, <1>9, <1>10 DEF SourceInv

LEMMA HeaderStep == ASSUME SourceInv, SourceShape', ReadsHeader PROVE SourceInv'
<1>1. /\ loop = "next" /\ loop' = "count" /\ header' = nr[tr]
      /\ UNCHANGED <<conf, nr, loopDur, play, tr, epoch, picked, sent>>
  BY DEF ReadsHeader, tracks, history
<1>2. Aligned'
  <2>1. Base' = Base
    BY <1>1 DEF Base
  <2> QED
    BY <1>1, <2>1 DEF SourceInv, Aligned
<1>3. \A t : \A n : MediaAt(t, n)' = MediaAt(t, n)
  BY <1>1 DEF MediaAt, DecodeTime
<1>4. \A t : Media(t)' = Media(t)
  BY <1>1 DEF Media, DecodeTime
<1>5. Sending' = Sending
  BY <1>1 DEF Sending, Left
<1>6. SentBefore'
  <2>1. \A m : BeforeAll(m) => BeforeAll(m)'
    BY <1>4, <1>5 DEF BeforeAll
  <2> QED
    BY <1>1, <1>3, <2>1 DEF SourceInv, SentBefore, HasSent
<1>7. ChosenNext'
  <2>1. InHand' = InHand /\ InHand = nr[tr]
    BY <1>1 DEF InHand
  <2>2. MediaAt(tr, InHand)' = MediaAt(tr, InHand)
    BY <1>1, <2>1 DEF MediaAt, DecodeTime
  <2>3. BeforeAll(MediaAt(tr, InHand)) => BeforeAll(MediaAt(tr, InHand))'
    BY <1>4, <1>5, <2>2 DEF BeforeAll
  <2> QED
    BY <1>1, <2>1, <2>2, <2>3 DEF SourceInv, ChosenNext, HasSent
<1> QED
  BY <1>2, <1>6, <1>7 DEF SourceInv

LEMMA CountStep == ASSUME SourceInv, SourceShape', Counts PROVE SourceInv'
<1>1. /\ loop = "count" /\ loop' = "read" /\ nr' = [nr EXCEPT ![tr] = @ + 1]
      /\ UNCHANGED <<conf, loopDur, play, tr, header, epoch, picked, sent>>
  BY DEF Counts, history
<1>2. SourceShape
  BY DEF SourceInv
<1>3. /\ nr \in [T -> Nat \ {0}] /\ tr \in T
  BY <1>2 DEF SourceShape
<1>4. nr' \in [T -> Nat \ {0}] /\ nr'[tr] = nr[tr] + 1 /\ \A t \in T : t # tr => nr'[t] = nr[t]
  BY <1>1, <1>3
<1>5. Aligned'
  <2>1. Base' = Base
    BY <1>1 DEF Base
  <2> QED
    BY <1>1, <2>1 DEF SourceInv, Aligned
<1>6. \A t : \A n : MediaAt(t, n)' = MediaAt(t, n)
  BY <1>1 DEF MediaAt, DecodeTime
<1>7. \A t \in Sending' : t \in T /\ nr'[t] \in 1 .. Total(t) /\ play[t]
  <2>1. \A t \in Sending' : t \in T /\ nr'[t] <= Total(t) /\ play[t]
    BY <1>1 DEF Sending, Left
  <2> QED
    BY <1>2, <1>4, <2>1, ConfIs
<1>8. \A t \in T : Media(t)' = MediaAt(t, nr'[t])
  BY <1>1 DEF Media, MediaAt, DecodeTime
<1>9. ASSUME NEW t \in Sending'
       PROVE  t \in Sending /\ Media(t) \in Nat /\ Media(t)' \in Nat /\ Media(t) <= Media(t)'
  <2>1. t \in T /\ nr'[t] \in 1 .. Total(t) /\ play[t]
    BY <1>7, <1>9
  <2>2. nr[t] \in 1 .. nr'[t] /\ nr[t] <= Total(t)
    BY <1>2, <1>3, <1>4, <2>1, ConfIs
  <2>3. t \in Sending
    BY <2>1, <2>2 DEF Sending, Left
  <2>4. MediaAt(t, nr[t]) <= MediaAt(t, nr'[t]) /\ MediaAt(t, nr'[t]) \in Nat
    BY <1>2, <2>1, <2>2, MediaRises
  <2> QED
    BY <1>2, <1>8, <2>1, <2>3, <2>4, SendingIs, MediaRises
<1>10. ASSUME NEW m \in Nat, BeforeAll(m) PROVE BeforeAll(m)'
  BY <1>9, <1>10 DEF BeforeAll
<1>11. SentBefore'
  BY <1>1, <1>6, <1>10 DEF SourceInv, SentBefore, HasSent
<1>12. ASSUME picked = epoch PROVE ChosenNext'
  <2>1. /\ header \in 1 .. Total(tr) /\ InHand = header /\ nr[tr] = header
        /\ HasSent => sent.media <= MediaAt(tr, header)
        /\ BeforeAll(MediaAt(tr, header))
    BY <1>1, <1>12 DEF SourceInv, ChosenNext, InHand
  <2>2. InHand' = header /\ header' = header /\ tr' = tr
    BY <1>1 DEF InHand
  <2>3. MediaAt(tr, InHand)' = MediaAt(tr, header)
    BY <1>1, <2>2 DEF MediaAt, DecodeTime
  <2>4. MediaAt(tr, header) \in Nat
    BY <1>2, <1>3, <2>1, MediaRises
  <2>5. BeforeAll(MediaAt(tr, InHand))'
    <3>1. BeforeAll(MediaAt(tr, header))
      BY <2>1
    <3> QED
      BY <1>9, <2>3, <2>4, <3>1 DEF BeforeAll
  <2>6. HasSent' => sent'.media <= MediaAt(tr, InHand)'
    BY <1>1, <2>1, <2>3 DEF HasSent
  <2>7. loop' = "read" /\ nr'[tr'] = header' + 1 /\ InHand' \in 1 .. Total(tr')
    BY <1>1, <1>4, <2>1, <2>2
  <2> QED
    BY <2>5, <2>6, <2>7 DEF ChosenNext
<1>13. ASSUME picked # epoch PROVE ChosenNext'
  BY <1>1, <1>13 DEF ChosenNext
<1> QED
  BY <1>5, <1>11, <1>12, <1>13 DEF SourceInv

(* What is sent is what was chosen: no earlier than what was sent before.     *)
LEMMA EmitStep ==
  ASSUME SourceInv, SourceShape', Emit
  PROVE  SourceInv' /\ (HasSent /\ HasSent' => sent'.media >= sent.media)
<1>1. /\ loop = "read" /\ loop' = "paced"
      /\ sent' = [track |-> IF picked = epoch THEN tr ELSE 0, header |-> header, payload |-> Payload,
                  media |-> MediaAt(tr, header)]
      /\ UNCHANGED <<conf, nr, loopDur, play, tr, header, epoch, picked>>
  BY DEF Emit, tracks, MediaAt
<1>2. SourceShape
  BY DEF SourceInv
<1>3. tr \in T
  BY <1>2 DEF SourceShape
<1>4. sent'.track = (IF picked = epoch THEN tr ELSE 0) /\ sent'.media = MediaAt(tr, header)
  BY <1>1
<1>5. sent' = [track |-> sent'.track, media |-> sent'.media, header |-> sent'.header,
               payload |-> sent'.payload]
  BY <1>1
<1>6. Aligned'
  <2>1. Base' = Base
    BY <1>1 DEF Base
  <2> QED
    BY <1>1, <2>1 DEF SourceInv, Aligned
<1>7. ChosenNext'
  BY <1>1 DEF ChosenNext
<1>8. ASSUME HasSent'
      PROVE  /\ header \in 1 .. Total(tr) /\ BeforeAll(MediaAt(tr, header))
             /\ HasSent => sent.media <= MediaAt(tr, header)
  <2>1. picked = epoch
    BY <1>4, <1>8 DEF HasSent
  <2> QED
    BY <1>1, <2>1 DEF SourceInv, ChosenNext, InHand
<1>9. ASSUME HasSent'
       PROVE  /\ sent'.media \in Nat /\ BeforeAll(sent.media)'
              /\ \E t \in T : sent'.media <= MediaAt(t, Total(t))'
  <2>1. header \in 1 .. Total(tr) /\ BeforeAll(MediaAt(tr, header))
    BY <1>8, <1>9
  <2>2. Total(tr) \in 1 .. Total(tr) /\ header \in 1 .. Total(tr)
    BY <1>2, <1>3, <2>1, ConfIs
  <2>3. MediaAt(tr, header) \in Nat /\ MediaAt(tr, header) <= MediaAt(tr, Total(tr))
    BY <1>2, <1>3, <2>2, MediaRises
  <2>4. \A t : \A n : MediaAt(t, n)' = MediaAt(t, n)
    BY <1>1 DEF MediaAt, DecodeTime
  <2>5. BeforeAll(sent.media)'
    <3>1. \A t : Media(t)' = Media(t)
      BY <1>1 DEF Media, DecodeTime
    <3>2. Sending' = Sending
      BY <1>1 DEF Sending, Left
    <3> QED
      BY <1>4, <2>1, <3>1, <3>2 DEF BeforeAll
  <2> QED
    BY <1>3, <1>4, <2>3, <2>4, <2>5
<1>10. SentBefore'
  BY <1>9 DEF SentBefore
<1>11. SourceInv'
  BY <1>6, <1>7, <1>10 DEF SourceInv
<1>12. ASSUME HasSent, HasSent' PROVE sent'.media >= sent.media
  <2>1. sent.media <= sent'.media
    BY <1>4, <1>8, <1>12
  <2>2. sent.media \in Nat /\ sent'.media \in Nat
    BY <1>9, <1>12 DEF SourceInv, SentBefore
  <2> QED
    BY <2>1, <2>2
<1> QED
  BY <1>11, <1>12

(* A new round: it lies after what was sent in the old one.                   *)
LEMMA WrapStep == ASSUME FineScales, SourceInv, SourceShape', Wrap PROVE SourceInv'
<1>1. /\ AlignLoopDuration /\ loop' = "idle" /\ conf.repeat
      /\ UNCHANGED <<conf, play, tr, header, epoch, picked, sent>>
  BY DEF Wrap, history
<1>2. SourceShape /\ Aligned
  BY DEF SourceInv
<1>3. nr' = [t \in T |-> 1]
  BY <1>1 DEF AlignLoopDuration
<1>4. \A t, u \in T : /\ loopDur'[t] \in Nat
                      /\ loopDur'[t] * Scale(Base) <= loopDur'[Base] * Scale(t)
                      /\ MediaAt(u, Total(u)) <= ConvertClock(loopDur'[t], Scale(t), Micro)
  BY <1>1, <1>2, RoundBegins
<1>5. \A t \in T : loopDur'[t] \in Nat
  BY <1>4
<1>6. Aligned'
  <2>1. Base' = Base /\ Base \in T
    BY <1>1, <1>2, ConfIs DEF Base
  <2> QED
    BY <1>4, <2>1 DEF Aligned
<1>7. ChosenNext'
  BY <1>1 DEF ChosenNext
<1>8. ASSUME NEW t \in T
       PROVE  /\ Media(t)' = ConvertClock(loopDur'[t], Scale(t), Micro)
              /\ Media(t)' <= MediaAt(t, Total(t))' /\ Media(t)' \in Nat
              /\ MediaAt(t, Total(t))' \in Nat
  <2>1. PICK g \in BOOLEAN : g = conf.grid
    BY <1>2, ConfIs
  <2>2. PICK d \in Nat : d = loopDur'[t]
    BY <1>5
  <2>3. PICK N \in Nat \ {0} : N = Total(t)
    BY <1>2, ConfIs
  <2>4. nr'[t] = 1 /\ conf' = conf
    BY <1>1, <1>3
  <2>5. Media(t)' = ConvertClock(TimeOf(g, t, 1 - 1) + d, Tracks[t].scale, Micro)
    BY <2>1, <2>2, <2>4 DEF Media, DecodeTime
  <2>6. MediaAt(t, Total(t))' = ConvertClock(TimeOf(g, t, N - 1) + d, Tracks[t].scale, Micro)
    BY <2>1, <2>2, <2>3, <2>4 DEF MediaAt, DecodeTime
  <2>7. 1 - 1 = 0 /\ TimeOf(g, t, 0) = 0
    BY TimesRise
  <2>8. TimeOf(g, t, 1 - 1) + d = d
    <3>1. TimeOf(g, t, 1 - 1) = 0
      BY <2>7
    <3> QED
      BY <3>1
  <2>9. Media(t)' = ConvertClock(loopDur'[t], Scale(t), Micro)
    BY <2>2, <2>5, <2>8 DEF Scale
  <2>10. N \in 1 .. N /\ 1 \in 1 .. N
    OBVIOUS
  <2> QED
    BY <2>3, <2>5, <2>6, <2>9, <2>10, StampsRise
<1>9. ASSUME HasSent'
       PROVE  /\ sent'.media \in Nat /\ BeforeAll(sent.media)'
              /\ \E t \in T : sent'.media <= MediaAt(t, Total(t))'
  <2>1. sent' = sent /\ HasSent
    BY <1>1, <1>9 DEF HasSent
  <2>2. sent.media \in Nat /\ \E u \in T : sent.media <= MediaAt(u, Total(u))
    BY <2>1 DEF SourceInv, SentBefore
  <2>3. PICK u \in T : sent.media <= MediaAt(u, Total(u))
    BY <2>2
  <2>4. MediaAt(u, Total(u)) \in Nat
    <3>1. Total(u) \in 1 .. Total(u)
      BY <1>2, ConfIs
    <3> QED
      BY <1>2, <3>1, MediaRises
  <2>5. ASSUME NEW t \in T PROVE sent.media <= Media(t)'
    <3>1. PICK x \in Nat : x = Media(t)'
      BY <1>8
    <3>2. MediaAt(u, Total(u)) <= x
      BY <1>4, <1>8, <3>1
    <3> QED
      BY <2>2, <2>3, <2>4, <3>1, <3>2
  <2>6. \A t \in Sending' : t \in T
    BY DEF Sending
  <2>7. BeforeAll(sent.media)'
    BY <2>1, <2>5, <2>6 DEF BeforeAll
  <2>8. sent'.media <= MediaAt(u, Total(u))'
    <3>1. PICK x \in Nat : x = Media(u)'
      BY <1>8
    <3>2. PICK y \in Nat : y = MediaAt(u, Total(u))' /\ x <= y
      BY <1>8, <3>1
    <3>3. sent.media <= x
      BY <2>5, <3>1
    <3> QED
      BY <2>1, <2>2, <3>2, <3>3
  <2> QED
    BY <2>1, <2>2, <2>7, <2>8
<1>10. SentBefore'
  BY <1>9 DEF SentBefore
<1> QED
  BY <1>6, <1>7, <1>10 DEF SourceInv

LEMMA SignalStep ==
  ASSUME SourceInv, SourceShape', \/ Resume
                                  \/ \E t \in T : \E pts \in Points : Seek(t, pts)
  PROVE  SourceInv' /\ ~HasSent'
<1>1. PICK media : Jump(media)
  BY DEF Resume, Seek
<1>2. UNCHANGED <<conf, loopDur>>
  BY DEF Resume, Seek
<1>3. Aligned'
  <2>1. Base' = Base
    BY <1>2 DEF Base
  <2> QED
    BY <1>2, <2>1 DEF SourceInv, Aligned
<1> QED
  BY <1>1, <1>3, JumpStep

LEMMA StartStep == ASSUME SourceInv, SourceShape', Start PROVE SourceInv' /\ ~HasSent'
<1>1. loopDur' = [t \in T |-> 0] /\ Jump(0) /\ conf' = conf
  BY DEF Start
<1>2. Aligned'
  <2>1. Base' = Base /\ Base \in T /\ \A t \in T : Scale(t) \in Nat
    BY <1>1, ConfIs DEF Base, SourceInv
  <2>2. \A t \in T : loopDur'[t] = 0
    BY <1>1
  <2> QED
    BY <2>1, <2>2 DEF Aligned
<1> QED
  BY <1>1, <1>2, JumpStep

(* Every step keeps what the loop keeps, and only Emit sends.                 *)
LEMMA SourceStep ==
  ASSUME FineScales, SourceInv, [Next]_vars
  PROVE  SourceInv' /\ (HasSent /\ HasSent' => sent'.media >= sent.media)
<1>1. ASSUME HasSent, UNCHANGED sent PROVE sent'.media >= sent.media
  BY <1>1 DEF SourceInv, SentBefore
<1>2. SourceShape'
  BY ShapeStep DEF SourceInv
<1>3. CASE Start
  BY <1>2, <1>3, StartStep
<1>4. CASE StartFails \/ StopCalled \/ StopReturns \/ FileEnds \/ Idle \/ Exits \/ WakesUp \/ Tick
           \/ Pause \/ UNCHANGED vars
  <2>1. /\ UNCHANGED <<conf, nr, loopDur, tr, epoch, picked, sent>>
        /\ UNCHANGED <<loop, header>> \/ loop' \in {"none", "pick", "paced", "idle"}
        /\ \A t \in T : play'[t] => play[t]
    BY <1>4, Untouched DEF SourceInv
  <2>2. SourceInv'
    BY <1>2, <2>1, QuietStep
  <2> QED
    BY <1>1, <2>1, <2>2
<1>5. CASE Pick
  BY <1>1, <1>2, <1>5, PickStep DEF Pick
<1>6. CASE Wrap
  BY <1>1, <1>2, <1>6, WrapStep DEF Wrap, history
<1>7. CASE ReadsHeader
  BY <1>1, <1>2, <1>7, HeaderStep DEF ReadsHeader, history
<1>8. CASE Counts
  BY <1>1, <1>2, <1>8, CountStep DEF Counts, history
<1>9. CASE Emit
  BY <1>2, <1>9, EmitStep
<1>10. CASE Resume \/ \E t \in T : \E pts \in Points : Seek(t, pts)
  BY <1>2, <1>10, SignalStep
<1> QED
  BY <1>3, <1>4, <1>5, <1>6, <1>7, <1>8, <1>9, <1>10 DEF Next

(* Around and around, and through a pause, the frames of all tracks of an MP4 *)
(* input leave in the order of their media times (mp4_source.go:66,           *)
(* docs/design.md:457), if its file's samples are not shorter than the units  *)
(* of its time scales.                                                        *)
THEOREM TracksInterleaved == ASSUME FineScales PROVE Spec => Interleaved
<1>1. Init => SourceInv
  BY InitSource
<1>2. SourceInv /\ [Next]_vars => SourceInv'
  BY SourceStep
<1>3. SourceInv /\ [Next]_vars => (sent.track /= 0 /\ sent'.track /= 0 => sent'.media >= sent.media)
  BY SourceStep DEF HasSent
<1> QED
  BY <1>1, <1>2, <1>3, PTL DEF Spec, Interleaved

-----------------------------------------------------------------------------
(* No frame before its time.  First the clocks, which round down.             *)
LEMMA ExactShare ==
  ASSUME NEW v \in Nat, NEW s \in Nat \ {0}, NEW k \in Nat \ {0}
  PROVE  ConvertClock(v, s, k * s) = v * k /\ ConvertClock(v * k, k * s, s) = v
<1>1. PICK M \in Nat \ {0} : M = k * s
  OBVIOUS
<1>2. PICK a \in Nat : a = ConvertClock(v, s, M) /\ a * s <= v * M /\ v * M < a * s + s
  BY <1>1, Rounds
<1>3. PICK x \in Nat : x = v * k
  OBVIOUS
<1>4. v * M = x * s /\ v * M = v * (k * s)
  BY <1>1, <1>3
<1>5. a = x
  <2>1. a * s <= x * s
    BY <1>2, <1>4
  <2>2. a <= x
    BY <2>1, Cancel
  <2>3. x * s < (a + 1) * s
    BY <1>2, <1>4
  <2>4. ~(a + 1 <= x)
    <3>1. ASSUME a + 1 <= x PROVE FALSE
      <4>1. (a + 1) * s <= x * s
        BY <3>1, TimesMore
      <4> QED
        BY <2>3, <4>1
    <3> QED
      BY <3>1
  <2> QED
    BY <2>2, <2>4
<1>6. PICK q \in Nat : q = ConvertClock(x, M, s) /\ q * M <= x * s /\ x * s < q * M + M
  BY Rounds
<1>7. q = v
  <2>1. q * M <= v * M
    BY <1>4, <1>6
  <2>2. q <= v
    BY <2>1, Cancel
  <2>3. v * M < (q + 1) * M
    BY <1>4, <1>6
  <2>4. ~(q + 1 <= v)
    <3>1. ASSUME q + 1 <= v PROVE FALSE
      <4>1. (q + 1) * M <= v * M
        BY <3>1, TimesMore
      <4> QED
        BY <2>3, <4>1
    <3> QED
      BY <3>1
  <2> QED
    BY <2>2, <2>4
<1> QED
  BY <1>1, <1>2, <1>3, <1>5, <1>6, <1>7

LEMMA Chain ==
  ASSUME NEW a \in Nat, NEW b \in Nat, NEW c \in Nat, NEW d \in Nat, NEW e \in Nat, NEW f \in Nat,
         NEW g \in Nat, NEW s \in Nat, NEW M \in Nat,
         a < b + M, b <= c + (d + s), c <= e, e < f + s, M < g + s
  PROVE  a < (f + s) + (d + s) + (g + s)
  OBVIOUS

LEMMA ShortChain ==
  ASSUME NEW a \in Nat, NEW b \in Nat, NEW c \in Nat, NEW d \in Nat, NEW e \in Nat,
         NEW s \in Nat \ {0}, a <= b + c, b < d + s, c + s - 1 < e + s
  PROVE  a < d + e + s
  OBVIOUS

(* What is due d units of the coarse clock after the anchor is early by no    *)
(* more than the conversions lose.                                            *)
LEMMA DueIsLate ==
  ASSUME NEW p \in Nat, NEW am \in Nat, NEW jm \in Nat, am <= jm, NEW s \in Nat \ {0},
         NEW M \in Nat \ {0}, NEW q \in Nat, q = ConvertClock(ConvertClock(p, s, M), M, s),
         NEW u \in Nat, u = IF q <= am THEN 0 ELSE ConvertClock(q - am, s, M)
  PROVE  ConvertClock(p, s, M) - ConvertClock(jm, s, M)
           <= u + (IF M % s = 0 THEN 0 ELSE ConvertClock(1, s, M) + 2)
<1>1. PICK a \in Nat : a = ConvertClock(p, s, M) /\ a * s <= p * M /\ p * M < a * s + s
  BY Rounds
<1>2. PICK j \in Nat : j = ConvertClock(jm, s, M) /\ j * s <= jm * M /\ jm * M < j * s + s
  BY Rounds
<1>3. CASE M % s = 0
  <2>1. PICK k \in Nat \ {0} : M = k * s
    <3>1. M = s * (M \div s)
      BY <1>3
    <3>2. PICK k \in Nat : k = M \div s
      OBVIOUS
    <3>3. M = k * s
      BY <3>1, <3>2
    <3>4. k # 0
      BY <3>3
    <3> QED
      BY <3>2, <3>3, <3>4
  <2>2. a = p * k /\ j = jm * k /\ q = p
    <3>1. \A v \in Nat : ConvertClock(v, s, M) = v * k /\ ConvertClock(v * k, M, s) = v
      <4>1. \A v \in Nat : ConvertClock(v, s, k * s) = v * k /\ ConvertClock(v * k, k * s, s) = v
        BY ExactShare
      <4> QED
        BY <2>1, <4>1
    <3> QED
      BY <1>1, <1>2, <3>1
  <2>3. CASE p <= am
    <3>1. p <= jm
      BY <2>3
    <3>2. a <= j
      BY <2>2, <3>1, TimesMore
    <3>3. u = 0
      BY <2>2, <2>3
    <3> QED
      BY <1>1, <1>2, <1>3, <3>2, <3>3
  <2>4. CASE am < p
    <3>1. PICK d \in Nat : d = p - am
      BY <2>4
    <3>2. u = d * k
      BY <2>1, <2>2, <2>4, <3>1, ExactShare
    <3>3. p <= jm + d
      BY <3>1
    <3>4. p * k <= (jm + d) * k
      BY <3>3, TimesMore
    <3>5. (jm + d) * k = jm * k + d * k
      OBVIOUS
    <3>6. a <= j + u
      BY <2>2, <3>2, <3>4, <3>5
    <3> QED
      BY <1>1, <1>2, <1>3, <3>6
  <2> QED
    BY <2>3, <2>4
<1>4. CASE M % s # 0
  <2>1. PICK c \in Nat : c = ConvertClock(1, s, M) /\ M < c * s + s
    <3>1. 1 \in Nat /\ M \in Nat /\ 1 * M = M
      OBVIOUS
    <3>2. ConvertClock(1, s, M) \in Nat /\ 1 * M < ConvertClock(1, s, M) * s + s
      BY <3>1, Rounds
    <3> QED
      BY <3>1, <3>2
  <2>2. q * M <= a * s /\ a * s < q * M + M
    BY <1>1, Rounds
  <2>3. q * M <= am * M + (u * s + s)
    <3>1. CASE q <= am
      <4>1. q * M <= am * M /\ q * M \in Nat /\ am * M \in Nat
        BY <3>1, TimesMore
      <4>2. u * s + s \in Nat
        OBVIOUS
      <4> QED
        BY <4>1, <4>2
    <3>2. CASE am < q
      <4>1. PICK d \in Nat : d = q - am
        BY <3>2
      <4>2. d * M < u * s + s
        <5>1. u = ConvertClock(d, s, M)
          BY <3>2, <4>1
        <5> QED
          BY <5>1, Rounds
      <4>3. q * M = (am + d) * M /\ (am + d) * M = am * M + d * M
        BY <4>1
      <4> QED
        BY <4>2, <4>3
    <3> QED
      BY <3>1, <3>2
  <2>4. am * M <= jm * M
    BY TimesMore
  <2>5. a * s < (j * s + s) + (u * s + s) + (c * s + s)
    <3>1. PICK qm \in Nat : qm = q * M
      OBVIOUS
    <3>2. PICK aM \in Nat : aM = am * M
      OBVIOUS
    <3>3. PICK jM \in Nat : jM = jm * M
      OBVIOUS
    <3>4. PICK as \in Nat : as = a * s
      OBVIOUS
    <3>5. PICK us \in Nat : us = u * s
      OBVIOUS
    <3>6. PICK js \in Nat : js = j * s
      OBVIOUS
    <3>7. PICK cs \in Nat : cs = c * s
      OBVIOUS
    <3>8. as < qm + M /\ qm <= aM + (us + s) /\ aM <= jM /\ jM < js + s /\ M < cs + s
      BY <1>2, <2>1, <2>2, <2>3, <2>4, <3>1, <3>2, <3>3, <3>4, <3>5, <3>6, <3>7
    <3>9. as < (js + s) + (us + s) + (cs + s)
      BY <3>8, Chain
    <3> QED
      BY <3>4, <3>5, <3>6, <3>7, <3>9
  <2>6. a * s < (j + u + c + 3) * s
    <3>1. (j + u + c + 3) * s = (j * s + s) + (u * s + s) + (c * s + s)
      OBVIOUS
    <3> QED
      BY <2>5, <3>1
  <2>7. a < j + u + c + 3
    <3>1. ASSUME j + u + c + 3 <= a PROVE FALSE
      <4>1. j + u + c + 3 \in Nat
        OBVIOUS
      <4>2. (j + u + c + 3) * s <= a * s
        BY <3>1, <4>1, TimesMore
      <4>3. (j + u + c + 3) * s \in Nat /\ a * s \in Nat
        BY <4>1
      <4> QED
        BY <2>6, <4>2, <4>3
    <3> QED
      BY <3>1
  <2> QED
    BY <1>1, <1>2, <1>4, <2>1, <2>7
<1> QED
  BY <1>3, <1>4

(* What begins when d units are over is early by no more than d rounded up.   *)
LEMMA NextIsLater ==
  ASSUME NEW x \in Nat, NEW d \in Nat, NEW s \in Nat \ {0}, NEW M \in Nat \ {0}
  PROVE  /\ ConvertClock(x + d, s, M) <= ConvertClock(x, s, M) + (d * M + s - 1) \div s
         /\ (d * M + s - 1) \div s \in Nat
<1>1. PICK a \in Nat : a = ConvertClock(x, s, M) /\ x * M < a * s + s
  BY Rounds
<1>2. x + d \in Nat
  OBVIOUS
<1>3. PICK b \in Nat : b = ConvertClock(x + d, s, M) /\ b * s <= (x + d) * M
  BY <1>2, Rounds
<1>4. PICK y \in Nat : y = d * M + s - 1
  <2>1. d * M \in Nat
    OBVIOUS
  <2> QED
    BY <2>1
<1>5. PICK c \in Nat : c = y \div s /\ y < c * s + s
  <2>1. PICK c : c = y \div s
    OBVIOUS
  <2>2. c \in Nat /\ y < c * s + s
    BY <2>1
  <2> QED
    BY <2>1, <2>2
<1>6. b * s < (a + c + 1) * s
  <2>1. PICK xM \in Nat : xM = x * M
    OBVIOUS
  <2>2. PICK dM \in Nat : dM = d * M
    OBVIOUS
  <2>3. PICK as \in Nat : as = a * s
    OBVIOUS
  <2>4. PICK cs \in Nat : cs = c * s
    OBVIOUS
  <2>5. PICK bs \in Nat : bs = b * s
    OBVIOUS
  <2>6. (x + d) * M = xM + dM
    BY <2>1, <2>2
  <2>7. bs <= xM + dM /\ xM < as + s /\ dM + s - 1 < cs + s
    BY <1>1, <1>3, <1>4, <1>5, <2>1, <2>2, <2>3, <2>4, <2>5, <2>6
  <2>8. bs < as + cs + s
    BY <2>7, ShortChain
  <2>9. (a + c + 1) * s = as + cs + s
    BY <2>3, <2>4
  <2> QED
    BY <2>5, <2>8, <2>9
<1>7. b <= a + c
  <2>1. ASSUME a + c + 1 <= b PROVE FALSE
    <3>1. a + c + 1 \in Nat
      OBVIOUS
    <3>2. (a + c + 1) * s <= b * s
      BY <2>1, <3>1, TimesMore
    <3>3. (a + c + 1) * s \in Nat /\ b * s \in Nat
      BY <3>1
    <3> QED
      BY <1>6, <3>2, <3>3
  <2> QED
    BY <2>1
<1> QED
  BY <1>1, <1>3, <1>4, <1>5, <1>7

-----------------------------------------------------------------------------
PaceShape ==
  /\ starts \in Nat /\ now \in Nat /\ until \in Nat /\ anchor \in Nat /\ anchorMedia \in Nat
  /\ anchored \in BOOLEAN /\ jump.time \in Nat /\ jump.media \in Nat /\ jump.time <= now
  /\ sent.track # 0 => sent.media \in Nat
  /\ \A t \in T : nr[t] <= Total(t) + 1
  /\ loop \in {"next", "count"} => nr[tr] <= Total(tr)
  /\ loop = "count" /\ picked = epoch => nr[tr] = header
  /\ loop \in {"count", "read"} /\ picked = epoch => header \in 1 .. Total(tr)
  /\ starts = 0 => ~anchored /\ loop = "none"

(* The anchor is no earlier than the jump and counts from no later a sample.  *)
AnchorTrue ==
  starts <= 1 =>
    IF anchored THEN jump.time <= anchor /\ anchorMedia <= jump.media
    ELSE nr[Base] = 1 /\ Position(1) <= jump.media /\ loop \notin {"next", "count", "read"}

(* Once the base track is through its last sample was in time; while its next *)
(* sample is the next of all it is in time to send it, or will be at the end  *)
(* of the wait; and it is for the one the loop has chosen, unless the media   *)
(* time has jumped since.                                                     *)
First == \A t \in T : Left(t) => Media(Base) <= Media(t)
RoundOver == conf.repeat /\ ~Left(Base) => InTime(MediaAt(Base, Total(Base)), now, 2)
Ready(time) == Left(Base) /\ First => InTime(Media(Base), time, nr[Base])
MayGo == loop \in {"pick", "idle"} => Ready(now)
Waits == loop = "paced" => Ready(now) \/ Ready(until)
Chosen ==
  loop \in {"next", "count", "read"} /\ tr = Base /\ picked = epoch
    => InTime(MediaAt(Base, InHand), now, InHand)
Overtaken == loop \in {"next", "count"} /\ picked # epoch => Position(nr[Base]) <= jump.media
Due == RoundOver /\ MayGo /\ Waits /\ Chosen /\ Overtaken /\ OnTime

PaceInv == SourceShape /\ PaceShape /\ AnchorTrue /\ (starts <= 1 /\ Playing => Due)

LEMMA SlackIs ==
  ASSUME SourceShape
  PROVE  /\ \A n : Slack(n) \in Nat /\ Rounding <= Slack(n) /\ (n # 1 => Slack(n) = Rounding)
         /\ Slack(1) = Rounding + RoundedUp(LastSample) /\ LastSample \in Nat
         /\ TotalDuration(Base) = DecodeTime(Base, Total(Base)) + LastSample
         /\ DecodeTime(Base, Total(Base)) \in Nat /\ TotalDuration(Base) \in Nat
<1>1. PICK b \in T : b = Base
  BY ConfIs
<1>2. PICK s \in Nat \ {0} : s = Tracks[b].scale
  BY TracksAre
<1>3. PICK g \in BOOLEAN : g = conf.grid
  BY ConfIs
<1>4. Micro \in Nat \ {0}
  BY ConfIs
<1>5. PICK N \in Nat \ {0} : N = Total(b)
  BY TracksAre
<1>6. PICK x \in Nat : x = TimeOf(g, b, N - 1)
  <2>1. N - 1 \in 0 .. Total(b)
    BY <1>5
  <2> QED
    BY <2>1, TimesRise
<1>7. PICK y \in Nat : y = TimeOf(g, b, N) /\ x <= y
  <2>1. N \in 0 .. Total(b) /\ N - 1 \in 0 .. N
    BY <1>5
  <2> QED
    BY <1>6, <2>1, TimesRise
<1>8. DecodeTime(Base, Total(Base)) = x /\ TotalDuration(Base) = y
  BY <1>1, <1>3, <1>5, <1>6, <1>7 DEF DecodeTime, TotalDuration
<1>9. PICK d \in Nat : d = LastSample /\ y = x + d
  <2>1. y - x \in Nat /\ y = x + (y - x)
    BY <1>7
  <2> QED
    BY <1>8, <2>1 DEF LastSample
<1>10. PICK r \in Nat : r = Rounding
  <2>1. ConvertClock(1, s, Micro) \in Nat
    BY <1>4, Rounds
  <2>2. ConvertClock(1, s, Micro) + 2 \in Nat
    BY <2>1
  <2> QED
    BY <1>1, <1>2, <2>2 DEF Rounding
<1>11. PICK c \in Nat : c = RoundedUp(LastSample)
  <2>1. 0 \in Nat
    OBVIOUS
  <2>2. (d * Micro + s - 1) \div s \in Nat
    BY <1>4, <2>1, NextIsLater
  <2> QED
    BY <1>1, <1>2, <1>9, <2>2 DEF RoundedUp
<1>12. \A n : Slack(n) = r + (IF n = 1 THEN c ELSE 0)
  BY <1>10, <1>11 DEF Slack
<1>13. Slack(1) = r + c /\ \A n : n # 1 => Slack(n) = r
  BY <1>12
<1>14. \A n : Slack(n) \in Nat /\ r <= Slack(n)
  BY <1>13
<1> QED
  BY <1>8, <1>9, <1>10, <1>11, <1>13, <1>14

LEMMA BaseMedia ==
  ASSUME SourceShape
  PROVE  /\ \A n \in 1 .. Total(Base) + 1 :
              /\ Position(n) \in Nat /\ \A m \in 1 .. n : Position(m) <= Position(n)
              /\ MediaAt(Base, n) = ConvertClock(Position(n), Scale(Base), Micro)
              /\ MediaAt(Base, n) \in Nat
         /\ Media(Base) = MediaAt(Base, nr[Base])
         /\ Position(1) = loopDur[Base] /\ loopDur[Base] \in Nat
         /\ Position(Total(Base)) + LastSample = loopDur[Base] + TotalDuration(Base)
<1>1. PICK b \in T : b = Base
  BY ConfIs
<1>2. PICK s \in Nat \ {0} : s = Tracks[b].scale
  BY TracksAre
<1>3. PICK g \in BOOLEAN : g = conf.grid
  BY ConfIs
<1>4. Micro \in Nat \ {0}
  BY ConfIs
<1>5. PICK N \in Nat \ {0} : N = Total(b)
  BY TracksAre
<1>6. PICK l \in Nat : l = loopDur[b]
  BY DEF SourceShape
<1>7. \A n : Position(n) = l + TimeOf(g, b, n - 1)
  BY <1>1, <1>3, <1>6 DEF Position, DecodeTime
<1>8. \A n : MediaAt(Base, n) = ConvertClock(TimeOf(g, b, n - 1) + l, s, Micro)
  BY <1>1, <1>2, <1>3, <1>6 DEF MediaAt, DecodeTime
<1>9. ASSUME NEW n \in 1 .. N + 1
      PROVE  /\ Position(n) \in Nat /\ \A m \in 1 .. n : Position(m) <= Position(n)
             /\ MediaAt(Base, n) = ConvertClock(Position(n), s, Micro)
             /\ MediaAt(Base, n) \in Nat
  <2>1. n - 1 \in 0 .. N
    OBVIOUS
  <2>2. PICK y \in Nat : y = TimeOf(g, b, n - 1) /\ \A k \in 0 .. n - 1 : TimeOf(g, b, k) <= y
    BY <1>5, <2>1, TimesRise
  <2>3. ASSUME NEW m \in 1 .. n PROVE Position(m) <= Position(n)
    <3>1. m - 1 \in 0 .. n - 1 /\ m - 1 \in 0 .. N
      OBVIOUS
    <3>2. PICK x \in Nat : x = TimeOf(g, b, m - 1) /\ x <= y
      BY <1>5, <2>2, <3>1, TimesRise
    <3> QED
      BY <1>7, <2>2, <3>2
  <2>4. Position(n) = l + y /\ l + y = y + l /\ l + y \in Nat
    BY <1>7, <2>2
  <2>5. MediaAt(Base, n) = ConvertClock(y + l, s, Micro)
    BY <1>8, <2>2
  <2>6. ConvertClock(l + y, s, Micro) \in Nat
    BY <1>4, <2>4, Rounds
  <2> QED
    BY <2>3, <2>4, <2>5, <2>6
<1>10. Media(Base) = MediaAt(Base, nr[Base])
  BY DEF Media, MediaAt
<1>11. Position(1) = l
  <2>1. 1 - 1 = 0 /\ TimeOf(g, b, 0) = 0
    BY TimesRise
  <2>2. Position(1) = l + 0
    BY <1>7, <2>1
  <2> QED
    BY <2>2
<1>12. Position(Total(Base)) + LastSample = loopDur[Base] + TotalDuration(Base)
  <2>1. PICK x \in Nat : x = DecodeTime(Base, Total(Base))
    BY SlackIs
  <2>2. PICK d \in Nat : d = LastSample
    BY SlackIs
  <2>3. TotalDuration(Base) = x + d
    BY <2>1, <2>2, SlackIs
  <2>4. Position(Total(Base)) = l + x
    BY <1>1, <1>6, <2>1 DEF Position
  <2> QED
    BY <1>1, <1>6, <2>2, <2>3, <2>4
<1> QED
  BY <1>1, <1>2, <1>5, <1>6, <1>9, <1>10, <1>11, <1>12 DEF Scale

(* The bounds move with the clock and the jump only.                          *)
LEMMA InTimeNext ==
  ASSUME conf' = conf
  PROVE  /\ Base' = Base /\ \A n : Slack(n)' = Slack(n)
         /\ \A m, x, n : InTime(m, x, n)' <=>
              m - ConvertClock(jump'.media, Scale(Base), Micro) <= x - jump'.time + Slack(n)
<1>1. Base' = Base
  BY DEF Base
<1>2. Rounding' = Rounding
  BY <1>1 DEF Rounding
<1>3. LastSample' = LastSample
  BY <1>1 DEF LastSample, TotalDuration, DecodeTime
<1>4. \A n : Slack(n)' = Slack(n)
  BY <1>1, <1>2, <1>3 DEF Slack, RoundedUp
<1> QED
  BY <1>1, <1>4 DEF InTime, Scale

LEMMA LaterInTime ==
  ASSUME SourceShape, PaceShape, NEW m \in Nat, NEW x \in Nat, NEW y \in Nat, x <= y, NEW n,
         InTime(m, x, n)
  PROVE  InTime(m, y, n)
<1>1. PICK j \in Nat : j = ConvertClock(jump.media, Tracks[Base].scale, Micro)
  BY ConfIs, Rounds DEF PaceShape, Scale
<1>2. PICK tm \in Nat : tm = jump.time
  BY DEF PaceShape
<1>3. PICK k \in Nat : k = Slack(n)
  BY SlackIs
<1>4. m - j <= x - tm + k
  BY <1>1, <1>2, <1>3 DEF InTime
<1>5. m - j <= y - tm + k
  BY <1>4
<1> QED
  BY <1>1, <1>2, <1>3, <1>5 DEF InTime

(* A sample no later than the jump is in time, at once.                       *)
LEMMA NoWait ==
  ASSUME NEW s \in Nat \ {0}, NEW M \in Nat, NEW p \in Nat, NEW q \in Nat, p <= q,
         NEW x \in Nat, NEW y \in Nat, x <= y, NEW k \in Nat
  PROVE  ConvertClock(p, s, M) - ConvertClock(q, s, M) <= y - x + k
<1>1. p * s <= q * s
  BY TimesMore
<1>2. ConvertClock(p, s, M) <= ConvertClock(q, s, M)
  BY <1>1, RoundsInOrder
<1>3. ConvertClock(p, s, M) \in Nat /\ ConvertClock(q, s, M) \in Nat
  BY Rounds
<1> QED
  BY <1>2, <1>3

LEMMA AtJump ==
  ASSUME SourceShape, PaceShape, NEW p \in Nat, p <= jump.media, NEW n
  PROVE  InTime(ConvertClock(p, Scale(Base), Micro), now, n)
<1>1. Scale(Base) \in Nat \ {0} /\ Micro \in Nat /\ Slack(n) \in Nat
  BY ConfIs, SlackIs
<1>2. jump.media \in Nat /\ jump.time \in Nat /\ now \in Nat /\ jump.time <= now
  BY DEF PaceShape
<1> QED
  BY <1>1, <1>2, NoWait DEF InTime, Scale

LEMMA SameTracks ==
  ASSUME UNCHANGED <<conf, nr, loopDur>>
  PROVE  /\ Base' = Base /\ (First' <=> First) /\ \A n : Position(n)' = Position(n)
         /\ \A t : Media(t)' = Media(t) /\ (Left(t)' <=> Left(t))
         /\ \A t, n : MediaAt(t, n)' = MediaAt(t, n)
<1>1. Base' = Base
  BY DEF Base
<1>2. \A n : Position(n)' = Position(n)
  BY <1>1 DEF Position, DecodeTime
<1>3. \A t : Media(t)' = Media(t) /\ (Left(t)' <=> Left(t))
  BY DEF Media, DecodeTime, Left
<1>4. \A t, n : MediaAt(t, n)' = MediaAt(t, n)
  BY DEF MediaAt, DecodeTime
<1>5. First' <=> First
  BY <1>1, <1>3 DEF First
<1> QED
  BY <1>1, <1>2, <1>3, <1>4, <1>5

(* Where the next wait ends.                                                  *)
LEMMA TargetIs ==
  ASSUME SourceShape, PaceShape
  PROVE  /\ Target \in Nat
         /\ Left(Base) /\ First =>
              \E q \in Nat :
                /\ q = ConvertClock(Media(Base), Micro, Scale(Base))
                /\ Target = IF q <= anchorMedia THEN now
                            ELSE anchor + ConvertClock(q - anchorMedia, Scale(Base), Micro)
<1> DEFINE Conv(m) == ConvertClock(m, Micro, Tracks[Base].scale)
           left == {Conv(Media(t)) : t \in {u \in T : Left(u)}}
           next == CHOOSE m \in left : \A n \in left : m <= n
<1>1. PICK s \in Nat \ {0} : s = Tracks[Base].scale /\ s = Scale(Base)
  BY ConfIs DEF Scale
<1>2. /\ now \in Nat /\ anchor \in Nat /\ anchorMedia \in Nat /\ Micro \in Nat \ {0}
  BY ConfIs DEF PaceShape
<1>3. \A t \in T : Left(t) => Media(t) \in Nat /\ Conv(Media(t)) \in Nat
  <2>1. ASSUME NEW t \in T, Left(t) PROVE Media(t) \in Nat
    <3>1. nr[t] \in 1 .. Total(t)
      BY <2>1, ConfIs DEF Left, SourceShape
    <3> QED
      BY <3>1, MediaRises
  <2>2. \A m \in Nat : Conv(m) \in Nat
    BY <1>1, <1>2, Rounds
  <2> QED
    BY <2>1, <2>2
<1>4. Target = IF left = {} \/ next <= anchorMedia THEN now
               ELSE anchor + ConvertClock(next - anchorMedia, Tracks[Base].scale, Micro)
  BY DEF Target
<1>5. ASSUME left # {} PROVE next \in left /\ next \in Nat /\ \A n \in left : next <= n
  <2>1. left \in SUBSET Nat
    BY <1>3
  <2>2. PICK L : L = left
    OBVIOUS
  <2> HIDE DEF left
  <2>3. \E m \in left : \A n \in left : m <= n
    BY <1>5, <2>1, Least
  <2>4. next \in left /\ \A n \in left : next <= n
    BY <2>3
  <2> QED
    BY <2>1, <2>4
<1>6. Target \in Nat
  <2>1. CASE left = {} \/ next <= anchorMedia
    BY <1>2, <1>4, <2>1
  <2>2. CASE left # {} /\ ~(next <= anchorMedia)
    <3>1. PICK x \in Nat : x = next
      BY <1>5, <2>2
    <3>2. x - anchorMedia \in Nat
      BY <1>2, <2>2, <3>1
    <3>3. ConvertClock(x - anchorMedia, s, Micro) \in Nat
      BY <1>2, <3>2, Rounds
    <3>4. anchor + ConvertClock(x - anchorMedia, s, Micro) \in Nat
      BY <1>2, <3>3
    <3> QED
      BY <1>1, <1>4, <2>2, <3>1, <3>4
  <2> QED
    BY <2>1, <2>2
<1>7. ASSUME Left(Base), First PROVE left # {} /\ next = Conv(Media(Base))
  <2>1. Base \in T
    BY ConfIs
  <2>2. Conv(Media(Base)) \in left
    BY <1>7, <2>1
  <2>3. ASSUME NEW t \in T, Left(t) PROVE Conv(Media(Base)) <= Conv(Media(t))
    <3>1. PICK x \in Nat : x = Media(Base)
      BY <1>3, <1>7, <2>1
    <3>2. PICK y \in Nat : y = Media(t)
      BY <1>3, <2>3
    <3>3. x <= y
      BY <1>7, <2>3, <3>1, <3>2 DEF First
    <3>4. x * Micro <= y * Micro
      BY <1>2, <3>3, TimesMore
    <3>5. ConvertClock(x, Micro, s) <= ConvertClock(y, Micro, s)
      BY <1>1, <1>2, <3>4, RoundsInOrder
    <3> QED
      BY <1>1, <3>1, <3>2, <3>5
  <2>4. \A n \in left : Conv(Media(Base)) <= n
    BY <2>3
  <2>5. next <= Conv(Media(Base)) /\ Conv(Media(Base)) <= next /\ next \in Nat
    BY <1>5, <2>2, <2>4
  <2>6. Conv(Media(Base)) \in Nat
    BY <1>3, <1>7, <2>1
  <2> QED
    BY <2>2, <2>5, <2>6
<1>8. ASSUME Left(Base), First
       PROVE  \E q \in Nat :
                /\ q = ConvertClock(Media(Base), Micro, Scale(Base))
                /\ Target = IF q <= anchorMedia THEN now
                            ELSE anchor + ConvertClock(q - anchorMedia, Scale(Base), Micro)
  <2>1. left # {} /\ next = Conv(Media(Base)) /\ Conv(Media(Base)) \in Nat
    BY <1>3, <1>7, <1>8, ConfIs
  <2>2. PICK q \in Nat : q = Conv(Media(Base)) /\ q = ConvertClock(Media(Base), Micro, s)
    BY <1>1, <2>1
  <2>3. left # {} /\ next = q
    BY <2>1, <2>2
  <2> HIDE DEF left, next
  <2>4. Target = IF q <= anchorMedia THEN now
                 ELSE anchor + ConvertClock(q - anchorMedia, s, Micro)
    BY <1>1, <1>4, <2>3
  <2> QED
    BY <1>1, <2>2, <2>4
<1> QED
  BY <1>6, <1>8

-----------------------------------------------------------------------------
(* A step that leaves the samples and the jump alone: the clock goes on.      *)
LEMMA TimeGoesOn ==
  ASSUME SourceShape, PaceShape, UNCHANGED <<conf, nr, loopDur, jump>>, now' \in Nat, now <= now'
  PROVE  /\ \A m, x, y \in Nat : \A n : x <= y /\ InTime(m, x, n) => InTime(m, y, n)'
         /\ \A x, y \in Nat : x <= y /\ Ready(x) => Ready(y)'
         /\ RoundOver => RoundOver'
         /\ sent' = sent /\ OnTime => OnTime'
<1>1. /\ Base' = Base /\ (First' <=> First) /\ \A t : Media(t)' = Media(t) /\ (Left(t)' <=> Left(t))
      /\ \A t, n : MediaAt(t, n)' = MediaAt(t, n)
  BY SameTracks
<1>2. Base \in T /\ Total(Base) \in 1 .. Total(Base) /\ now \in Nat
  BY ConfIs DEF PaceShape
<1>3. ASSUME NEW m \in Nat, NEW x \in Nat, NEW y \in Nat, NEW n, x <= y, InTime(m, x, n)
      PROVE  InTime(m, y, n)'
  <2>1. InTime(m, y, n)
    BY <1>3, LaterInTime
  <2>2. m - ConvertClock(jump'.media, Scale(Base), Micro) <= y - jump'.time + Slack(n)
    BY <2>1 DEF InTime, Scale
  <2> QED
    BY <2>2, InTimeNext
<1>4. ASSUME NEW x \in Nat, NEW y \in Nat, x <= y, Ready(x) PROVE Ready(y)'
  <2>1. SUFFICES ASSUME Left(Base), First PROVE InTime(Media(Base), y, nr[Base])'
    BY <1>1 DEF Ready
  <2>2. nr[Base] \in 1 .. Total(Base)
    BY <1>2, <2>1 DEF Left, SourceShape
  <2>3. PICK m \in Nat : m = Media(Base)
    BY <1>2, <2>2, MediaRises
  <2>4. PICK n : n = nr[Base]
    OBVIOUS
  <2>5. InTime(m, x, n)
    BY <1>4, <2>1, <2>3, <2>4 DEF Ready
  <2>6. InTime(m, y, n)'
    BY <1>3, <1>4, <2>5
  <2>7. Media(Base)' = m /\ nr'[Base'] = n
    BY <1>1, <2>3, <2>4
  <2> QED
    BY <2>6, <2>7
<1>5. ASSUME RoundOver PROVE RoundOver'
  <2>1. SUFFICES ASSUME conf.repeat, ~Left(Base) PROVE InTime(MediaAt(Base, Total(Base)), now, 2)'
    BY <1>1 DEF RoundOver
  <2>2. PICK m \in Nat : m = MediaAt(Base, Total(Base))
    BY <1>2, MediaRises
  <2>3. InTime(m, now, 2)
    BY <1>5, <2>1, <2>2 DEF RoundOver
  <2>4. PICK x \in Nat : x = now
    BY <1>2
  <2>5. PICK y \in Nat : y = now' /\ x <= y
    BY <2>4
  <2>6. InTime(m, y, 2)'
    BY <1>3, <2>3, <2>4, <2>5
  <2>7. MediaAt(Base, Total(Base))' = m
    BY <1>1, <2>2
  <2> QED
    BY <2>5, <2>6, <2>7
<1>6. ASSUME sent' = sent, OnTime PROVE OnTime'
  <2>1. SUFFICES ASSUME sent.track = Base PROVE InTime(sent.media, now, sent.header)'
    BY <1>1, <1>6 DEF OnTime
  <2>2. PICK m \in Nat : m = sent.media
    BY <1>2, <2>1, ConfIs DEF PaceShape
  <2>3. PICK n : n = sent.header
    OBVIOUS
  <2>4. InTime(m, now, n)
    BY <1>6, <2>1, <2>2, <2>3 DEF OnTime
  <2>5. PICK x \in Nat : x = now
    BY <1>2
  <2>6. PICK y \in Nat : y = now' /\ x <= y
    BY <2>5
  <2>7. InTime(m, y, n)'
    BY <1>3, <2>4, <2>5, <2>6
  <2>8. sent'.media = m /\ sent'.header = n
    BY <1>6, <2>2, <2>3
  <2> QED
    BY <2>6, <2>7, <2>8
<1> QED
  BY <1>3, <1>4, <1>5, <1>6

(* What neither sends nor chooses nor jumps.                                  *)
LEMMA QuietIs ==
  ASSUME SourceShape, PaceShape, \/ StartFails \/ StopCalled \/ StopReturns \/ FileEnds \/ Idle
                                 \/ Exits \/ WakesUp \/ Tick \/ Pause \/ UNCHANGED vars
  PROVE  /\ UNCHANGED <<conf, nr, loopDur, tr, epoch, picked, sent, jump, anchored, anchor,
                        anchorMedia, header, until>>
         /\ now' \in Nat /\ now <= now' /\ starts' \in Nat /\ starts <= starts'
         /\ \/ loop' = loop \/ loop' = "none" \/ (loop = "pick" /\ loop' = "idle")
            \/ loop' = "pick" /\ (loop = "idle" \/ (loop = "paced" /\ now >= until))
         /\ loop = "none" => loop' = "none"
         /\ Playing' => Playing
<1>1. now \in Nat /\ starts \in Nat /\ play \in [T -> BOOLEAN]
  BY DEF SourceShape, PaceShape
<1>2. /\ UNCHANGED <<conf, nr, loopDur, tr, epoch, picked, sent, jump, anchored, anchor,
                     anchorMedia, header, until>>
      /\ now' = now \/ now' = now + 1
      /\ starts' = starts \/ starts' = starts + 1
      /\ \/ loop' = loop \/ loop' = "none" \/ (loop = "pick" /\ loop' = "idle")
         \/ loop' = "pick" /\ (loop = "idle" \/ (loop = "paced" /\ now >= until))
      /\ loop = "none" => loop' = "none"
      /\ play' = play \/ play' = [t \in T |-> FALSE]
  BY DEF StartFails, StopCalled, StopReturns, FileEnds, Idle, Exits, WakesUp, Tick, Pause,
         vars, tracks, pacing, history
<1>3. now' \in Nat /\ now <= now' /\ starts' \in Nat /\ starts <= starts'
  BY <1>1, <1>2
<1>4. Playing' => Playing
  BY <1>2, TracksAre DEF Playing
<1> QED
  BY <1>2, <1>3, <1>4

LEMMA QuietPace ==
  ASSUME PaceInv, SourceShape', \/ StartFails \/ StopCalled \/ StopReturns \/ FileEnds \/ Idle
                                \/ Exits \/ WakesUp \/ Tick \/ Pause \/ UNCHANGED vars
  PROVE  PaceInv'
<1>1. SourceShape /\ PaceShape /\ AnchorTrue /\ (starts <= 1 /\ Playing => Due)
  BY DEF PaceInv
<1>2. /\ UNCHANGED <<conf, nr, loopDur, tr, epoch, picked, sent, jump, anchored, anchor,
                     anchorMedia, header, until>>
      /\ now' \in Nat /\ now <= now' /\ starts' \in Nat /\ starts <= starts'
      /\ \/ loop' = loop \/ loop' = "none" \/ (loop = "pick" /\ loop' = "idle")
         \/ loop' = "pick" /\ (loop = "idle" \/ (loop = "paced" /\ now >= until))
      /\ loop = "none" => loop' = "none"
      /\ Playing' => Playing
  BY <1>1, QuietIs
<1>3. now \in Nat /\ starts \in Nat /\ until \in Nat /\ jump.time \in Nat /\ jump.time <= now
  BY <1>1 DEF PaceShape
<1>4. PaceShape'
  <2>1. jump'.time <= now'
    BY <1>2, <1>3
  <2>2. starts' = 0 => starts = 0
    BY <1>2, <1>3
  <2> QED
    BY <1>1, <1>2, <2>1, <2>2 DEF PaceShape
<1>5. AnchorTrue'
  <2>1. starts' <= 1 => starts <= 1
    BY <1>2, <1>3
  <2>2. Base' = Base /\ Position(1)' = Position(1)
    BY <1>2, SameTracks
  <2>3. loop' \in {"next", "count", "read"} => loop \in {"next", "count", "read"}
    BY <1>2
  <2> QED
    BY <1>1, <1>2, <2>1, <2>2, <2>3 DEF AnchorTrue
<1>6. ASSUME starts' <= 1, Playing' PROVE Due'
  <2>1. Due
    BY <1>1, <1>2, <1>3, <1>6
  <2>2. /\ \A m, x, y \in Nat : \A n : x <= y /\ InTime(m, x, n) => InTime(m, y, n)'
        /\ \A x, y \in Nat : x <= y /\ Ready(x) => Ready(y)'
        /\ RoundOver => RoundOver'
        /\ sent' = sent /\ OnTime => OnTime'
    BY <1>1, <1>2, TimeGoesOn
  <2>3. /\ Base' = Base /\ \A n : Position(n)' = Position(n)
        /\ \A t, n : MediaAt(t, n)' = MediaAt(t, n)
    BY <1>2, SameTracks
  <2>4. PICK x \in Nat : x = now
    BY <1>3
  <2>5. PICK y \in Nat : y = now' /\ x <= y
    BY <1>2, <2>4
  <2>6. PICK w \in Nat : w = until /\ w = until'
    BY <1>2, <1>3
  <2>7. Ready(now) => Ready(now)'
    <3>1. Ready(x) => Ready(y)'
      BY <2>2, <2>5
    <3> QED
      BY <2>4, <2>5, <3>1
  <2>8. Ready(until) => Ready(until)'
    <3>1. Ready(w) => Ready(w)'
      BY <2>2, <2>6
    <3> QED
      BY <2>6, <3>1
  <2>9. now >= until /\ Ready(until) => Ready(now)'
    <3>1. w <= x => w <= y
      BY <2>5
    <3>2. w <= y /\ Ready(w) => Ready(y)'
      BY <2>2
    <3> QED
      BY <2>4, <2>5, <2>6, <3>1, <3>2
  <2>10. MayGo'
    BY <1>2, <2>1, <2>7, <2>9 DEF Due, MayGo, Waits
  <2>11. Waits'
    BY <1>2, <2>1, <2>7, <2>8 DEF Due, Waits
  <2>12. Chosen'
    <3>1. SUFFICES ASSUME loop' \in {"next", "count", "read"}, tr = Base, picked = epoch
                   PROVE  InTime(MediaAt(Base, InHand), now, InHand)'
      BY <1>2, <2>3 DEF Chosen
    <3>2. loop' = loop /\ loop \in {"next", "count", "read"} /\ InHand' = InHand
      BY <1>2, <3>1 DEF InHand
    <3>3. InHand \in 1 .. Total(Base)
      BY <1>1, <3>1, <3>2, ConfIs DEF InHand, PaceShape, SourceShape
    <3>4. PICK m \in Nat : m = MediaAt(Base, InHand)
      BY <1>1, <3>3, ConfIs, MediaRises
    <3>5. PICK n : n = InHand
      OBVIOUS
    <3>6. InTime(m, x, n)
      BY <2>1, <2>4, <3>1, <3>2, <3>4, <3>5 DEF Due, Chosen
    <3>7. InTime(m, y, n)'
      BY <2>2, <2>5, <3>6
    <3>8. MediaAt(Base, InHand)' = m /\ InHand' = n
      BY <2>3, <3>2, <3>4, <3>5
    <3> QED
      BY <2>5, <3>7, <3>8
  <2>13. Overtaken'
    BY <1>2, <2>1, <2>3 DEF Due, Overtaken
  <2>14. RoundOver' /\ OnTime'
    BY <1>2, <2>1, <2>2 DEF Due
  <2> QED
    BY <2>10, <2>11, <2>12, <2>13, <2>14 DEF Due
<1> QED
  BY <1>4, <1>5, <1>6 DEF PaceInv

(* The frame chosen may go.                                                   *)
LEMMA PickPace == ASSUME PaceInv, SourceShape', Pick PROVE PaceInv'
<1>1. SourceShape /\ PaceShape /\ AnchorTrue /\ (starts <= 1 /\ Playing => Due)
  BY DEF PaceInv
<1>2. /\ loop = "pick" /\ Sending # {} /\ tr' = Earliest(Sending) /\ loop' = "next" /\ picked' = epoch
      /\ UNCHANGED <<conf, nr, loopDur, play, now, header, until, starts, epoch, jump, sent>>
      /\ IF anchored THEN UNCHANGED <<anchored, anchor, anchorMedia>>
         ELSE anchored' = TRUE /\ anchor' = now /\ anchorMedia' = AnchorAt(nr[Base])
  BY DEF Pick, tracks, pacing
<1>3. tr' \in Sending /\ \A t \in Sending : Media(tr') <= Media(t)
  BY <1>1, <1>2, EarliestIs
<1>4. tr' \in T /\ nr[tr'] \in 1 .. Total(tr')
  BY <1>1, <1>3, SendingIs
<1>5. now \in Nat /\ starts \in Nat /\ jump.time \in Nat /\ jump.time <= now /\ starts # 0
      /\ nr[Base] \in 1 .. Total(Base) + 1
  BY <1>1, <1>2, ConfIs DEF PaceShape, SourceShape
<1>6. AnchorAt(nr[Base]) \in Nat
  <2>1. \A n \in 1 .. Total(Base) + 1 : Position(n) \in Nat
    BY <1>1, BaseMedia
  <2> QED
    BY <1>1, <1>5, <2>1, BaseMedia DEF AnchorAt
<1>7. PaceShape'
  <2>1. anchored' \in BOOLEAN /\ anchor' \in Nat /\ anchorMedia' \in Nat
    BY <1>1, <1>2, <1>5, <1>6 DEF PaceShape
  <2>2. \A t \in T : nr'[t] <= Total(t) + 1
    BY <1>1, <1>2 DEF PaceShape
  <2>3. nr'[tr'] <= Total(tr')
    BY <1>2, <1>4
  <2> QED
    BY <1>1, <1>2, <1>5, <2>1, <2>2, <2>3 DEF PaceShape
<1>8. AnchorTrue'
  <2>1. Base' = Base /\ Position(1)' = Position(1)
    BY <1>2, SameTracks
  <2>2. CASE anchored
    BY <1>1, <1>2, <2>1, <2>2 DEF AnchorTrue
  <2>3. CASE ~anchored
    <3>1. SUFFICES ASSUME starts <= 1 PROVE anchorMedia' <= jump.media
      BY <1>2, <1>5, <2>3 DEF AnchorTrue
    <3>2. nr[Base] = 1 /\ Position(1) <= jump.media
      BY <1>1, <2>3, <3>1 DEF AnchorTrue
    <3>3. 1 <= Total(Base)
      BY <1>1, ConfIs
    <3> QED
      BY <1>2, <2>3, <3>2, <3>3 DEF AnchorAt
  <2> QED
    BY <2>2, <2>3
<1>9. ASSUME starts' <= 1, Playing' PROVE Due'
  <2>1. Due /\ Playing
    BY <1>1, <1>2, <1>9 DEF Playing
  <2>2. (RoundOver => RoundOver') /\ (sent' = sent /\ OnTime => OnTime')
    BY <1>1, <1>2, <1>5, TimeGoesOn
  <2>3. \A m, x, y \in Nat : \A n : x <= y /\ InTime(m, x, n) => InTime(m, y, n)'
    BY <1>1, <1>2, <1>5, TimeGoesOn
  <2>4. Base' = Base /\ \A t, n : MediaAt(t, n)' = MediaAt(t, n)
    BY <1>2, SameTracks
  <2>5. MayGo' /\ Waits' /\ Overtaken'
    BY <1>2 DEF MayGo, Waits, Overtaken
  <2>6. Chosen'
    <3>1. SUFFICES ASSUME tr' = Base PROVE InTime(MediaAt(Base, InHand), now, InHand)'
      BY <2>4 DEF Chosen
    <3>2. Left(Base) /\ First
      <4>1. \A t \in T : Left(t) => t \in Sending
        BY <2>1 DEF Sending, Playing
      <4> QED
        BY <1>3, <3>1, <4>1 DEF First, Sending
    <3>3. InTime(Media(Base), now, nr[Base])
      BY <1>2, <2>1, <3>2 DEF Due, MayGo, Ready
    <3>4. PICK m \in Nat : m = Media(Base) /\ m = MediaAt(Base, nr[Base])
      BY <1>1, <1>4, <3>1, MediaRises
    <3>5. PICK n : n = nr[Base]
      OBVIOUS
    <3>6. PICK x \in Nat : x = now /\ x = now'
      BY <1>2, <1>5
    <3>7. InTime(m, x, n)' 
      BY <2>3, <3>3, <3>4, <3>5, <3>6
    <3>8. InHand' = n
      BY <1>2, <3>1, <3>5 DEF InHand
    <3>9. MediaAt(Base, InHand)' = m
      BY <2>4, <3>4, <3>5, <3>8
    <3> QED
      BY <3>6, <3>7, <3>8, <3>9
  <2> QED
    BY <2>1, <2>2, <1>2, <2>5, <2>6 DEF Due
<1> QED
  BY <1>7, <1>8, <1>9 DEF PaceInv

LEMMA HeaderPace == ASSUME PaceInv, SourceShape', ReadsHeader PROVE PaceInv'
<1>1. SourceShape /\ PaceShape /\ AnchorTrue /\ (starts <= 1 /\ Playing => Due)
  BY DEF PaceInv
<1>2. /\ loop = "next" /\ loop' = "count" /\ header' = nr[tr]
      /\ UNCHANGED <<conf, nr, loopDur, play, tr, now, until, starts, epoch, picked, jump, sent,
                     anchored, anchor, anchorMedia>>
  BY DEF ReadsHeader, tracks, pacing, history
<1>3. now \in Nat /\ tr \in T /\ nr[tr] \in 1 .. Total(tr)
  BY <1>1, <1>2, ConfIs DEF PaceShape, SourceShape
<1>4. PaceShape'
  <2>1. header' \in 1 .. Total(tr') /\ nr'[tr'] = header' /\ nr'[tr'] <= Total(tr')
    BY <1>2, <1>3
  <2>2. starts # 0
    BY <1>1, <1>2 DEF PaceShape
  <2> QED
    BY <1>1, <1>2, <2>1, <2>2 DEF PaceShape
<1>5. AnchorTrue'
  <2>1. Base' = Base /\ Position(1)' = Position(1)
    BY <1>2, SameTracks
  <2> QED
    BY <1>1, <1>2, <2>1 DEF AnchorTrue
<1>6. ASSUME starts' <= 1, Playing' PROVE Due'
  <2>1. Due
    BY <1>1, <1>2, <1>6 DEF Playing
  <2>2. (RoundOver => RoundOver') /\ (sent' = sent /\ OnTime => OnTime')
    BY <1>1, <1>2, <1>3, TimeGoesOn
  <2>3. \A m, x, y \in Nat : \A n : x <= y /\ InTime(m, x, n) => InTime(m, y, n)'
    BY <1>1, <1>2, <1>3, TimeGoesOn
  <2>4. /\ Base' = Base /\ \A t, n : MediaAt(t, n)' = MediaAt(t, n)
        /\ \A n : Position(n)' = Position(n)
    BY <1>2, SameTracks
  <2>5. MayGo' /\ Waits' /\ Overtaken'
    BY <1>2, <2>1, <2>4 DEF MayGo, Waits, Overtaken, Due
  <2>6. Chosen'
    <3>1. SUFFICES ASSUME tr = Base, picked = epoch
                   PROVE  InTime(MediaAt(Base, InHand), now, InHand)'
      BY <1>2, <2>4 DEF Chosen
    <3>2. InHand' = InHand /\ InHand = nr[tr]
      BY <1>2 DEF InHand
    <3>3. PICK n : n = InHand
      OBVIOUS
    <3>4. PICK m \in Nat : m = MediaAt(Base, n)
      BY <1>1, <1>3, <3>1, <3>2, <3>3, MediaRises
    <3>5. PICK x \in Nat : x = now /\ x = now'
      BY <1>2, <1>3
    <3>6. InTime(m, x, n)
      BY <1>2, <2>1, <3>1, <3>3, <3>4, <3>5 DEF Due, Chosen
    <3>7. InTime(m, x, n)'
      BY <2>3, <3>6
    <3>8. InHand' = n /\ MediaAt(Base, InHand)' = m
      BY <2>4, <3>2, <3>3, <3>4
    <3> QED
      BY <3>5, <3>7, <3>8
  <2> QED
    BY <1>2, <2>1, <2>2, <2>5, <2>6 DEF Due
<1> QED
  BY <1>4, <1>5, <1>6 DEF PaceInv

LEMMA SameBounds ==
  ASSUME UNCHANGED <<conf, jump>>
  PROVE  Base' = Base /\ \A m, x, n : InTime(m, x, n)' <=> InTime(m, x, n)
<1>1. ASSUME NEW m, NEW x, NEW n PROVE InTime(m, x, n)' <=> InTime(m, x, n)
  <2>1. InTime(m, x, n)' <=>
          m - ConvertClock(jump'.media, Scale(Base), Micro) <= x - jump'.time + Slack(n)
    BY InTimeNext
  <2> QED
    BY <2>1 DEF InTime, Scale
<1> QED
  BY <1>1, InTimeNext

(* The base track may be through: then its last sample was the one chosen, or *)
(* lies before the jump that came after the choice.                           *)
LEMMA CountPace == ASSUME TwoSamples, PaceInv, SourceShape', Counts PROVE PaceInv'
<1>1. SourceShape /\ PaceShape /\ AnchorTrue /\ (starts <= 1 /\ Playing => Due)
  BY DEF PaceInv
<1>2. /\ loop = "count" /\ loop' = "read" /\ nr' = [nr EXCEPT ![tr] = @ + 1]
      /\ UNCHANGED <<conf, loopDur, play, tr, header, now, until, starts, epoch, picked, jump, sent,
                     anchored, anchor, anchorMedia>>
  BY DEF Counts, pacing, history
<1>3. /\ now \in Nat /\ tr \in T /\ nr[tr] \in 1 .. Total(tr) /\ nr \in [T -> Nat \ {0}]
      /\ Total(tr) \in Nat
  BY <1>1, <1>2, ConfIs DEF PaceShape, SourceShape
<1>4. nr'[tr] = nr[tr] + 1 /\ \A t \in T : t # tr => nr'[t] = nr[t]
  BY <1>2, <1>3
<1>5. PaceShape'
  <2>1. \A t \in T : nr'[t] <= Total(t) + 1
    <3>1. nr'[tr] <= Total(tr) + 1
      BY <1>3, <1>4
    <3> QED
      BY <1>1, <1>4, <3>1 DEF PaceShape
  <2>2. starts # 0 /\ (picked = epoch => header \in 1 .. Total(tr))
    BY <1>1, <1>2 DEF PaceShape
  <2> QED
    BY <1>1, <1>2, <2>1, <2>2 DEF PaceShape
<1>6. AnchorTrue'
  BY <1>1, <1>2 DEF AnchorTrue
<1>7. ASSUME starts' <= 1, Playing' PROVE Due'
  <2>1. Due
    BY <1>1, <1>2, <1>7 DEF Playing
  <2>2. Base' = Base /\ Base \in T /\ \A m, x, n : InTime(m, x, n)' <=> InTime(m, x, n)
    BY <1>1, <1>2, SameBounds, ConfIs
  <2>3. \A t, n : MediaAt(t, n)' = MediaAt(t, n)
    BY <1>2 DEF MediaAt, DecodeTime
  <2>4. MayGo' /\ Waits' /\ Overtaken'
    BY <1>2 DEF MayGo, Waits, Overtaken
  <2>5. OnTime'
    BY <1>2, <2>1, <2>2 DEF Due, OnTime
  <2>6. Chosen'
    <3>1. SUFFICES ASSUME tr = Base, picked = epoch
                   PROVE  InTime(MediaAt(Base, InHand), now, InHand)'
      BY <1>2, <2>2 DEF Chosen
    <3>2. PICK n : n = header
      OBVIOUS
    <3>3. PICK m : m = MediaAt(Base, n)
      OBVIOUS
    <3>4. PICK x : x = now
      OBVIOUS
    <3>5. InHand = n /\ InHand' = n
      BY <1>2, <3>2 DEF InHand
    <3>6. InTime(m, x, n)
      BY <1>2, <2>1, <3>1, <3>3, <3>4, <3>5 DEF Due, Chosen
    <3>7. InTime(m, x, n)'
      BY <2>2, <3>6
    <3>8. MediaAt(Base, InHand)' = m /\ now' = x
      BY <1>2, <2>2, <2>3, <3>3, <3>4, <3>5
    <3> QED
      BY <3>5, <3>7, <3>8
  <2>7. RoundOver'
    <3>1. SUFFICES ASSUME conf.repeat, ~Left(Base)'
                   PROVE  InTime(MediaAt(Base, Total(Base)), now, 2)
      <4>1. PICK m : m = MediaAt(Base, Total(Base))
        OBVIOUS
      <4>2. PICK x : x = now
        OBVIOUS
      <4>3. InTime(m, x, 2)' <=> InTime(m, x, 2)
        BY <2>2
      <4>4. MediaAt(Base, Total(Base))' = m /\ now' = x
        BY <1>2, <2>2, <2>3, <4>1, <4>2
      <4> QED
        BY <1>2, <4>1, <4>2, <4>3, <4>4 DEF RoundOver
    <3>2. CASE tr # Base
      <4>1. ~Left(Base)
        BY <1>4, <2>2, <3>1, <3>2 DEF Left
      <4> QED
        BY <2>1, <3>1, <4>1 DEF Due, RoundOver
    <3>3. CASE tr = Base /\ picked = epoch
      <4>1. nr[Base] = Total(Base) /\ header = Total(Base)
        BY <1>1, <1>2, <1>3, <1>4, <2>2, <3>1, <3>3 DEF Left, PaceShape
      <4>2. InTime(MediaAt(Base, Total(Base)), now, Total(Base))
        BY <1>2, <2>1, <3>3, <4>1 DEF Due, Chosen, InHand
      <4>3. Total(Base) > 1
        BY <1>1, <3>1, ConfIs DEF TwoSamples, SourceShape
      <4>4. Slack(Total(Base)) = Slack(2)
        <5>1. \A n : n # 1 => Slack(n) = Rounding
          BY <1>1, SlackIs
        <5>2. Total(Base) # 1 /\ 2 # 1
          BY <1>1, <4>3, ConfIs
        <5> QED
          BY <5>1, <5>2
      <4> QED
        BY <4>2, <4>4 DEF InTime
    <3>4. CASE tr = Base /\ picked # epoch
      <4>1. nr[Base] = Total(Base)
        BY <1>3, <1>4, <2>2, <3>1, <3>4 DEF Left
      <4>2. Position(Total(Base)) <= jump.media
        BY <1>2, <2>1, <3>4, <4>1 DEF Due, Overtaken
      <4>3. PICK p \in Nat : /\ p = Position(Total(Base))
                             /\ MediaAt(Base, Total(Base)) = ConvertClock(p, Scale(Base), Micro)
        <5>1. Total(Base) \in 1 .. Total(Base) + 1
          BY <1>1, ConfIs
        <5> QED
          BY <1>1, <5>1, BaseMedia
      <4>4. InTime(ConvertClock(p, Scale(Base), Micro), now, 2)
        BY <1>1, <4>2, <4>3, AtJump
      <4> QED
        BY <4>3, <4>4
    <3> QED
      BY <3>2, <3>3, <3>4
  <2> QED
    BY <2>4, <2>5, <2>6, <2>7 DEF Due
<1> QED
  BY <1>5, <1>6, <1>7 DEF PaceInv

(* The next sample of all may go at the end of the wait.                      *)
LEMMA TargetReady ==
  ASSUME SourceShape, PaceShape, AnchorTrue, starts <= 1, anchored
  PROVE  Ready(Target)
<1>1. SUFFICES ASSUME Left(Base), First PROVE InTime(Media(Base), Target, nr[Base])
  BY DEF Ready
<1>2. PICK s \in Nat \ {0} : s = Scale(Base) /\ s = Tracks[Base].scale
  BY ConfIs DEF Scale
<1>3. Micro \in Nat \ {0}
  BY ConfIs
<1>4. nr[Base] \in 1 .. Total(Base) + 1
  BY <1>1, ConfIs DEF Left, SourceShape
<1>5. PICK p \in Nat : p = Position(nr[Base]) /\ Media(Base) = ConvertClock(p, s, Micro)
  BY <1>2, <1>4, BaseMedia
<1>6. PICK am \in Nat : am = anchorMedia
  BY DEF PaceShape
<1>7. PICK jm \in Nat : jm = jump.media /\ am <= jm
  BY <1>6 DEF PaceShape, AnchorTrue
<1>8. PICK q \in Nat : /\ q = ConvertClock(ConvertClock(p, s, Micro), Micro, s)
                       /\ Target = IF q <= am THEN now ELSE anchor + ConvertClock(q - am, s, Micro)
  BY <1>1, <1>2, <1>5, <1>6, TargetIs
<1>9. PICK u \in Nat : u = IF q <= am THEN 0 ELSE ConvertClock(q - am, s, Micro)
  <2>1. ASSUME ~(q <= am) PROVE ConvertClock(q - am, s, Micro) \in Nat
    <3>1. q - am \in Nat
      BY <2>1
    <3> QED
      BY <1>3, <3>1, Rounds
  <2> QED
    BY <2>1
<1>10. ConvertClock(p, s, Micro) - ConvertClock(jm, s, Micro)
         <= u + (IF Micro % s = 0 THEN 0 ELSE ConvertClock(1, s, Micro) + 2)
  BY <1>3, <1>7, <1>8, <1>9, DueIsLate
<1>11. PICK r \in Nat : r = Rounding /\ r = IF Micro % s = 0 THEN 0 ELSE ConvertClock(1, s, Micro) + 2
  <2>1. ConvertClock(1, s, Micro) \in Nat
    BY <1>3, Rounds
  <2>2. ConvertClock(1, s, Micro) + 2 \in Nat
    BY <2>1
  <2> QED
    BY <1>2, <2>2 DEF Rounding
<1>12. PICK k \in Nat : k = Slack(nr[Base]) /\ r <= k
  BY <1>11, SlackIs
<1>13. PICK tm \in Nat : tm = jump.time
  BY DEF PaceShape
<1>14. PICK x \in Nat : x = Target /\ tm + u <= x
  <2>1. CASE q <= am
    BY <1>8, <1>9, <1>13, <2>1 DEF PaceShape
  <2>2. CASE ~(q <= am)
    <3>1. anchor \in Nat /\ tm <= anchor
      BY <1>13 DEF PaceShape, AnchorTrue
    <3>2. Target = anchor + u
      BY <1>8, <1>9, <2>2
    <3> QED
      BY <3>1, <3>2
  <2> QED
    BY <2>1, <2>2
<1>15. PICK a \in Nat : a = ConvertClock(p, s, Micro)
  BY <1>3, Rounds
<1>16. PICK b \in Nat : b = ConvertClock(jm, s, Micro)
  BY <1>3, Rounds
<1>17. a - b <= u + r
  BY <1>10, <1>11, <1>15, <1>16
<1>18. a - b <= x - tm + k
  BY <1>12, <1>14, <1>17
<1> QED
  BY <1>2, <1>5, <1>7, <1>12, <1>13, <1>14, <1>15, <1>16, <1>18 DEF InTime

LEMMA EmitPace == ASSUME PaceInv, SourceShape', Emit PROVE PaceInv'
<1>1. SourceShape /\ PaceShape /\ AnchorTrue /\ (starts <= 1 /\ Playing => Due)
  BY DEF PaceInv
<1>2. /\ loop = "read" /\ loop' = "paced" /\ until' = Target
      /\ sent'.track = (IF picked = epoch THEN tr ELSE 0)
      /\ sent'.header = header /\ sent'.media = MediaAt(tr, header)
      /\ UNCHANGED <<conf, nr, loopDur, play, tr, header, now, starts, epoch, picked, jump,
                     anchored, anchor, anchorMedia>>
  BY DEF Emit, tracks, pacing, MediaAt
<1>3. now \in Nat /\ tr \in T /\ starts # 0
  BY <1>1, <1>2 DEF PaceShape, SourceShape
<1>4. Target \in Nat
  BY <1>1, TargetIs
<1>5. sent'.track # 0 => picked = epoch /\ sent'.track = tr /\ header \in 1 .. Total(tr)
  BY <1>1, <1>2 DEF PaceShape
<1>6. PaceShape'
  <2>1. sent'.track # 0 => sent'.media \in Nat
    BY <1>1, <1>2, <1>3, <1>5, MediaRises
  <2> QED
    BY <1>1, <1>2, <1>3, <1>4, <2>1 DEF PaceShape
<1>7. AnchorTrue'
  <2>1. starts <= 1 => anchored
    BY <1>1, <1>2 DEF AnchorTrue
  <2> QED
    BY <1>1, <1>2, <2>1 DEF AnchorTrue
<1>8. ASSUME starts' <= 1, Playing' PROVE Due'
  <2>1. Due
    BY <1>1, <1>2, <1>8 DEF Playing
  <2>2. /\ RoundOver => RoundOver'
        /\ \A m, x, y \in Nat : \A n : x <= y /\ InTime(m, x, n) => InTime(m, y, n)'
        /\ \A x, y \in Nat : x <= y /\ Ready(x) => Ready(y)'
    BY <1>1, <1>2, <1>3, TimeGoesOn
  <2>3. Base' = Base
    BY <1>2, SameTracks
  <2>4. MayGo' /\ Chosen' /\ Overtaken'
    BY <1>2 DEF MayGo, Chosen, Overtaken
  <2>5. Waits'
    <3>1. anchored /\ starts <= 1
      BY <1>1, <1>2, <1>8 DEF AnchorTrue
    <3>2. PICK x \in Nat : x = Target
      BY <1>4
    <3>3. Ready(x)
      BY <1>1, <3>1, <3>2, TargetReady
    <3>4. Ready(x)'
      BY <2>2, <3>3
    <3>5. until' = x
      BY <1>2, <3>2
    <3> QED
      BY <3>4, <3>5 DEF Waits
  <2>6. OnTime'
    <3>1. SUFFICES ASSUME sent'.track = Base PROVE InTime(sent.media, now, sent.header)'
      BY <2>3 DEF OnTime
    <3>2. sent'.track # 0 /\ Base \in T
      BY <1>1, <3>1, ConfIs
    <3>3. picked = epoch /\ tr = Base /\ header \in 1 .. Total(Base)
      BY <1>5, <3>1, <3>2
    <3>4. PICK m \in Nat : m = MediaAt(Base, header)
      BY <1>1, <3>2, <3>3, MediaRises
    <3>5. PICK x \in Nat : x = now /\ x = now'
      BY <1>2, <1>3
    <3>6. PICK n : n = header
      OBVIOUS
    <3>7. InTime(m, x, n)
      BY <1>2, <2>1, <3>3, <3>4, <3>5, <3>6 DEF Due, Chosen, InHand
    <3>8. InTime(m, x, n)'
      BY <2>2, <3>7
    <3>9. sent'.media = m /\ sent'.header = n
      BY <1>2, <3>3, <3>4, <3>6
    <3> QED
      BY <3>5, <3>8, <3>9
  <2> QED
    BY <2>1, <2>2, <2>4, <2>5, <2>6 DEF Due
<1> QED
  BY <1>6, <1>7, <1>8 DEF PaceInv

(* A new round may begin, early by what the last sample should have lasted.   *)
LEMMA WrapPace == ASSUME PaceInv, SourceShape', Wrap PROVE PaceInv'
<1>1. SourceShape /\ PaceShape /\ AnchorTrue /\ (starts <= 1 /\ Playing => Due)
  BY DEF PaceInv
<1>2. /\ loop = "pick" /\ loop' = "idle" /\ ~Left(Base) /\ conf.repeat /\ AlignLoopDuration
      /\ UNCHANGED <<conf, play, tr, header, now, until, starts, epoch, picked, jump, sent,
                     anchored, anchor, anchorMedia>>
  BY DEF Wrap, pacing, history
<1>3. /\ nr' = [t \in T |-> 1] /\ loopDur'[Base] = loopDur[Base] + TotalDuration(Base)
      /\ Base' = Base /\ Base \in T /\ nr'[Base] = 1 /\ conf.grid \in BOOLEAN
  BY <1>1, <1>2, RoundTyped, ConfIs DEF Base
<1>4. starts # 0
  BY <1>1, <1>2 DEF PaceShape
<1>5. PaceShape'
  <2>1. \A t \in T : nr'[t] <= Total(t) + 1
    BY <1>1, <1>3, ConfIs
  <2> QED
    BY <1>1, <1>2, <1>4, <2>1 DEF PaceShape
<1>6. AnchorTrue'
  <2>1. SUFFICES ASSUME starts <= 1 PROVE anchored /\ jump.time <= anchor /\ anchorMedia <= jump.media
    BY <1>2 DEF AnchorTrue
  <2>2. nr[Base] # 1
    BY <1>1, <1>2, ConfIs DEF Left
  <2> QED
    BY <1>1, <2>1, <2>2 DEF AnchorTrue
<1>7. ASSUME starts' <= 1, Playing' PROVE Due'
  <2>1. Due
    BY <1>1, <1>2, <1>7 DEF Playing
  <2>2. \A m, x, n : InTime(m, x, n)' <=> InTime(m, x, n)
    BY <1>2, SameBounds
  <2>3. Waits' /\ Chosen' /\ Overtaken'
    BY <1>2 DEF Waits, Chosen, Overtaken
  <2>4. OnTime'
    BY <1>2, <1>3, <2>1, <2>2 DEF Due, OnTime
  <2>5. RoundOver'
    <3>1. Left(Base)'
      BY <1>1, <1>3, ConfIs DEF Left
    <3> QED
      BY <3>1 DEF RoundOver
  <2>6. MayGo'
    <3>1. PICK s \in Nat \ {0} : s = Scale(Base) /\ s = Tracks[Base].scale
      BY <1>1, ConfIs DEF Scale
    <3>2. Micro \in Nat \ {0}
      BY <1>1, ConfIs
    <3>3. PICK d \in Nat : d = LastSample
      BY <1>1, SlackIs
    <3>4. PICK x \in Nat : /\ x = Position(Total(Base))
                           /\ MediaAt(Base, Total(Base)) = ConvertClock(x, s, Micro)
      <4>1. Total(Base) \in 1 .. Total(Base) + 1
        BY <1>1, ConfIs
      <4> QED
        BY <1>1, <3>1, <4>1, BaseMedia
    <3>5. loopDur'[Base] = x + d
      BY <1>1, <1>3, <3>3, <3>4, BaseMedia
    <3>6. Media(Base)' = ConvertClock(x + d, s, Micro)
      <4>1. DecodeTime(Base, 1)' = 0
        <5>1. DecodeTime(Base, 1)' = TimeOf(conf.grid, Base, 1 - 1)
          BY <1>2, <1>3 DEF DecodeTime
        <5>2. TimeOf(conf.grid, Base, 0) = 0
          BY <1>3, TimesRise
        <5> QED
          BY <5>1, <5>2
      <4>2. Media(Base)' = ConvertClock(DecodeTime(Base, 1)' + loopDur'[Base], s, Micro)
        BY <1>3, <3>1 DEF Media
      <4>3. 0 + (x + d) = x + d
        OBVIOUS
      <4> QED
        BY <3>5, <4>1, <4>2, <4>3
    <3>7. PICK a \in Nat : a = ConvertClock(x, s, Micro)
      BY <3>2, Rounds
    <3>8. PICK e \in Nat : e = RoundedUp(LastSample) /\ ConvertClock(x + d, s, Micro) <= a + e
      <4>1. PICK e \in Nat : e = (d * Micro + s - 1) \div s
        BY <3>2, NextIsLater
      <4>2. ConvertClock(x + d, s, Micro) <= ConvertClock(x, s, Micro) + e
        BY <3>2, <4>1, NextIsLater
      <4>3. RoundedUp(LastSample) = e
        BY <3>1, <3>3, <4>1 DEF RoundedUp
      <4> QED
        BY <3>7, <4>1, <4>2, <4>3
    <3>9. PICK c \in Nat : c = ConvertClock(x + d, s, Micro) /\ c <= a + e
      <4>1. x + d \in Nat
        OBVIOUS
      <4> QED
        BY <3>2, <3>8, <4>1, Rounds
    <3>10. PICK b \in Nat : b = ConvertClock(jump.media, s, Micro)
      <4>1. jump.media \in Nat
        BY <1>1 DEF PaceShape
      <4> QED
        BY <3>2, <4>1, Rounds
    <3>11. now \in Nat /\ jump.time \in Nat
      BY <1>1 DEF PaceShape
    <3>12. PICK r \in Nat : r = Slack(2) /\ r = Rounding /\ Slack(1) = r + e
      <4>1. 2 # 1
        OBVIOUS
      <4> QED
        BY <1>1, <3>8, <4>1, SlackIs
    <3>13. a - b <= now - jump.time + r
      <4>1. InTime(MediaAt(Base, Total(Base)), now, 2)
        BY <1>2, <2>1 DEF Due, RoundOver
      <4> QED
        BY <3>1, <3>4, <3>7, <3>10, <3>12, <4>1 DEF InTime
    <3>14. c - b <= now - jump.time + (r + e)
      BY <3>9, <3>11, <3>13
    <3>15. InTime(c, now, 1)
      BY <3>1, <3>10, <3>12, <3>14 DEF InTime
    <3>16. PICK y : y = now
      OBVIOUS
    <3>17. InTime(c, y, 1)'
      BY <2>2, <3>15, <3>16
    <3>18. Media(Base)' = c /\ now' = y
      BY <1>2, <3>6, <3>9, <3>16
    <3> QED
      BY <1>3, <3>17, <3>18 DEF MayGo, Ready
  <2> QED
    BY <2>3, <2>4, <2>5, <2>6 DEF Due
<1> QED
  BY <1>5, <1>6, <1>7 DEF PaceInv

(* At a jump everything is in time.                                           *)
LEMMA AtOnce ==
  SourceShape /\ PaceShape /\ Position(nr[Base]) <= jump.media /\ sent.track = 0 /\ picked # epoch
    => Due
<1>1. SUFFICES ASSUME SourceShape, PaceShape, Position(nr[Base]) <= jump.media, sent.track = 0,
                      picked # epoch
               PROVE  Due
  OBVIOUS
<1>2. Base \in T /\ Base # 0 /\ nr[Base] \in 1 .. Total(Base) + 1 /\ Total(Base) \in Nat \ {0}
  BY <1>1, ConfIs DEF PaceShape, SourceShape
<1>3. \A n \in 1 .. Total(Base) + 1 :
        /\ Position(n) \in Nat /\ \A m \in 1 .. n : Position(m) <= Position(n)
        /\ MediaAt(Base, n) = ConvertClock(Position(n), Scale(Base), Micro)
  BY <1>1, BaseMedia
<1>4. \A p \in Nat : \A n : p <= jump.media => InTime(ConvertClock(p, Scale(Base), Micro), now, n)
  BY <1>1, AtJump
<1>5. Ready(now)
  <2>1. InTime(MediaAt(Base, nr[Base]), now, nr[Base])
    BY <1>1, <1>2, <1>3, <1>4
  <2> QED
    BY <1>1, <2>1, BaseMedia DEF Ready
<1>6. RoundOver
  <2>1. SUFFICES ASSUME ~Left(Base) PROVE InTime(MediaAt(Base, Total(Base)), now, 2)
    BY DEF RoundOver
  <2>2. nr[Base] = Total(Base) + 1
    BY <1>2, <2>1 DEF Left
  <2>3. Total(Base) \in 1 .. nr[Base] /\ Total(Base) \in 1 .. Total(Base) + 1
    BY <1>2, <2>2
  <2>4. PICK p \in Nat : p = Position(Total(Base))
    BY <1>3, <2>3
  <2>5. PICK x \in Nat : x = Position(nr[Base]) /\ p <= x
    BY <1>2, <1>3, <2>3, <2>4
  <2>6. p <= jump.media
    BY <1>1, <2>5 DEF PaceShape
  <2> QED
    BY <1>3, <1>4, <2>3, <2>4, <2>6
<1> QED
  BY <1>1, <1>2, <1>5, <1>6 DEF Due, MayGo, Waits, Chosen, Overtaken, OnTime

LEMMA AtOnceNext ==
  (SourceShape /\ PaceShape /\ Position(nr[Base]) <= jump.media /\ sent.track = 0
     /\ picked # epoch)' => Due'
  BY AtOnce, PTL

LEMMA StartPace == ASSUME PaceInv, SourceShape', Start PROVE PaceInv'
<1>1. SourceShape /\ PaceShape /\ AnchorTrue
  BY DEF PaceInv
<1>2. /\ starts' = starts + 1 /\ loop' = "pick" /\ nr' = [t \in T |-> 1]
      /\ loopDur' = [t \in T |-> 0] /\ Jump(0)
      /\ UNCHANGED <<conf, tr, header, now, until, anchored, anchor, anchorMedia>>
  BY DEF Start, pacing
<1>3. /\ jump' = [time |-> now, media |-> 0] /\ sent'.track = 0 /\ picked' = picked
      /\ epoch' = epoch + 1
  BY <1>1, <1>2 DEF Jump, SourceShape
<1>4. Base' = Base /\ Base \in T /\ conf.grid \in BOOLEAN
  BY <1>1, <1>2, ConfIs DEF Base
<1>5. Position(1)' = 0
  <2>1. DecodeTime(Base, 1)' = TimeOf(conf.grid, Base, 1 - 1)
    BY <1>2, <1>4 DEF DecodeTime
  <2>2. TimeOf(conf.grid, Base, 0) = 0
    BY <1>4, TimesRise
  <2>3. Position(1)' = 0 + DecodeTime(Base, 1)'
    BY <1>2, <1>4 DEF Position
  <2> QED
    BY <2>1, <2>2, <2>3
<1>6. now \in Nat /\ starts \in Nat /\ nr'[Base] = 1
  BY <1>1, <1>2, <1>4 DEF PaceShape
<1>7. PaceShape'
  <2>1. \A t \in T : nr'[t] <= Total(t) + 1
    BY <1>1, <1>2, ConfIs
  <2>2. starts' \in Nat /\ starts' # 0
    BY <1>2, <1>6
  <2>3. jump'.time = now' /\ jump'.media = 0
    BY <1>2, <1>3
  <2>4. jump'.time \in Nat /\ jump'.time <= now' /\ jump'.media \in Nat
    BY <1>2, <1>6, <2>3
  <2> QED
    BY <1>1, <1>2, <1>3, <2>1, <2>2, <2>4 DEF PaceShape
<1>8. AnchorTrue'
  <2>1. starts' <= 1 => ~anchored
    BY <1>1, <1>2, <1>6 DEF PaceShape
  <2>2. nr'[Base'] = 1 /\ Position(1)' <= jump'.media
    BY <1>3, <1>4, <1>5, <1>6
  <2> QED
    BY <1>2, <2>1, <2>2 DEF AnchorTrue
<1>9. Due'
  <2>1. picked' # epoch'
    BY <1>1, <1>3 DEF SourceShape
  <2>2. Position(nr[Base])' <= jump'.media
    <3>1. Position(nr[Base])' = Position(1)'
      BY <1>4, <1>6 DEF Position, DecodeTime
    <3> QED
      BY <1>3, <1>5, <3>1
  <2> QED
    BY <1>3, <1>7, <2>1, <2>2, AtOnceNext
<1> QED
  BY <1>7, <1>8, <1>9 DEF PaceInv

LEMMA SignalPace ==
  ASSUME PaceInv, SourceShape', \/ Resume
                                \/ \E t \in T : \E pts \in Points : Seek(t, pts)
  PROVE  PaceInv'
<1>1. SourceShape /\ PaceShape /\ AnchorTrue
  BY DEF PaceInv
<1>2. /\ UNCHANGED <<conf, loop, loopDur, now, tr, header, until, starts>> /\ starts > 0
      /\ Jump(Position(nr'[Base]))
      /\ \/ anchored' = TRUE /\ anchor' = now /\ anchorMedia' = AnchorAt(nr'[Base])
         \/ ~anchored /\ UNCHANGED <<nr, anchored, anchor, anchorMedia>>
  BY DEF Resume, Seek, ReAnchor, pacing
<1>3. /\ jump' = [time |-> now, media |-> Position(nr'[Base])] /\ sent'.track = 0
      /\ picked' = picked /\ epoch' = epoch + 1
  BY <1>1, <1>2 DEF Jump, SourceShape
<1>4. Base' = Base /\ Base \in T /\ \A n : Position(n)' = Position(n)
  BY <1>1, <1>2, ConfIs DEF Base, Position, DecodeTime
<1>5. /\ \A t \in T : nr'[t] \in Nat \ {0} /\ nr'[t] <= Total(t) + 1
      /\ loop \in {"next", "count"} => nr'[tr] <= Total(tr)
  <2>1. CASE Resume
    BY <1>1, <2>1 DEF Resume, PaceShape, SourceShape
  <2>2. CASE \E t \in T : \E pts \in Points : Seek(t, pts)
    <3>1. PICK t \in T, pts \in Points : Seek(t, pts)
      BY <2>2
    <3>2. PICK n \in 1 .. Total(t) : nr' = [nr EXCEPT ![t] = n]
      BY <1>1, <3>1, SoughtIs DEF SourceShape
    <3>3. nr \in [T -> Nat \ {0}] /\ tr \in T /\ Total(t) \in Nat
      BY <1>1, ConfIs DEF SourceShape
    <3>4. nr'[t] = n /\ \A u \in T : u # t => nr'[u] = nr[u]
      BY <3>2, <3>3
    <3>5. n \in Nat \ {0} /\ n <= Total(t) /\ n <= Total(t) + 1
      BY <3>3
    <3>6. ASSUME NEW u \in T PROVE nr'[u] \in Nat \ {0} /\ nr'[u] <= Total(u) + 1
      BY <1>1, <3>3, <3>4, <3>5 DEF PaceShape
    <3>7. loop \in {"next", "count"} => nr'[tr] <= Total(tr)
      BY <1>1, <3>3, <3>4, <3>5 DEF PaceShape
    <3> QED
      BY <3>6, <3>7
  <2> QED
    BY <2>1, <2>2
<1>6. now \in Nat /\ epoch \in Nat /\ nr'[Base] \in 1 .. Total(Base) + 1 /\ picked' # epoch'
  BY <1>1, <1>3, <1>4, <1>5, ConfIs DEF PaceShape, SourceShape
<1>7. PICK p \in Nat : p = Position(nr'[Base]) /\ p = jump'.media /\ Position(1) \in Nat /\ Position(1) <= p
  BY <1>1, <1>3, <1>6, BaseMedia
<1>8. AnchorAt(nr'[Base]) \in Nat /\ AnchorAt(nr'[Base]) <= p
  BY <1>1, <1>7, BaseMedia DEF AnchorAt
<1>9. PaceShape'
  <2>1. anchored' \in BOOLEAN /\ anchor' \in Nat /\ anchorMedia' \in Nat
    BY <1>1, <1>2, <1>6, <1>8 DEF PaceShape
  <2>2. jump'.time = now' /\ jump'.time \in Nat /\ jump'.time <= now' /\ jump'.media \in Nat
    BY <1>2, <1>3, <1>6, <1>7
  <2> QED
    BY <1>1, <1>2, <1>3, <1>5, <1>6, <2>1, <2>2 DEF PaceShape
<1>10. AnchorTrue'
  <2>1. CASE anchored'
    <3>1. anchor' = now /\ anchorMedia' = AnchorAt(nr'[Base])
      BY <1>2, <2>1
    <3> QED
      BY <1>3, <1>6, <1>7, <1>8, <2>1, <3>1 DEF AnchorTrue
  <2>2. CASE ~anchored'
    <3>1. ~anchored /\ nr' = nr
      BY <1>2, <2>2
    <3> QED
      BY <1>1, <1>2, <1>4, <1>7, <2>2, <3>1 DEF AnchorTrue
  <2> QED
    BY <2>1, <2>2
<1>11. Due'
  <2>1. Position(nr[Base])' <= jump'.media
    <3>1. Position(nr[Base])' = p
      BY <1>2, <1>4, <1>7 DEF Position, DecodeTime
    <3>2. jump'.media = p
      BY <1>7
    <3> QED
      BY <3>1, <3>2
  <2> QED
    BY <1>3, <1>6, <1>9, <2>1, AtOnceNext
<1> QED
  BY <1>9, <1>10, <1>11 DEF PaceInv

LEMMA PaceStep == ASSUME TwoSamples, PaceInv, [Next]_vars PROVE PaceInv'
<1>1. SourceShape'
  BY ShapeStep DEF PaceInv
<1> QED
  BY <1>1, QuietPace, PickPace, HeaderPace, CountPace, EmitPace, WrapPace, StartPace, SignalPace
     DEF Next

LEMMA InitPace == Init => PaceInv
<1>1. SUFFICES ASSUME Init PROVE PaceInv
  OBVIOUS
<1>2. SourceShape
  BY <1>1, InitSource DEF SourceInv
<1>3. /\ starts = 0 /\ ~anchored /\ loop = "none" /\ now = 0 /\ until = 0 /\ anchor = 0
      /\ anchorMedia = 0 /\ anchored = FALSE /\ jump = [time |-> 0, media |-> 0] /\ sent.track = 0
      /\ nr = [t \in T |-> 1] /\ loopDur = [t \in T |-> 0]
  BY <1>1 DEF Init
<1>4. Base \in T /\ nr[Base] = 1 /\ loopDur[Base] = 0
  BY <1>2, <1>3, ConfIs
<1>5. PaceShape
  <2>1. \A t \in T : nr[t] <= Total(t) + 1
    BY <1>2, <1>3, ConfIs
  <2>2. jump.time = 0 /\ jump.media = 0 /\ jump.time <= now
    BY <1>3
  <2>3. starts \in Nat /\ now \in Nat /\ until \in Nat /\ anchor \in Nat /\ anchorMedia \in Nat
        /\ jump.time \in Nat /\ jump.media \in Nat
    BY <1>3, <2>2
  <2>4. anchored \in BOOLEAN /\ ~anchored
    BY <1>3
  <2>5. loop = "none" /\ sent.track = 0
    BY <1>3
  <2> QED
    BY <2>1, <2>2, <2>3, <2>4, <2>5 DEF PaceShape
<1>6. AnchorTrue
  <2>1. Position(1) = 0
    BY <1>2, <1>4, BaseMedia
  <2> QED
    BY <1>3, <1>4, <2>1 DEF AnchorTrue
<1>7. Due
  <2>1. Left(Base) /\ Base # 0
    BY <1>2, <1>4, ConfIs DEF Left
  <2> QED
    BY <1>3, <2>1 DEF Due, RoundOver, MayGo, Waits, Chosen, Overtaken, OnTime
<1> QED
  BY <1>2, <1>5, <1>6, <1>7 DEF PaceInv

(* While it plays, from its first Start on, no frame of the base track of an  *)
(* MP4 input leaves before its time, but the first of a round, by what the    *)
(* last sample of the round before should have lasted (mp4_source.go:48-49),  *)
(* if its base track has two samples or more.                                 *)
THEOREM FramesPaced == ASSUME TwoSamples PROVE Spec => []Paced
<1>1. PaceInv /\ [Next]_vars => PaceInv'
  BY PaceStep
<1>2. PaceInv => Paced
  BY DEF PaceInv, Paced, Due
<1> QED
  BY <1>1, <1>2, InitPace, PTL DEF Spec
-----------------------------------------------------------------------------
(***************************************************************************)
(* The parts side by side: a step of one is a stutter of the others.         *)
(***************************************************************************)
PartsInv == PublisherInv /\ InputInv /\ WebInv

LEMMA InitParts ==
  ASSUME MaxPublishers \in Nat \ {0}, QueueCap \in Nat
  PROVE  PartsInit => PartsInv
  BY InitPublisher, InitInput, InitWeb DEF PartsInit, PartsInv

LEMMA EachAlone ==
  ASSUME [PartsNext]_allVars
  PROVE  /\ [R!Next]_(R!vars) /\ [I!Next]_(I!vars) /\ [W!Next]_(W!vars) /\ [Next]_vars
<1>1. ASSUME UNCHANGED rVars PROVE UNCHANGED R!vars
  BY <1>1 DEF rVars, R!vars
<1>2. ASSUME UNCHANGED wVars PROVE UNCHANGED W!vars
  BY <1>2 DEF wVars, W!vars
<1>3. ASSUME UNCHANGED iVars PROVE UNCHANGED I!vars
  BY <1>3 DEF iVars, I!vars
<1>4. CASE [Next]_vars /\ UNCHANGED <<rVars, wVars, iVars>>
  BY <1>1, <1>2, <1>3, <1>4
<1>5. CASE R!Next /\ UNCHANGED <<vars, wVars, iVars>>
  BY <1>2, <1>3, <1>5
<1>6. CASE W!Next /\ UNCHANGED <<vars, rVars, iVars>>
  BY <1>1, <1>3, <1>6
<1>7. CASE I!Next /\ UNCHANGED <<vars, rVars, wVars>>
  BY <1>1, <1>2, <1>7
<1>8. CASE UNCHANGED allVars
  BY <1>4, <1>8 DEF allVars
<1>9. CASE \/ Fl(Start) \/ Fl(StartFails) \/ Fl(StopCalled) \/ Fl(StopReturns) \/ Fl(Pick) \/ Fl(Wrap)
           \/ Fl(FileEnds) \/ Fl(Idle) \/ Fl(Exits) \/ Fl(ReadsHeader) \/ Fl(Counts) \/ Fl(Emit)
           \/ Fl(WakesUp) \/ Fl(Pause) \/ Fl(Resume) \/ Fl(Tick)
           \/ \E t \in T : \E pts \in Points : Fl(Seek(t, pts))
  BY <1>4, <1>9 DEF Fl, Next
<1>10. CASE \/ Rt(R!Start) \/ Rt(R!Stop) \/ Rt(R!WriteFrame) \/ Rt(R!Connect) \/ Rt(R!ConnectFails)
            \/ Rt(R!SendMetadata) \/ Rt(R!SendSequenceHeaders) \/ Rt(R!SendFrame)
            \/ Rt(R!SendFrameFails) \/ Rt(R!SkipFrame) \/ Rt(R!Break) \/ Rt(R!BackoffPasses)
  BY <1>5, <1>10 DEF Rt, R!Next
<1>11. CASE Wb(W!Start) \/ Wb(W!Configure) \/ Wb(W!Stop) \/ Wb(W!LookAtSink) \/ Wb(W!Distribute)
  BY <1>6, <1>11 DEF Wb, W!Next
<1>12. ASSUME NEW p \in Peers,
              \/ Wb(W!Offer(p)) \/ Wb(W!Negotiate(p)) \/ Wb(W!RegisterClient(p)) \/ Wb(W!Answer(p))
              \/ Wb(W!SendPacket(p)) \/ Wb(W!LoopEnds(p)) \/ Wb(W!LoopFails(p)) \/ Wb(W!PeerFails(p))
              \/ Wb(W!StateCallback(p))
       PROVE  W!Next /\ UNCHANGED <<vars, rVars, iVars>>
  BY <1>12 DEF Wb, W!Next
<1>13. CASE \/ In(I!Start) \/ In(I!StartFails) \/ In(I!SetUp) \/ In(I!Play) \/ In(I!SessionFails)
            \/ In(I!Disconnected) \/ In(I!SessionStops) \/ In(I!BackoffStops) \/ In(I!Reconnect)
            \/ In(I!ReconnectFails) \/ In(I!Break) \/ In(I!PacketsLost) \/ In(I!FragmentEnds)
  BY <1>7, <1>13 DEF In, I!Next
<1>14. ASSUME NEW s \in Stoppers, In(I!StopCalled(s)) \/ In(I!StopWaits(s)) \/ In(I!StopCloses(s))
       PROVE  I!Next /\ UNCHANGED <<vars, rVars, wVars>>
  BY <1>14 DEF In, I!Next
<1>15. ASSUME NEW unit \in {"key", "delta"}, In(I!Whole(unit)) \/ In(I!FragmentStarts(unit))
       PROVE  I!Next /\ UNCHANGED <<vars, rVars, wVars>>
  BY <1>15 DEF In, I!Next
<1>16. ASSUME NEW size \in 1 .. 2, NEW bytes \in {5, 8}, In(I!AudioPacket(size, bytes))
       PROVE  I!Next /\ UNCHANGED <<vars, rVars, wVars>>
  BY <1>16 DEF In, I!Next
<1> QED
  BY <1>6, <1>7, <1>8, <1>9, <1>10, <1>11, <1>12, <1>13, <1>14, <1>15, <1>16 DEF PartsNext

LEMMA PartsStep ==
  ASSUME MaxPublishers \in Nat \ {0}, MaxLog \in Nat, QueueCap \in Nat, PartsInv, [PartsNext]_allVars
  PROVE  PartsInv'
<1>1. [R!Next]_(R!vars) /\ [I!Next]_(I!vars) /\ [W!Next]_(W!vars)
  BY EachAlone
<1>2. PublisherInv'
  BY <1>1, PublisherStep DEF PartsInv
<1>3. InputInv'
  BY <1>1, InputStep DEF PartsInv
<1>4. WebInv'
  BY <1>1, WebStep DEF PartsInv
<1> QED
  BY <1>2, <1>3, <1>4 DEF PartsInv

(* However often a connection fails, is given up and is made again, a server  *)
(* never carries two publishers of one RTMP output (rtmp_sink.go:152-174),    *)
(* and an RTSP input holds no client but the one of its session and those it  *)
(* gave up half made (rtsp_input.go:74-92 and 260-296).                       *)
THEOREM OneConnectionAlways ==
  ASSUME MaxPublishers \in Nat \ {0}, MaxLog \in Nat, QueueCap \in Nat
  PROVE  PartsSpec => []OneConnection
<1>1. PartsInit => PartsInv
  BY InitParts
<1>2. PartsInv /\ [PartsNext]_allVars => PartsInv'
  BY PartsStep
<1>3. PartsInv => OneConnection
  <2>1. PublisherInv => R!OnePublisher
    BY DEF PublisherInv, Single, R!OnePublisher
  <2> QED
    BY <2>1 DEF PartsInv, InputInv, OneConnection
<1> QED
  BY <1>1, <1>2, <1>3, PTL DEF PartsSpec

(* No frame reaches an RTMP server before the metadata and the sequence       *)
(* headers of its connection (rtmp_sink.go:118-149); a browser gets the       *)
(* packets in their order, none twice and, while its queue does not overrun,  *)
(* none missing; a key unit of an RTSP input has the time of its own packets  *)
(* (rtsp_input.go:405-432).                                                   *)
THEOREM StreamsInOrderAlways ==
  ASSUME MaxPublishers \in Nat \ {0}, MaxLog \in Nat, QueueCap \in Nat
  PROVE  PartsSpec => []StreamsInOrder
<1>1. PartsInit => PartsInv
  BY InitParts
<1>2. PartsInv /\ [PartsNext]_allVars => PartsInv'
  BY PartsStep
<1>3. PartsInv => StreamsInOrder
  <2>1. PublisherInv => R!HeadersFirst
    BY DEF PublisherInv, Ordered, InOrder, R!HeadersFirst
  <2> QED
    BY <2>1, WebOrder DEF PartsInv, InputInv, StreamsInOrder
<1> QED
  BY <1>1, <1>2, <1>3, PTL DEF PartsSpec

(* The same of the MP4 input where it runs beside the others (design.md:457). *)
THEOREM InterleavedAlways == ASSUME FineScales PROVE PartsSpec => Interleaved
<1>1. PartsInit => SourceInv
  BY InitSource DEF PartsInit
<1>2. SourceInv /\ [PartsNext]_allVars => SourceInv'
  BY EachAlone, SourceStep
<1>3. SourceInv /\ [PartsNext]_allVars
        => [sent.track /= 0 /\ sent'.track /= 0 => sent'.media >= sent.media]_vars
  BY EachAlone, SourceStep DEF HasSent
<1> QED
  BY <1>1, <1>2, <1>3, PTL DEF PartsSpec, Interleaved

(* The same: nor does a frame leave before its time there (mp4_source.go:48). *)
THEOREM PacedAlways == ASSUME TwoSamples PROVE PartsSpec => []Paced
<1>1. PartsInit => PaceInv
  BY InitPace DEF PartsInit
<1>2. PaceInv /\ [PartsNext]_allVars => PaceInv'
  BY EachAlone, PaceStep
<1>3. PaceInv => Paced
  BY DEF PaceInv, Paced, Due
<1> QED
  BY <1>1, <1>2, <1>3, PTL DEF PartsSpec
=============================================================================
