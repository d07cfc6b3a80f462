------------------------------- MODULE WebRTCSink -------------------------------
(***************************************************************************)
(* The WebRTC output: WHEP requests that become peer connections, and the    *)
(* frames each of them gets                                                  *)
(* (src/server/internal/media/webrtc_sink.go, webrtc_whep.go).               *)
(*                                                                           *)
(* A request runs on a goroutine of the HTTP server, WriteFrame on that of   *)
(* the pipe, the send queue of each client on its own.  A frame is a number  *)
(* and the packets it is cut into; WriteFrame puts them into the queues      *)
(* under a read lock that keeps the clients as they are.                     *)
(***************************************************************************)
EXTENDS Naturals, Sequences

CONSTANTS Peers,      \* browsers, one WHEP request each
          QueueCap,   \* capacity of a send queue
          MaxFrames,  \* bound: frames of the pipe
          MaxRuns     \* bound: times the output is started

VARIABLES
  status, ready, runs,  \* of the sink
  n, writing,           \* frames so far; the frame WriteFrame has looked at
  whep,                 \* of each request: where it is
  clients,              \* the map
  stopped,              \* pairs whose closeCh is closed
  loop,                 \* writeLoop: "none", "running", "failing", "ended"
  peer,                 \* the connection: "none", "up", "failed", "closed"
  told,                 \* a state callback that has still to run
  queue,                \* packets that wait
  got, overrun, first   \* history: packets sent, a packet dropped, the newest frame before joining

vars == <<status, ready, runs, n, writing, whep, clients, stopped, loop, peer, told, queue, got, overrun, first>>
sink == <<status, ready, runs>>
pairs == <<whep, clients, stopped, loop, peer, told>>
streams == <<queue, got, overrun, first>>
-----------------------------------------------------------------------------
Init ==
  /\ status = "stopped" /\ ready = FALSE /\ runs = 0 /\ n = 0 /\ writing = 0
  /\ whep = [p \in Peers |-> "none"] /\ clients = {} /\ stopped = {}
  /\ loop = [p \in Peers |-> "none"] /\ peer = [p \in Peers |-> "none"] /\ told = {}
  /\ queue = [p \in Peers |-> <<>>] /\ got = [p \in Peers |-> <<>>]
  /\ overrun = {} /\ first = [p \in Peers |-> 0]

Start ==
  /\ status = "stopped" /\ runs < MaxRuns /\ status' = "running" /\ runs' = runs + 1
  /\ UNCHANGED <<ready, n, writing, pairs, streams>>

(* Configure: an H.264 stream with its parameter sets, else an error.         *)
Configure ==
  /\ ~ready /\ ready' = TRUE
  /\ UNCHANGED <<status, runs, n, writing, pairs, streams>>

(* pc.Close: the state callback runs later, on a goroutine of its own, if it  *)
(* is set; closing twice changes nothing.                                     *)
Closed(s) == [p \in Peers |-> IF p \in s /\ peer[p] # "none" THEN "closed" ELSE peer[p]]
Tells(s) == {p \in s : whep[p] = "done" /\ peer[p] \notin {"none", "closed"}}

(* Mutant: the peer connections are closed, their send loops forgotten.       *)
StopForgetsLoops ==
  /\ status = "running" /\ status' = "stopped" /\ ready' = FALSE
  /\ peer' = Closed(clients) /\ told' = told \cup Tells(clients)
  /\ clients' = {}
  /\ UNCHANGED <<runs, n, writing, whep, stopped, loop, streams>>

Stop ==
  /\ status = "running" /\ status' = "stopped" /\ ready' = FALSE
  /\ stopped' = stopped \cup clients
  /\ peer' = Closed(clients) /\ told' = told \cup Tells(clients)
  /\ clients' = {}
  /\ UNCHANGED <<runs, n, writing, whep, loop, streams>>
-----------------------------------------------------------------------------
(* ServeWHEP.                                                                 *)
Offer(p) ==
  /\ whep[p] = "none"
  /\ whep' = [whep EXCEPT ![p] = IF ready THEN "negotiate" ELSE "refused"]
  /\ UNCHANGED <<sink, n, writing, clients, stopped, loop, peer, told, streams>>

(* negotiateWHEP: an offer it cannot use closes the connection again.         *)
Negotiate(p) ==
  /\ whep[p] = "negotiate"
  /\ \/ whep' = [whep EXCEPT ![p] = "register"] /\ peer' = [peer EXCEPT ![p] = "up"]
        /\ loop' = [loop EXCEPT ![p] = "running"]
     \/ whep' = [whep EXCEPT ![p] = "refused"] /\ peer' = [peer EXCEPT ![p] = "closed"]
        /\ UNCHANGED loop
  /\ UNCHANGED <<sink, n, writing, clients, stopped, told, streams>>

(* Mutant: the newest frame is replayed to a client that joins.               *)
RegisterReplays(p) ==
  /\ whep[p] = "register" /\ whep' = [whep EXCEPT ![p] = "hook"]
  /\ clients' = clients \cup {p} /\ first' = [first EXCEPT ![p] = n]
  /\ queue' = [queue EXCEPT ![p] = IF n = 0 THEN <<>> ELSE << <<n, 1>>, <<n, 2>> >>]
  /\ UNCHANGED <<sink, n, writing, stopped, loop, peer, told, got, overrun>>

RegisterClient(p) ==
  /\ whep[p] = "register" /\ whep' = [whep EXCEPT ![p] = "hook"]
  /\ clients' = clients \cup {p} /\ first' = [first EXCEPT ![p] = n]
  /\ UNCHANGED <<sink, n, writing, stopped, loop, peer, told, queue, got, overrun>>

(* OnConnectionStateChange, and the answer.                                   *)
Answer(p) ==
  /\ whep[p] = "hook" /\ whep' = [whep EXCEPT ![p] = "done"]
  /\ UNCHANGED <<sink, n, writing, clients, stopped, loop, peer, told, streams>>
-----------------------------------------------------------------------------
(* WriteFrame: first the state of the sink, then the clients.  (A key frame   *)
(* is also kept in lastKeyframe, which nothing reads.)                        *)
LookAtSink ==
  /\ writing = 0 /\ ready /\ n < MaxFrames
  /\ n' = n + 1 /\ writing' = n + 1
  /\ UNCHANGED <<sink, pairs, streams>>

(* A frame of two packets, of which a full queue drops some.                  *)
Packets(f) == << <<f, 1>>, <<f, 2>> >>
Room(p) == QueueCap - Len(queue[p])

Distribute ==
  /\ writing # 0 /\ writing' = 0
  /\ queue' = [p \in Peers |->
                 IF p \notin clients THEN queue[p]
                 ELSE queue[p] \o SubSeq(Packets(writing), 1, IF Room(p) < 2 THEN Room(p) ELSE 2)]
  /\ overrun' = overrun \cup {p \in clients : Room(p) < 2}
  /\ UNCHANGED <<sink, n, pairs, got, first>>

(* writeLoop, which fails on a connection that is closed; with closeCh closed *)
(* and a packet waiting its select takes either.                              *)
SendPacket(p) ==
  /\ loop[p] = "running" /\ queue[p] # <<>>
  /\ queue' = [queue EXCEPT ![p] = Tail(@)]
  /\ \/ peer[p] \in {"up", "failed"} /\ got' = [got EXCEPT ![p] = Append(@, Head(queue[p]))] /\ UNCHANGED loop
     \/ peer[p] # "up" /\ loop' = [loop EXCEPT ![p] = "failing"] /\ UNCHANGED got
  /\ UNCHANGED <<sink, n, writing, whep, clients, stopped, peer, told, overrun, first>>

LoopEnds(p) ==
  /\ loop[p] = "running" /\ p \in stopped /\ loop' = [loop EXCEPT ![p] = "ended"]
  /\ UNCHANGED <<sink, n, writing, whep, clients, stopped, peer, told, streams>>

(* dropClient: out of the map, its loop stopped if it was there, closed.      *)
DropClient(p) ==
  /\ clients' = clients \ {p}
  /\ stopped' = IF p \in clients THEN stopped \cup {p} ELSE stopped
  /\ peer' = Closed({p})

(* The end of a loop that could not write, with onClose; that nobody reads    *)
(* closeCh any more makes its stop a matter of form.                          *)
LoopFails(p) ==
  /\ loop[p] = "failing" /\ loop' = [loop EXCEPT ![p] = "ended"]
  /\ DropClient(p) /\ told' = told \cup Tells({p})
  /\ UNCHANGED <<sink, n, writing, whep, streams>>

(* The connection fails, long after the answer.                               *)
PeerFails(p) ==
  /\ peer[p] = "up" /\ whep[p] = "done"
  /\ peer' = [peer EXCEPT ![p] = "failed"] /\ told' = told \cup {p}
  /\ UNCHANGED <<sink, n, writing, whep, clients, stopped, loop, streams>>

StateCallback(p) ==
  /\ p \in told /\ told' = (told \ {p}) \cup Tells({p})
  /\ DropClient(p)
  /\ UNCHANGED <<sink, n, writing, whep, loop, streams>>

Step(p) ==
  \/ Negotiate(p) \/ RegisterClient(p) \/ Answer(p)
  \/ SendPacket(p) \/ LoopEnds(p) \/ LoopFails(p) \/ StateCallback(p)

Next ==
  \/ Start \/ Configure \/ Stop \/ LookAtSink \/ Distribute
  \/ \E p \in Peers :
       \/ Offer(p) \/ Negotiate(p) \/ RegisterClient(p) \/ Answer(p) \/ SendPacket(p)
       \/ LoopEnds(p) \/ LoopFails(p) \/ PeerFails(p) \/ StateCallback(p)

Spec == Init /\ [][Next]_vars

(* Goroutines run on; nothing makes a browser ask or a connection fail.       *)
FairSpec == Spec /\ \A p \in Peers : WF_vars(Step(p))
-----------------------------------------------------------------------------
TypeOK ==
  /\ status \in {"stopped", "running"} /\ ready \in BOOLEAN
  /\ whep \in [Peers -> {"none", "refused", "negotiate", "register", "hook", "done"}]
  /\ clients \subseteq Peers /\ stopped \subseteq Peers /\ told \subseteq Peers
  /\ loop \in [Peers -> {"none", "running", "failing", "ended"}]
  /\ peer \in [Peers -> {"none", "up", "failed", "closed"}]
  /\ \A p \in Peers : Len(queue[p]) <= QueueCap

(* A client leaves nothing behind: when its connection fails, or when the     *)
(* output stops with the client in its map, the client is taken out, its send *)
(* loop ends and its connection is closed, in whatever order a failed write,  *)
(* the state callback and Stop come upon it (webrtc_sink.go:332-346).         *)
ClientsReleased ==
  \A p \in Peers :
    (peer[p] = "failed" \/ p \in stopped)
      ~> (p \notin clients /\ loop[p] = "ended" /\ peer[p] = "closed")

(* A browser gets the packets of the frames written since it joined, in order *)
(* and once; if its queue never overflowed it misses none of them             *)
(* (webrtc_sink.go:234-249).                                                  *)
PacketsInOrder ==
  \A p \in Peers :
    LET s == got[p] \o queue[p]
        time(x) == 2 * x[1] + x[2]
    IN /\ \A i, j \in DOMAIN s : i < j => time(s[i]) < time(s[j])
       /\ p \in clients \ overrun /\ loop[p] = "running" =>
            \A f \in first[p] + 1 .. n : f # writing =>
              \A i \in 1 .. 2 : \E k \in DOMAIN s : s[k] = <<f, i>>

(* A stopped output has no client (webrtc_sink.go:258-278).                   *)
StoppedHasNoClient == status = "stopped" => clients = {}
=============================================================================
