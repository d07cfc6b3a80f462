----------------------------- MODULE RTSPServers ------------------------------
(***************************************************************************)
(* RTSP outputs: sinks (src/server/internal/media/rtsp_sink.go) that share a *)
(* server per address, RTSPServerManager and RTSPServerHandler               *)
(* (rtsp_server.go).                                                         *)
(*                                                                           *)
(* r.mu guards a sink, m.mu the servers and their reference counts, h.mutex  *)
(* the paths of a server; a section under a lock is one step.  Start,        *)
(* Configure and Stop hold r.mu throughout: `holds` says where they are.     *)
(* Servers and streams are numbered as they are made; a Configure that has   *)
(* video gives the sink a media of the same number.  Two sinks with one path *)
(* are an output that was removed while in use and the one made after it.    *)
(*                                                                           *)
(* Of gortsplib: Start of a server fails while another listens at the        *)
(* address, Close waits for its sessions, a closed stream refuses packets,   *)
(* and the callbacks of a session come one at a time.                        *)
(***************************************************************************)
EXTENDS Integers, FiniteSets

CONSTANTS Sinks, Addrs, Paths, Sessions,
          AddrOf, PathOf,    \* address and path of a sink
          Inputs,            \* outcomes of Configure: "video", "audio", "half"
          MaxServers,        \* bound: servers made
          MaxStreams,        \* bound: streams made and calls of Configure
          Nobody

ASSUME ServersAssumption == /\ IsFiniteSet(Sinks)
                            /\ AddrOf \in [Sinks -> Addrs] /\ PathOf \in [Sinks -> Paths]
                            /\ Inputs \subseteq {"video", "audio", "half"}
                            /\ MaxServers \in Nat /\ MaxStreams \in Nat
                            /\ Nobody \notin Sinks \cup Sessions

VARIABLES
  made, listening,                            \* servers made; those that listen
  reg, refs,                                  \* RTSPServerManager: server (0: none) and refs of an address
  status, handler, stream, video, ready,      \* RTSPSink; 0 stands for nil
  holds, closing,                             \* where the holder of r.mu is; the server Release closes
  streams, open,                              \* streams made; those that are open
  paths,                                      \* RTSPServerHandler.paths of every server
  ses,                                        \* sessions of clients
  late,                                       \* the goroutine OnPlay starts, per session
  writer,                                     \* the stream a WriteFrame has read, 0 outside
  latest, foreign                             \* history: last sink configured on a path;
                                              \* packets of a media the stream has not

managerVars == <<made, listening, reg, refs>>
sinkVars == <<status, handler, stream, video, ready, holds, closing>>
streamVars == <<streams, open, paths>>
clientVars == <<ses, late>>
vars == <<managerVars, sinkVars, streamVars, clientVars, writer, latest, foreign>>

Servers == 1 .. MaxServers
Numbers == 0 .. MaxStreams
NoPath == [stream |-> 0, onPlay |-> Nobody, publisher |-> Nobody, readers |-> {}]
Entries == [stream : Numbers, onPlay : Sinks \cup {Nobody}, publisher : Sessions \cup {Nobody},
            readers : SUBSET Sessions]
Away == [at |-> "away", server |-> 0, path |-> CHOOSE p \in Paths : TRUE]
Resting == [at |-> "none", stream |-> 0, sink |-> Nobody]

TypeOK ==
  /\ made \in 0 .. MaxServers /\ listening \subseteq 1 .. made
  /\ reg \in [Addrs -> 0 .. made] /\ refs \in [Addrs -> 0 .. Cardinality(Sinks)]
  /\ status \in [Sinks -> {"stopped", "running", "error"}] /\ ready \in [Sinks -> BOOLEAN]
  /\ handler \in [Sinks -> 0 .. made] /\ closing \in [Sinks -> 0 .. made]
  /\ stream \in [Sinks -> 0 .. streams] /\ video \in [Sinks -> 0 .. streams]
  /\ holds \in [Sinks -> {"free", "register", "unlist", "release", "close"}]
  /\ streams \in Numbers /\ open \subseteq 1 .. streams
  /\ paths \in [Servers -> [Paths -> Entries]]
  /\ ses \in [Sessions -> [at : {"away", "setup", "recorded", "playing", "publishing"},
                           server : 0 .. made, path : Paths]]
  /\ late \in [Sessions -> [at : {"none", "sleep", "owner"}, stream : Numbers,
                            sink : Sinks \cup {Nobody}]]
  /\ writer \in [Sinks -> Numbers]
  /\ latest \in [Servers -> [Paths -> Sinks \cup {Nobody}]]
  /\ foreign \subseteq [sink : Sinks, mixed : BOOLEAN]

Init ==
  /\ made = 0 /\ listening = {}
  /\ reg = [a \in Addrs |-> 0] /\ refs = [a \in Addrs |-> 0]
  /\ status = [s \in Sinks |-> "stopped"] /\ ready = [s \in Sinks |-> FALSE]
  /\ handler = [s \in Sinks |-> 0] /\ closing = [s \in Sinks |-> 0]
  /\ stream = [s \in Sinks |-> 0] /\ video = [s \in Sinks |-> 0]
  /\ holds = [s \in Sinks |-> "free"]
  /\ streams = 0 /\ open = {} /\ paths = [k \in Servers |-> [p \in Paths |-> NoPath]]
  /\ ses = [x \in Sessions |-> Away] /\ late = [x \in Sessions |-> Resting]
  /\ writer = [s \in Sinks |-> 0]
  /\ latest = [k \in Servers |-> [p \in Paths |-> Nobody]] /\ foreign = {}

Free(s) == holds[s] = "free"

\* A server listens at the address, registered or about to be closed.
Served(a) == \/ reg[a] \in listening
             \/ \E s \in Sinks : closing[s] \in listening /\ AddrOf[s] = a
-----------------------------------------------------------------------------
(* GetOrCreate and the sink's Start.  A server that is not registered but    *)
(* still being closed makes the next one fail.                               *)

MayStart(s) == Free(s) /\ status[s] # "running"

\* Fault: joining a server does not count.
JoinUncounted(a) == refs' = refs
Join(a) == refs' = [refs EXCEPT ![a] = @ + 1]

Running(s, k) ==
  /\ status' = [status EXCEPT ![s] = "running"] /\ handler' = [handler EXCEPT ![s] = k]
  /\ UNCHANGED <<stream, video, ready, holds, closing>>

StartShared(s) ==
  /\ MayStart(s) /\ reg[AddrOf[s]] # 0
  /\ Join(AddrOf[s])
  /\ Running(s, reg[AddrOf[s]])
  /\ UNCHANGED <<made, listening, reg, streamVars, clientVars, writer, latest, foreign>>

StartFirst(s) ==
  /\ MayStart(s) /\ reg[AddrOf[s]] = 0 /\ ~Served(AddrOf[s]) /\ made < MaxServers
  /\ made' = made + 1 /\ listening' = listening \cup {made + 1}
  /\ reg' = [reg EXCEPT ![AddrOf[s]] = made + 1]
  /\ refs' = [refs EXCEPT ![AddrOf[s]] = 1]
  /\ Running(s, made + 1)
  /\ UNCHANGED <<streamVars, clientVars, writer, latest, foreign>>

\* Somebody else may hold the address, so this is possible at any time.
StartFails(s) ==
  /\ MayStart(s) /\ reg[AddrOf[s]] = 0
  /\ status' = [status EXCEPT ![s] = "error"]
  /\ UNCHANGED <<managerVars, handler, stream, video, ready, holds, closing, streamVars, clientVars,
                 writer, latest, foreign>>

-----------------------------------------------------------------------------
(* Configure.                                                                *)

\* Fault: the replaced stream stays open.
CloseOldNever(s) == open
CloseOld(s) == open \ {stream[s]}

\* The new stream replaces the old one; the path follows in a step of its own.
Configure(s) ==
  /\ Free(s) /\ handler[s] # 0 /\ streams < MaxStreams
  /\ \E in \in Inputs \cap {"video", "audio"} :
       video' = [video EXCEPT ![s] = IF in = "video" THEN streams + 1 ELSE @]
  /\ streams' = streams + 1
  /\ open' = CloseOld(s) \cup {streams + 1}
  /\ stream' = [stream EXCEPT ![s] = streams + 1]
  /\ holds' = [holds EXCEPT ![s] = "register"]
  /\ UNCHANGED <<managerVars, status, handler, ready, closing, paths, clientVars, writer, latest,
                 foreign>>

RegisterPath(s) ==
  /\ holds[s] = "register"
  /\ paths' = [paths EXCEPT ![handler[s]][PathOf[s]] =
                 [stream |-> stream[s], onPlay |-> s, publisher |-> Nobody, readers |-> {}]]
  /\ latest' = [latest EXCEPT ![handler[s]][PathOf[s]] = s]
  /\ ready' = [ready EXCEPT ![s] = TRUE]
  /\ holds' = [holds EXCEPT ![s] = "free"]
  /\ UNCHANGED <<managerVars, status, handler, stream, video, closing, streams, open, clientVars,
                 writer, foreign>>

\* A later stream description is bad, or the stream cannot be made, or, without
\* a handler, the panic: the media has been replaced and nothing else.
ConfigureHalf(s) ==
  /\ Free(s) /\ "half" \in Inputs /\ streams < MaxStreams
  /\ streams' = streams + 1
  /\ video' = [video EXCEPT ![s] = streams + 1]
  /\ UNCHANGED <<managerVars, status, handler, stream, ready, holds, closing, open, paths, clientVars,
                 writer, latest, foreign>>

-----------------------------------------------------------------------------
(* Stop and Release.                                                         *)

StopNow(s) ==
  /\ Free(s) /\ status[s] # "stopped"
  /\ status' = [status EXCEPT ![s] = "stopped"] /\ ready' = [ready EXCEPT ![s] = FALSE]
  /\ open' = open \ {stream[s]}
  /\ holds' = [holds EXCEPT ![s] = IF handler[s] # 0 THEN "unlist" ELSE "free"]
  /\ UNCHANGED <<managerVars, handler, stream, video, closing, streams, paths, clientVars, writer,
                 latest, foreign>>

\* Faults: the path is deleted although it is another sink's; never deleted.
OwnPathAlways(s) == TRUE
OwnPathNever(s) == FALSE
OwnPath(s) == paths[handler[s]][PathOf[s]].stream = stream[s]

\* The stream is forgotten here: nobody reads it while r.mu is held.
Unlist(s) ==
  /\ holds[s] = "unlist"
  /\ paths' = IF OwnPath(s) THEN [paths EXCEPT ![handler[s]][PathOf[s]] = NoPath] ELSE paths
  /\ stream' = [stream EXCEPT ![s] = 0] /\ handler' = [handler EXCEPT ![s] = 0]
  /\ holds' = [holds EXCEPT ![s] = "release"]
  /\ UNCHANGED <<managerVars, status, video, ready, closing, streams, open, clientVars, writer,
                 latest, foreign>>

\* Faults: the last reference is not noticed; any reference counts as the last.
LastRefNever(a) == refs[a] - 1 < 0
LastRefAlways(a) == TRUE
LastRef(a) == ~(refs[a] - 1 > 0)

\* Fault: the server stays registered until it is closed.
UnregisterLate(a) == reg' = reg
Unregister(a) == reg' = [reg EXCEPT ![a] = 0]

ReleaseShared(s) == LET a == AddrOf[s] IN
  /\ holds[s] = "release" /\ ~LastRef(a)
  /\ refs' = [refs EXCEPT ![a] = @ - 1]
  /\ holds' = [holds EXCEPT ![s] = "free"]
  /\ UNCHANGED <<made, listening, reg, status, handler, stream, video, ready, closing, streamVars,
                 clientVars, writer, latest, foreign>>

ReleaseLast(s) == LET a == AddrOf[s] IN
  /\ holds[s] = "release" /\ LastRef(a)
  /\ refs' = [refs EXCEPT ![a] = 0]
  /\ Unregister(a)
  /\ closing' = [closing EXCEPT ![s] = reg[a]]
  /\ holds' = [holds EXCEPT ![s] = IF reg[a] # 0 THEN "close" ELSE "free"]
  /\ UNCHANGED <<made, listening, status, handler, stream, video, ready, streamVars, clientVars,
                 writer, latest, foreign>>

\* srv.Close, with r.mu held and m.mu released, waits for the sessions.
CloseServer(s) ==
  /\ holds[s] = "close" /\ \A x \in Sessions : ses[x].server # closing[s]
  /\ listening' = listening \ {closing[s]}
  /\ closing' = [closing EXCEPT ![s] = 0] /\ holds' = [holds EXCEPT ![s] = "free"]
  /\ UNCHANGED <<made, reg, refs, status, handler, stream, video, ready, streamVars, clientVars,
                 writer, latest, foreign>>

-----------------------------------------------------------------------------
(* Sessions.                                                                 *)

\* OnDescribe and OnSetup: there is a path to read.
Setup(x) ==
  /\ ses[x].at = "away"
  /\ \E k \in listening, p \in Paths :
       /\ paths[k][p] # NoPath
       /\ ses' = [ses EXCEPT ![x] = [at |-> "setup", server |-> k, path |-> p]]
  /\ UNCHANGED <<managerVars, sinkVars, streamVars, late, writer, latest, foreign>>

\* OnPlay: list the reader; look the path up again for the callback.
PlayRecord(x) == LET k == ses[x].server p == ses[x].path IN
  /\ ses[x].at = "setup"
  /\ paths' = IF paths[k][p] # NoPath
              THEN [paths EXCEPT ![k][p].readers = @ \cup {x}] ELSE paths
  /\ ses' = [ses EXCEPT ![x].at = "recorded"]
  /\ UNCHANGED <<managerVars, sinkVars, streams, open, late, writer, latest, foreign>>

PlaySchedule(x) == LET e == paths[ses[x].server][ses[x].path] IN
  /\ ses[x].at = "recorded" /\ late[x] = Resting
  /\ late' = IF e.onPlay # Nobody
             THEN [late EXCEPT ![x] = [at |-> "sleep", stream |-> e.stream, sink |-> e.onPlay]]
             ELSE late
  /\ ses' = [ses EXCEPT ![x].at = "playing"]
  /\ UNCHANGED <<managerVars, sinkVars, streamVars, writer, latest, foreign>>

Announce(x) ==
  /\ ses[x].at = "away" /\ streams < MaxStreams
  /\ \E k \in listening, p \in Paths :
       /\ ses' = [ses EXCEPT ![x] = [at |-> "publishing", server |-> k, path |-> p]]
       /\ streams' = streams + 1
       /\ open' = (open \ {paths[k][p].stream}) \cup {streams + 1}
       /\ paths' = [paths EXCEPT ![k][p] = [stream |-> streams + 1, onPlay |-> Nobody,
                                            publisher |-> x, readers |-> {}]]
  /\ UNCHANGED <<managerVars, sinkVars, late, writer, latest, foreign>>

\* Fault: the reader stays listed.
WithoutNobody(e, x) == e
Without(e, x) == [e EXCEPT !.readers = @ \ {x}]

\* OnSessionClose: the client leaves, its stream or the server is closed.
SessionClose(x) == LET k == ses[x].server IN
  /\ ses[x].at \in {"setup", "playing", "publishing"}
  /\ LET Own(p) == paths[k][p].publisher = x IN
     /\ paths' = [paths EXCEPT ![k] =
          [p \in Paths |-> IF Own(p) THEN NoPath ELSE Without(paths[k][p], x)]]
     /\ open' = open \ {paths[k][p].stream : p \in {q \in Paths : Own(q)}}
  /\ ses' = [ses EXCEPT ![x] = Away]
  /\ UNCHANGED <<managerVars, sinkVars, streams, late, writer, latest, foreign>>

-----------------------------------------------------------------------------
(* Packets of the sink: sendParamsToStream, 200 ms after PLAY, and WriteFrame *)
(* of video.  Both read the stream and the media in two sections of r.mu; the *)
(* write follows the second, and later it could only find the stream closed. *)

\* The media of the sink fits its stream, or there is none.
Fits(s) == stream[s] = 0 \/ video[s] \in {0, stream[s]}

Packet(s, n) ==
  foreign' = IF n \in open /\ video[s] \notin {0, n}
             THEN foreign \cup {[sink |-> s, mixed |-> ~Fits(s)]} ELSE foreign

LateOwner(x) == LET l == late[x] IN
  /\ l.at = "sleep" /\ Free(l.sink)
  /\ late' = [late EXCEPT ![x] = IF stream[l.sink] = l.stream THEN [l EXCEPT !.at = "owner"]
                                 ELSE Resting]
  /\ UNCHANGED <<managerVars, sinkVars, streamVars, ses, writer, latest, foreign>>

LateSend(x) == LET l == late[x] IN
  /\ l.at = "owner" /\ Free(l.sink)
  /\ Packet(l.sink, l.stream)
  /\ late' = [late EXCEPT ![x] = Resting]
  /\ UNCHANGED <<managerVars, sinkVars, streamVars, ses, writer, latest>>

WriteBegin(s) ==
  /\ Free(s) /\ writer[s] = 0 /\ status[s] = "running" /\ ready[s] /\ stream[s] # 0
  /\ writer' = [writer EXCEPT ![s] = stream[s]]
  /\ UNCHANGED <<managerVars, sinkVars, streamVars, clientVars, latest, foreign>>

WriteVideo(s) ==
  /\ Free(s) /\ writer[s] # 0
  /\ Packet(s, writer[s])
  /\ writer' = [writer EXCEPT ![s] = 0]
  /\ UNCHANGED <<managerVars, sinkVars, streamVars, clientVars, latest>>

Next ==
  \/ \E s \in Sinks :
       \/ StartShared(s) \/ StartFirst(s) \/ StartFails(s)
       \/ Configure(s) \/ RegisterPath(s) \/ ConfigureHalf(s)
       \/ StopNow(s) \/ Unlist(s) \/ ReleaseShared(s) \/ ReleaseLast(s) \/ CloseServer(s)
       \/ WriteBegin(s) \/ WriteVideo(s)
  \/ \E x \in Sessions :
       \/ Setup(x) \/ PlayRecord(x) \/ PlaySchedule(x) \/ Announce(x) \/ SessionClose(x)
       \/ LateOwner(x) \/ LateSend(x)

Spec == Init /\ [][Next]_vars
-----------------------------------------------------------------------------
(* Properties                                                                *)

UsersOf(a) == {s \in Sinks : AddrOf[s] = a /\ (handler[s] # 0 \/ holds[s] = "release")}

(* The count of an address is the number of sinks that use its registered     *)
(* server, those on their way to Release included; without users, no server.  *)
RefsCountUsers ==
  \A a \in Addrs : refs[a] = Cardinality(UsersOf(a)) /\ (refs[a] = 0 <=> reg[a] = 0)

(* The server of a running sink listens and is the one the address finds: no  *)
(* Stop of another sink closes it, in whatever order Release and GetOrCreate  *)
(* of several sinks come.                                                     *)
RunningSinkServed ==
  \A s \in Sinks : status[s] = "running" => handler[s] \in listening /\ handler[s] = reg[AddrOf[s]]

(* When every sink has stopped and no Stop is under way, no server is left.   *)
NothingLeft ==
  (\A s \in Sinks : Free(s) /\ status[s] # "running") => listening = {}

(* What a path of a sink answers to DESCRIBE is the stream that sink writes   *)
(* to, and it is open, unless the sink is at work; nothing of a stopped sink  *)
(* stays listed.                                                              *)
PathsAnswer ==
  \A k \in listening, p \in Paths : LET e == paths[k][p] IN
    e.onPlay # Nobody /\ Free(e.onPlay) =>
      e.stream = stream[e.onPlay] /\ e.stream \in open

(* The sink configured last on a path stays reachable there while it runs and *)
(* its stream is open: the Stop of an older sink with the same path leaves it.*)
LatestReachable ==
  \A k \in listening, p \in Paths : LET s == latest[k][p] IN
    s # Nobody =>
      (Free(s) /\ status[s] = "running" /\ ready[s] /\ stream[s] \in open => paths[k][p].onPlay = s)

(* No client is listed as a reader after its session is over.                 *)
ReadersConnected ==
  \A k \in Servers, p \in Paths : \A x \in paths[k][p].readers : ses[x].server = k

(* No interleaving of Configure with a frame or with the delayed parameter    *)
(* sets sends a media to a stream that has not got it: what does is a media   *)
(* that an earlier Configure left behind.                                     *)
RacesHarmless == \A f \in foreign : f.mixed

(* The addresses are leased as AddressLease says: a server is closed only     *)
(* when nobody uses its address.                                              *)
Lease == INSTANCE AddressLease WITH
  Users <- Sinks,
  uses <- [a \in Addrs |-> {s \in Sinks : AddrOf[s] = a /\ handler[s] # 0}],
  served <- {a \in Addrs : Served(a)}
LeaseSpec == Lease!Spec
=============================================================================
