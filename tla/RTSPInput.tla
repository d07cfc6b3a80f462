------------------------------- MODULE RTSPInput -------------------------------
(***************************************************************************)
(* The RTSP pull input: Start, the read loop with its sessions and           *)
(* reconnections, Stop, and the way of RTP packets to frames                 *)
(* (src/server/internal/media/rtsp_input.go).                                *)
(*                                                                           *)
(* Start holds r.mu while it connects and there is no read loop then, so it  *)
(* is one step; Stop waits for the loop without the lock, so it is three.    *)
(* Client n is the n-th gortsplib client; a description is the sequence of   *)
(* its formats.  A video access unit travels in one packet or in two         *)
(* fragments.                                                                *)
(***************************************************************************)
EXTENDS Naturals, Sequences
LOCAL INSTANCE SequencesExt

CONSTANTS Descs,       \* descriptions the server may give
          Stoppers,    \* goroutines that may call Stop
          InTurn,      \* TRUE: the API's calls do not overlap
          MaxClients,  \* bound: clients made
          MaxFaults,   \* bound: failures of server and network
          MaxPackets   \* bound: packets of a session

VARIABLES
  status, client,      \* r.status, r.client (0: nil)
  streams,             \* r.streams: the kind of each channel
  loop,                \* "none", "setup", "play", "wait", "sleep"
  cancelled,           \* the loop's context
  mine, desc,          \* the loop's own client and description
  stop,                \* of each stopper: "idle", "waiting", "closing"
  open, made, faults,  \* connections to the server; clients made; failures
  decoder,             \* of the video channel: "empty", "key", "delta" under way
  timed,               \* the client's time decoder has seen a key unit's start
  packets, emitted,    \* packets of this session; history: frames of this session
  abandoned            \* history: clients whose setup or play failed

vars == <<status, client, streams, loop, cancelled, mine, desc, stop, open, made, faults,
          decoder, timed, packets, emitted, abandoned>>
session == <<decoder, timed, packets, emitted>>
-----------------------------------------------------------------------------
(* buildStreamsFromDescription: what is announced, by channel.  "generic" is  *)
(* a format the library has no type for, "generic aac" one with a config.     *)
KindOf(f) == IF f = "h264" THEN "video" ELSE "audio"
Announced(d) ==
  LET known == SelectSeq(d, LAMBDA f : f \in {"h264", "generic aac", "mpeg4"})
  IN [i \in DOMAIN known |-> KindOf(known[i])]

(* runSession: the channel of the i-th format; each generic one takes one.    *)
Numbered(d, i) ==
  Len(SelectSeq(SubSeq(d, 1, i - 1), LAMBDA f : f \in {"h264", "generic", "generic aac", "mpeg4"}))
LastOf(d, f) == CHOOSE i \in DOMAIN d : d[i] = f /\ \A j \in DOMAIN d : d[j] = f => j <= i
VideoChannel == Numbered(desc, LastOf(desc, "h264"))
AudioChannel == Numbered(desc, LastOf(desc, "mpeg4"))

(* parseMPEG4GenericAUs: a header of `bits` bits over a payload of `bytes`.    *)
AUHeader == 16
Parses(bits, sizes, bytes) ==
  /\ bits > 0 /\ bits % AUHeader = 0 /\ Len(sizes) = bits \div AUHeader
  /\ \A i \in DOMAIN sizes : sizes[i] > 0
  /\ 2 + (bits + 7) \div 8 + FoldLeft(LAMBDA x, y : x + y, 0, sizes) <= bytes

Init ==
  /\ status = "stopped" /\ client = 0 /\ streams = <<>> /\ loop = "none" /\ cancelled = FALSE
  /\ mine = 0 /\ desc = <<>> /\ stop = [s \in Stoppers |-> "idle"]
  /\ open = {} /\ made = 0 /\ faults = 0 /\ abandoned = {}
  /\ decoder = "empty" /\ timed = FALSE /\ packets = 0 /\ emitted = <<>>

Fault == faults < MaxFaults /\ faults' = faults + 1

(* connectOnce: the next client.                                              *)
Connected(d) ==
  /\ made < MaxClients /\ made' = made + 1
  /\ Announced(d) /= <<>>
  /\ open' = open \cup {made + 1}
  /\ mine' = made + 1 /\ desc' = d

(* The session begins with an empty decoder and no time.                      *)
NewSession == decoder' = "empty" /\ timed' = FALSE /\ packets' = 0 /\ emitted' = <<>>
-----------------------------------------------------------------------------
NoCall == \A s \in Stoppers : stop[s] = "idle"

(* Start returns at once while it runs or its loop is alive.                  *)
MayStart == status /= "running" /\ loop = "none"

(* Bound: the clients left suffice for a retry after every fault to come.     *)
RoomForRetries == made + 1 + (MaxFaults - faults) <= MaxClients

Start ==
  /\ MayStart /\ (InTurn => NoCall) /\ RoomForRetries
  /\ \E d \in Descs : Connected(d) /\ streams' = Announced(d)
  /\ cancelled' = FALSE /\ client' = made + 1 /\ status' = "running" /\ loop' = "setup"
  /\ NewSession
  /\ UNCHANGED <<stop, faults, abandoned>>

(* The dial, Describe or a description without a codec fails.                 *)
StartFails ==
  /\ MayStart /\ (InTurn => NoCall)
  /\ Fault /\ status' = "error"
  /\ UNCHANGED <<client, streams, loop, cancelled, mine, desc, stop, open, made, session, abandoned>>

(* SetupAll, then the callbacks; Play.  A client that fails is not closed.    *)
SetUp ==
  /\ loop = "setup" /\ mine \in open /\ loop' = "play"
  /\ UNCHANGED <<status, client, streams, cancelled, mine, desc, stop, open, made, faults, session,
                 abandoned>>

Play ==
  /\ loop = "play" /\ mine \in open /\ loop' = "wait" /\ status' = "running"
  /\ UNCHANGED <<client, streams, cancelled, mine, desc, stop, open, made, faults, session, abandoned>>

SessionFails ==
  /\ loop \in {"setup", "play"}
  /\ \/ mine \notin open /\ UNCHANGED faults
     \/ mine \in open /\ Fault
  /\ loop' = "sleep" /\ status' = "error" /\ abandoned' = abandoned \cup {mine}
  /\ UNCHANGED <<client, streams, cancelled, mine, desc, stop, open, made, session>>

(* The connection ended: retry; Mutant: it counts as a stop.                  *)
DisconnectedStops ==
  /\ loop = "wait" /\ mine \notin open /\ loop' = "none"
  /\ UNCHANGED <<status, client, streams, cancelled, mine, desc, stop, open, made, faults, session,
                 abandoned>>

Disconnected ==
  /\ loop = "wait" /\ mine \notin open /\ loop' = "sleep" /\ status' = "error"
  /\ UNCHANGED <<client, streams, cancelled, mine, desc, stop, open, made, faults, session, abandoned>>

(* The context is done: the session is closed and the loop ends; during the   *)
(* backoff it ends at once.                                                   *)
SessionStops ==
  /\ loop = "wait" /\ cancelled /\ loop' = "none" /\ open' = open \ {mine}
  /\ UNCHANGED <<status, client, streams, cancelled, mine, desc, stop, made, faults, session, abandoned>>

BackoffStops ==
  /\ loop = "sleep" /\ cancelled /\ loop' = "none"
  /\ UNCHANGED <<status, client, streams, cancelled, mine, desc, stop, open, made, faults, session,
                 abandoned>>

(* The backoff passes and connectOnce makes the client of the next session;   *)
(* the streams stay those of Start.                                           *)
Reconnect ==
  /\ loop = "sleep" /\ loop' = "setup"
  /\ \E d \in Descs : Connected(d)
  /\ client' = made + 1 /\ NewSession
  /\ UNCHANGED <<status, streams, cancelled, stop, faults, abandoned>>

ReconnectFails ==
  /\ loop = "sleep" /\ Fault
  /\ UNCHANGED <<status, client, streams, loop, cancelled, mine, desc, stop, open, made, session,
                 abandoned>>

(* Stop: cancel under the lock, wait for the loop, close and clear.           *)
StopCalled(s) ==
  /\ stop[s] = "idle" /\ status /= "stopped" /\ (InTurn => NoCall)
  /\ cancelled' = TRUE /\ stop' = [stop EXCEPT ![s] = "waiting"]
  /\ UNCHANGED <<status, client, streams, loop, mine, desc, open, made, faults, session, abandoned>>

StopWaits(s) ==
  /\ stop[s] = "waiting" /\ loop = "none" /\ stop' = [stop EXCEPT ![s] = "closing"]
  /\ UNCHANGED <<status, client, streams, loop, cancelled, mine, desc, open, made, faults, session,
                 abandoned>>

StopCloses(s) ==
  /\ stop[s] = "closing" /\ stop' = [stop EXCEPT ![s] = "idle"]
  /\ open' = open \ {client} /\ client' = 0 /\ status' = "stopped"
  /\ UNCHANGED <<streams, loop, cancelled, mine, desc, made, faults, session, abandoned>>

(* The server, the network or a timeout ends a connection.                    *)
Break ==
  /\ Fault /\ \E c \in open : open' = open \ {c}
  /\ UNCHANGED <<status, client, streams, loop, cancelled, mine, desc, stop, made, session, abandoned>>
-----------------------------------------------------------------------------
Arrives ==
  /\ loop = "wait" /\ mine \in open /\ packets < MaxPackets /\ packets' = packets + 1
  /\ UNCHANGED <<status, client, streams, loop, cancelled, mine, desc, stop, open, made, faults,
                 abandoned>>
Emit(ch, kind, unit) == emitted' = Append(emitted, [ch |-> ch, kind |-> kind, unit |-> unit])

(* handleVideoPacket, an access unit in one packet.  The time decoder starts  *)
(* with the first packet of a key unit.                                       *)
Whole(unit) ==
  /\ Arrives
  /\ timed' = (timed \/ unit = "key") /\ decoder' = "empty"
  /\ IF timed' THEN Emit(VideoChannel, "video", unit) ELSE UNCHANGED emitted

(* The first fragment: no unit yet, and no key unit to tell the time by later. *)
FragmentStarts(unit) ==
  /\ Arrives
  /\ decoder' = unit /\ timed' = (timed \/ unit = "key")
  /\ UNCHANGED emitted

FragmentEnds ==
  /\ Arrives /\ decoder /= "empty"
  /\ decoder' = "empty" /\ UNCHANGED timed
  /\ IF timed THEN Emit(VideoChannel, "video", decoder) ELSE UNCHANGED emitted

(* A gap in the packets: the decoder gives up the unit under way.             *)
PacketsLost ==
  /\ decoder /= "empty" /\ decoder' = "empty"
  /\ UNCHANGED <<status, client, streams, loop, cancelled, mine, desc, stop, open, made, faults,
                 timed, packets, emitted, abandoned>>

(* handleAudioPacket, a packet of n units that parses or does not.            *)
AudioPacket(n, bytes) ==
  /\ Contains(desc, "mpeg4") /\ Arrives /\ UNCHANGED <<decoder, timed>>
  /\ IF Parses(n * AUHeader, [i \in 1 .. n |-> 1], bytes)
     THEN emitted' = emitted \o [i \in 1 .. n |-> [ch |-> AudioChannel, kind |-> "audio", unit |-> "aac"]]
     ELSE UNCHANGED emitted
-----------------------------------------------------------------------------
Next ==
  \/ Start \/ StartFails \/ SetUp \/ Play \/ SessionFails
  \/ Disconnected \/ SessionStops \/ BackoffStops \/ Reconnect \/ ReconnectFails
  \/ \E s \in Stoppers : StopCalled(s) \/ StopWaits(s) \/ StopCloses(s)
  \/ Break \/ PacketsLost
  \/ \E unit \in {"key", "delta"} : Whole(unit) \/ FragmentStarts(unit)
  \/ FragmentEnds
  \/ \E n \in 1 .. 2, bytes \in {5, 8} : AudioPacket(n, bytes)

Spec == Init /\ [][Next]_vars

(* The loop's goroutine and the caller of Stop run; faults are finite, so     *)
(* in the end the server answers.                                             *)
Loop == SetUp \/ Play \/ SessionFails \/ Disconnected \/ Reconnect
Stops == SessionStops \/ BackoffStops
FairSpec ==
  /\ Spec /\ WF_vars(Loop) /\ WF_vars(Stops)
  /\ \A s \in Stoppers : WF_vars(StopWaits(s) \/ StopCloses(s))
-----------------------------------------------------------------------------
TypeOK ==
  /\ status \in {"stopped", "running", "error"}
  /\ client \in 0 .. MaxClients /\ mine \in 0 .. MaxClients /\ open \subseteq 1 .. MaxClients
  /\ loop \in {"none", "setup", "play", "wait", "sleep"} /\ cancelled \in BOOLEAN
  /\ stop \in [Stoppers -> {"idle", "waiting", "closing"}]
  /\ decoder \in {"empty", "key", "delta"} /\ timed \in BOOLEAN

(* Packets are converted with the clock of the client they came from:         *)
(* handleVideoPacket asks r.client, not the client of its session             *)
(* (rtsp_input.go:425), so a running session's client must be r.client.       *)
ClockOfItsClient == loop = "wait" /\ mine \in open => client = mine

(* A stopped input is quiet: no read loop, and no connection but those of     *)
(* clients whose SETUP or PLAY failed and that nobody closes.                 *)
StoppedIsQuiet ==
  status = "stopped" => loop = "none" /\ open \subseteq abandoned

(* One session at a time: whatever else is connected was given up.            *)
OneSession == \A c \in open : c = mine \/ c \in abandoned

(* A key unit that is complete leaves: its time was asked for when it began   *)
(* (rtsp_input.go:420-425), so it is not dropped for want of one.             *)
KeyIsTimed == decoder = "key" => timed

(* Frames carry the channel that was announced for their kind                 *)
(* (rtsp_input.go:354-355).                                                   *)
ChannelsAgree ==
  \A i \in DOMAIN emitted :
    emitted[i].ch < Len(streams) /\ streams[emitted[i].ch + 1] = emitted[i].kind

(* While its loop lives and nobody stops it, the input is playing again and   *)
(* again: a lost session is retried until it runs.                            *)
Reconnects == (loop /= "none" /\ ~cancelled) ~> ((loop = "wait" /\ mine \in open) \/ cancelled)

(* Stop returns, whatever the session is doing.                               *)
StopReturns == \A s \in Stoppers : stop[s] /= "idle" ~> stop[s] = "idle"
=============================================================================
