------------------------------- MODULE Endpoints -------------------------------
(***************************************************************************)
(* Two inputs and two outputs of the media engine side by side: a behaviour  *)
(* is one of the MP4 file input (MP4Source), the RTSP pull input             *)
(* (RTSPInput), the RTMP output (RTMPSink) or the WebRTC output (WebRTCSink),*)
(* as `part` says.  The other three stay in their initial states.            *)
(***************************************************************************)
EXTENDS MP4Source

CONSTANTS
  MaxPublishers, MaxFaults, MaxStops, MaxLog,                  \* of RTMPSink
  Peers, QueueCap, MaxFrames, MaxRuns,                         \* of WebRTCSink
  Descs, Stoppers, InTurn, MaxPulls, MaxBreaks, MaxPackets     \* of RTSPInput

VARIABLES
  part,
  rtmp, client, started, metaSent, backoff, conn, up, log, torn, pc, faults, stops,
  webrtc, ready, runs, count, writing, whep, clients, stopped, writeLoop, peer, told, queue, got,
  overrun, first,
  rtsp, own, streams, readLoop, ended, mine, desc, stop, open, made, breaks, decoder, timed,
  packets, emitted, abandoned

R == INSTANCE RTMPSink WITH MaxClients <- MaxPublishers, status <- rtmp
W == INSTANCE WebRTCSink WITH status <- webrtc, n <- count, loop <- writeLoop
I == INSTANCE RTSPInput
       WITH MaxClients <- MaxPulls, MaxFaults <- MaxBreaks, status <- rtsp, client <- own,
            loop <- readLoop, cancelled <- ended, faults <- breaks

rVars == <<rtmp, client, started, metaSent, backoff, conn, up, log, torn, pc, faults, stops>>
wVars == <<webrtc, ready, runs, count, writing, whep, clients, stopped, writeLoop, peer, told,
           queue, got, overrun, first>>
iVars == <<rtsp, own, streams, readLoop, ended, mine, desc, stop, open, made, breaks, decoder,
           timed, packets, emitted, abandoned>>
allVars == <<part, vars, rVars, wVars, iVars>>

PartsInit ==
  /\ part \in {"mp4", "rtmp", "webrtc", "rtsp"}
  /\ R!Init /\ W!Init /\ I!Init
  /\ Init /\ (part # "mp4" => conf.repeat)
-----------------------------------------------------------------------------
(* A step of one part.                                                        *)
Fl(A) == part = "mp4" /\ A /\ UNCHANGED <<part, rVars, wVars, iVars>>
Rt(A) == part = "rtmp" /\ A /\ UNCHANGED <<part, vars, wVars, iVars>>
Wb(A) == part = "webrtc" /\ A /\ UNCHANGED <<part, vars, rVars, iVars>>
In(A) == part = "rtsp" /\ A /\ UNCHANGED <<part, vars, rVars, wVars>>

PartsNext ==
  \/ Fl(Start) \/ Fl(StartFails) \/ Fl(StopCalled) \/ Fl(StopReturns) \/ Fl(Pick) \/ Fl(Wrap)
  \/ Fl(FileEnds) \/ Fl(Idle) \/ Fl(Exits) \/ Fl(ReadsHeader) \/ Fl(Counts) \/ Fl(Emit)
  \/ Fl(WakesUp) \/ Fl(Pause) \/ Fl(Resume) \/ Fl(Tick)
  \/ \E t \in T : \E pts \in Points : Fl(Seek(t, pts))
  \/ Rt(R!Start) \/ Rt(R!Stop) \/ Rt(R!WriteFrame) \/ Rt(R!Connect) \/ Rt(R!ConnectFails)
  \/ Rt(R!SendMetadata) \/ Rt(R!SendSequenceHeaders) \/ Rt(R!SendFrame)
  \/ Rt(R!SendFrameFails) \/ Rt(R!SkipFrame) \/ Rt(R!Break) \/ Rt(R!BackoffPasses)
  \/ Wb(W!Start) \/ Wb(W!Configure) \/ Wb(W!Stop) \/ Wb(W!LookAtSink) \/ Wb(W!Distribute)
  \/ \E p \in Peers :
       \/ Wb(W!Offer(p)) \/ Wb(W!Negotiate(p)) \/ Wb(W!RegisterClient(p)) \/ Wb(W!Answer(p))
       \/ Wb(W!SendPacket(p)) \/ Wb(W!LoopEnds(p)) \/ Wb(W!LoopFails(p)) \/ Wb(W!PeerFails(p))
       \/ Wb(W!StateCallback(p))
  \/ In(I!Start) \/ In(I!StartFails) \/ In(I!SetUp) \/ In(I!Play) \/ In(I!SessionFails)
  \/ In(I!Disconnected) \/ In(I!SessionStops) \/ In(I!BackoffStops) \/ In(I!Reconnect)
  \/ In(I!ReconnectFails) \/ In(I!Break) \/ In(I!PacketsLost)
  \/ \E s \in Stoppers : In(I!StopCalled(s)) \/ In(I!StopWaits(s)) \/ In(I!StopCloses(s))
  \/ \E unit \in {"key", "delta"} : In(I!Whole(unit)) \/ In(I!FragmentStarts(unit))
  \/ In(I!FragmentEnds)
  \/ \E size \in 1 .. 2, bytes \in {5, 8} : In(I!AudioPacket(size, bytes))

(* The fairness of the parts.                                                 *)
PartsFairness ==
  /\ WF_allVars(Rt(R!WriteFrame)) /\ WF_allVars(Rt(R!Connect \/ R!ConnectFails))
  /\ WF_allVars(Rt(R!SendMetadata)) /\ WF_allVars(Rt(R!SendSequenceHeaders))
  /\ SF_allVars(Rt(R!Writes)) /\ WF_allVars(Rt(R!BackoffPasses))
  /\ \A p \in Peers : WF_allVars(Wb(W!Step(p)))
  /\ WF_allVars(In(I!Loop)) /\ WF_allVars(In(I!Stops))
  /\ \A s \in Stoppers : WF_allVars(In(I!StopWaits(s) \/ I!StopCloses(s)))

PartsSpec == PartsInit /\ [][PartsNext]_allVars /\ PartsFairness
-----------------------------------------------------------------------------
(* However often a connection fails, is given up and is made again, a server  *)
(* never carries two publishers of one RTMP output (RTMPSink,                 *)
(* rtmp_sink.go:152-174), and an RTSP input holds no client but the one of    *)
(* its session and those it gave up half made (RTSPInput, rtsp_input.go:74-92 *)
(* and 260-296).                                                              *)
OneConnection == R!OnePublisher /\ I!OneSession

(* No frame reaches an RTMP server before the metadata and the sequence       *)
(* headers of its connection (RTMPSink, rtmp_sink.go:120-149); a browser gets *)
(* the packets in their order, none twice (WebRTCSink); a key unit has the    *)
(* time of its own packets (RTSPInput, rtsp_input.go:405-432).                *)
StreamsInOrder == R!HeadersFirst /\ W!PacketsInOrder /\ I!KeyIsTimed

(* What lost its connection gets another: an RTMP output that goes on running *)
(* publishes again (RTMPSink), and an RTSP session that is lost comes back    *)
(* unless somebody stops it (RTSPInput, rtsp_input.go:260-296).               *)
LinksHeal == (part = "rtmp" => R!Recovers) /\ I!Reconnects

(* A browser that is gone leaves no client, no goroutine and no connection    *)
(* behind (WebRTCSink, webrtc_sink.go:337-346).                               *)
ClientsReleased == W!ClientsReleased
=============================================================================
