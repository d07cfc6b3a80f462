------------------------------- MODULE GBDevice -------------------------------
(***************************************************************************)
(* The parts of a GB/T 28181 device behind its registration, one model each, *)
(* side by side: a behaviour is one of the sessions' dialogs (GBSessions), of *)
(* a playback (GBPlayback), of the frames of an output (GBFrames) or of the  *)
(* platform's commands (GBMessages), as `part` says.  The other three stay   *)
(* in their initial states.                                                  *)
(***************************************************************************)
EXTENDS GBSessions

CONSTANTS
  Recordings, Nominal, Ranges, Mode, Controls,                            \* of GBPlayback
  Subs, SubCap, GOPMax, AudioMax, Streams, Pictures, MaxFrames, MaxConfigs, \* of GBFrames
  Receivers, Requests, Installed, PageItems, Events, Position, HasSource, MaxRequests \* of GBMessages

VARIABLES
  part,
  from, to, left, seg, frame, at, started, anchored, paused, queue, infos, bye, notified, frames,
  n, configs, conf, audioQ, gop, truncated, status, ch, made, heard, got, overrun, owed,
  received, pc, doing, todo, old, answers, finished, jobs, registry, current, loops, closed, stopped

P == INSTANCE GBPlayback WITH sent <- frames
F == INSTANCE GBFrames
M == INSTANCE GBMessages WITH said <- answers, subs <- registry, cancelled <- closed

(* Recordings follow each other: no two overlap, and time passes in each.     *)
ASSUME RecordingsAssumption ==
  /\ Recordings \in Seq([start : Nat, nalus : Seq(STRING), pts : Seq(Nat)]) /\ Nominal \in Nat
  /\ \A r \in Ranges : r[1] \in Nat /\ r[2] \in Nat
  /\ \A s \in DOMAIN Recordings :
       /\ \A j, k \in DOMAIN P!Frames[s] : j < k => P!Frames[s][j].t < P!Frames[s][k].t
       /\ \A r \in DOMAIN Recordings \ {s} : Recordings[s].start <= Recordings[r].start =>
            \A j \in DOMAIN P!Frames[s], k \in DOMAIN P!Frames[r] : P!Frames[s][j].t < P!Frames[r][k].t

ASSUME FramesAssumption ==
  /\ SubCap \in Nat \ {0} /\ AudioMax \in Nat
  /\ \A p \in Pictures : p.key \in BOOLEAN

ASSUME MessagesAssumption ==
  /\ MaxRequests \in Nat /\ PageItems \in Nat \ {0}
  /\ \A r \in Requests : r.items \in Nat
  /\ Position \in Events

pVars == <<from, to, left, seg, frame, at, started, anchored, paused, queue, infos, bye, notified, frames>>
fVars == <<n, configs, conf, audioQ, gop, truncated, status, ch, made, heard, got, overrun, owed>>
mVars == <<received, pc, doing, todo, old, answers, finished, jobs, registry, current, loops,
           closed, stopped>>
deviceVars == <<part, vars, pVars, fVars, mVars>>

(* The site and the range of parts that do not run.                           *)
Somewhere == CHOOSE s \in Sites : TRUE
Shown == CHOOSE r \in Ranges : P!Covering(r[1], r[2]) # {}

DeviceInit ==
  /\ part \in {"sessions", "playback", "frames", "messages"}
  /\ Init /\ (part # "sessions" => site = Somewhere)
  /\ F!Init /\ M!Init
  /\ P!Init /\ (part # "playback" => <<from, to>> = Shown)
-----------------------------------------------------------------------------
(* A step of one part.                                                        *)
S(A) == part = "sessions" /\ A /\ UNCHANGED <<part, pVars, fVars, mVars>>
Pb(A) == part = "playback" /\ A /\ UNCHANGED <<part, vars, fVars, mVars>>
Fr(A) == part = "frames" /\ A /\ UNCHANGED <<part, vars, pVars, mVars>>
Ms(A) == part = "messages" /\ A /\ UNCHANGED <<part, vars, pVars, fVars>>

DeviceNext ==
  \/ \E offer \in site.offers : S(Invite(offer))
  \/ \E i \in Ids :
       \/ S(BindListener(i)) \/ S(BindMedia(i)) \/ S(GiveUp(i)) \/ S(Answer(i)) \/ S(Dial(i))
       \/ S(Subscribe(i)) \/ S(StartLive(i)) \/ S(StartPlayback(i)) \/ S(AnswerTalk(i))
       \/ S(StartTalk(i)) \/ S(Bye(i))
  \/ \E c \in {"PAUSE", "PLAY"} : S(Info(c)) \/ \E i \in Ids : S(InfoSends(i, c))
  \/ \E i \in Ids :
       \/ S(PlatformDials(i)) \/ S(TakeConn(i)) \/ S(AcceptEnds(i)) \/ S(LiveEnds(i))
       \/ S(Unsubscribe(i)) \/ S(TalkEnds(i)) \/ S(Control(i)) \/ S(PlaybackEnds(i))
       \/ S(CastAnswered(i)) \/ S(CastFails(i))
  \/ S(CastBegins)
  \/ S(StopCancels) \/ S(StopCloses) \/ S(StopSip)
  \/ Pb(P!OpenSegment) \/ Pb(P!Exhausted) \/ Pb(P!ReadFrame) \/ Pb(P!SendHeld) \/ Pb(P!SendFails)
  \/ Pb(P!FastForward) \/ Pb(P!ApplyControl) \/ Pb(P!Cancelled) \/ Pb(P!Bye)
  \/ \E c \in P!Commands : Pb(P!Info(c))
  \/ \E st \in Streams : Fr(F!Configure(st))
  \/ \E p \in Pictures : Fr(F!WriteVideo(p))
  \/ Fr(F!WriteAudio)
  \/ \E s \in Subs : Fr(F!Subscribe(s)) \/ Fr(F!Read(s)) \/ Fr(F!Cancel(s)) \/ Fr(F!Unsubscribe(s))
  \/ \E h \in Receivers :
       \/ \E r \in Requests : Ms(M!Receive(h, r))
       \/ Ms(M!SwapLoop(h)) \/ Ms(M!CloseOld(h)) \/ Ms(M!Send(h)) \/ Ms(M!Finish(h))
  \/ \E j \in jobs : Ms(M!ExchangeEnds(j))
  \/ \E e \in Events : Ms(M!HostNotify(e)) \/ Ms(M!Expire(e))
  \/ \E i \in DOMAIN loops : Ms(M!Report(i)) \/ Ms(M!LoopEnds(i))
  \/ Ms(M!Stop)

(* The fairness of the parts.                                                 *)
DeviceFairness ==
  /\ WF_deviceVars(S(StopCloses)) /\ WF_deviceVars(S(StopSip))
  /\ \A i \in Ids :
       /\ WF_deviceVars(S(HandlerGoesOn(i))) /\ WF_deviceVars(S(CastFails(i) \/ CastAnswered(i)))
       /\ WF_deviceVars(S(TakeConn(i) \/ AcceptEnds(i))) /\ WF_deviceVars(S(LiveEnds(i)))
       /\ WF_deviceVars(S(Unsubscribe(i))) /\ WF_deviceVars(S(TalkEnds(i)))
       /\ WF_deviceVars(S(PlaybackEnds(i))) /\ WF_deviceVars(S(Control(i)))
  /\ WF_deviceVars(Pb(P!Step))

DeviceSpec == DeviceInit /\ [][DeviceNext]_deviceVars /\ DeviceFairness
-----------------------------------------------------------------------------
(* What a platform gets of a recording is a stream it can decode, within the  *)
(* range it asked for, whatever it pauses and seeks (GBPlayback, playback.go).*)
GoodStream == P!GoodStream

(* A playback ends unless the platform leaves it paused (GBPlayback).         *)
PlaybackOver == part = "playback" => P!PlaybackEnds

(* A session reads the pictures in their order, without a gap until its       *)
(* channel was full; the cache is what a late session needs; and the newest   *)
(* audio waits for the next picture (GBFrames, gb28181_hub.go:85-112 and      *)
(* gb28181_media.go:158-184).                                                 *)
FramesDelivered == F!StreamInOrder /\ F!CacheIsLastGOP /\ F!AudioKept

(* A command is answered completely, once, in order (GBMessages, server.go).  *)
AnswersComplete == M!AnswersComplete

(* At most one goroutine goes on reporting positions (GBMessages,             *)
(* subscribe.go).                                                             *)
OnePositionLoop == M!OnePositionLoop
=============================================================================
