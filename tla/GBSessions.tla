------------------------------ MODULE GBSessions ------------------------------
(***************************************************************************)
(* Media sessions of a GB/T 28181 device: the dialogs a platform opens with  *)
(* INVITE and ends with BYE, the one slot of device.Server that holds the    *)
(* resources of the current session, and the goroutine of each session       *)
(* (src/server/internal/gb28181/device/server.go, playback.go, talkback.go,  *)
(* broadcast.go).                                                            *)
(*                                                                           *)
(* Over UDP and over an outgoing stream one goroutine receives and handles   *)
(* requests one after the other.  With the inbound TCP listener each         *)
(* connection has a goroutine that handles what it reads, so handlers run    *)
(* beside each other.  The goroutines of media and of broadcasts and         *)
(* Server.Stop always run beside them; hence a handler is cut where it lets  *)
(* go of s.mu.  A session is named by the number of its INVITE; what a field *)
(* of the server holds is named by the session it belongs to, 0 for nil.     *)
(***************************************************************************)
EXTENDS Naturals, Sequences, FiniteSets

CONSTANTS Invites,     \* bound: INVITEs and broadcasts
          Sites,       \* records [listener, offers, broadcasts]: is Config.Transport
                       \* "tcp", a goroutine per connection; what the platform offers,
                       \* [kind, proto, setup]; does it announce broadcasts
          Role,        \* Config.TCPRole
          Recorded,    \* the index has recordings of every range
          HasSink,     \* a talkback sink is installed
          CtlCap       \* capacity of the control channel of a playback

ASSUME SessionsAssumption ==
  /\ Invites \in Nat \ {0} /\ CtlCap \in Nat \ {0}
  /\ \A s \in Sites :
       /\ {s.listener, s.broadcasts} \subseteq BOOLEAN
       /\ s.offers \subseteq [kind : {"live", "playback", "talk"}, proto : {"udp", "tcp"},
                              setup : {"active", "passive", "actpass"}]
  /\ Role \in {"auto", "active", "passive"}
  /\ {Recorded, HasSink} \subseteq BOOLEAN

VARIABLES
  site,       \* where the device is: never changes
  last,       \* number of the last session
  kind,       \* of each session
  media,      \* of each session: "udp", "connect" (we dial), "listen" (we are dialled)
  slot,       \* fields of the server: mediaConn, sub, mediaCancel, mediaTCPConn, listener, playbackCtl
  open,       \* sockets that are open: <<"udp" | "tcp" | "ln", session>>
  subs,       \* sessions subscribed to the hub
  cancelled,  \* sessions whose media context was cancelled
  run,        \* media goroutine of each session
  backlog,    \* sessions whose listener has accepted the platform's connection
  ctl,        \* control channel of each session
  step,       \* where the handler of each INVITE, or the goroutine of a broadcast, is
  informing,  \* handlers of INFO that have read the slot: <<session, control>>
  down,       \* the server's context is done
  stop,       \* where Server.Stop is
  talking,    \* dialogs the platform has open
  byes,       \* history: dialogs whose BYE was handled
  raced       \* history: sessions whose INVITE was handled beside another one

vars == <<site, last, kind, media, slot, open, subs, cancelled, run, backlog, ctl, step, informing,
          down, stop, talking, byes, raced>>

Ids == 1 .. Invites
Listener == site.listener
Empty == [conn |-> 0, sub |-> 0, cancel |-> 0, tcp |-> 0, ln |-> 0, ctl |-> 0]
Active == {"accept", "run", "paused"}
InHandler == {"torn", "listening", "bound", "answered", "dialled", "subscribed"}

TypeOK ==
  /\ site \in Sites /\ last \in 0 .. Invites
  /\ kind \in [Ids -> {"none", "live", "playback", "talk", "cast"}]
  /\ media \in [Ids -> {"udp", "connect", "listen"}]
  /\ slot \in [conn : 0 .. Invites, sub : 0 .. Invites, cancel : 0 .. Invites,
               tcp : 0 .. Invites, ln : 0 .. Invites, ctl : 0 .. Invites]
  /\ open \subseteq ({"udp", "tcp", "ln"} \X Ids)
  /\ subs \subseteq Ids /\ cancelled \subseteq Ids /\ backlog \subseteq Ids
  /\ run \in [Ids -> {"none", "over"} \cup Active]
  /\ ctl \in [Ids -> Seq({"PAUSE", "PLAY"})] /\ \A i \in Ids : Len(ctl[i]) <= CtlCap
  /\ step \in [Ids -> {"idle", "asked"} \cup InHandler]
  /\ informing \subseteq (Ids \X {"PAUSE", "PLAY"})
  /\ down \in BOOLEAN /\ stop \in {"no", "cancelled", "closed", "done"}
  /\ talking \subseteq Ids /\ byes \subseteq Ids /\ raced \subseteq Ids

Init ==
  /\ site \in Sites /\ last = 0
  /\ kind = [i \in Ids |-> "none"] /\ media = [i \in Ids |-> "udp"]
  /\ slot = Empty /\ open = {} /\ subs = {} /\ cancelled = {}
  /\ run = [i \in Ids |-> "none"] /\ backlog = {} /\ ctl = [i \in Ids |-> <<>>]
  /\ step = [i \in Ids |-> "idle"] /\ informing = {} /\ down = FALSE /\ stop = "no"
  /\ talking = {} /\ byes = {} /\ raced = {}
-----------------------------------------------------------------------------
(* parseSDP and the forced role: how the media of an offer travels.           *)
MediaOf(offer) ==
  IF offer.proto = "udp" THEN "udp"
  ELSE IF Role = "auto" THEN IF offer.setup = "active" THEN "listen" ELSE "connect"
  ELSE IF Role = "passive" THEN "listen" ELSE "connect"

(* A refused offer gets 488 and changes nothing.                              *)
Acceptable(offer) ==
  /\ offer.kind = "playback" => Recorded
  /\ offer.kind = "talk" => HasSink /\ offer.proto = "udp"

SocketsOf(s) == {<<"udp", s.conn>>, <<"tcp", s.tcp>>, <<"ln", s.ln>>}

(* Mutant: a teardown that forgets the context of the session.                *)
TeardownKeepsContext ==
  /\ slot' = Empty /\ open' = open \ SocketsOf(slot) /\ subs' = subs \ {slot.sub}
  /\ UNCHANGED cancelled

(* teardownMediaLocked.                                                       *)
Teardown ==
  /\ slot' = Empty
  /\ open' = open \ SocketsOf(slot)
  /\ subs' = subs \ {slot.sub}
  /\ cancelled' = cancelled \cup ({slot.cancel} \ {0})

Done(i) == down \/ i \in cancelled

(* The INVITEs that are being handled.                                        *)
Handling == {i \in Ids : step[i] \in InHandler}

(* Is there a goroutine to handle a request?  Accepted connections outlive    *)
(* the listener, which is all that Server.Stop closes of TCP.                 *)
MayHandle == Listener \/ (stop # "done" /\ Handling = {} /\ informing = {})

MayAnswer == Listener \/ stop # "done"

Goes(i, where) == step' = [step EXCEPT ![i] = where]
-----------------------------------------------------------------------------
(* handleInvite, up to the first release of s.mu.                             *)
Invite(offer) ==
  /\ MayHandle /\ last < Invites /\ Acceptable(offer)
  /\ last' = last + 1
  /\ kind' = [kind EXCEPT ![last + 1] = offer.kind]
  /\ media' = [media EXCEPT ![last + 1] = MediaOf(offer)]
  /\ Teardown
  /\ Goes(last + 1, IF MediaOf(offer) = "listen" THEN "torn" ELSE "listening")
  /\ raced' = IF Handling = {} THEN raced ELSE raced \cup Handling \cup {last + 1}
  /\ UNCHANGED <<site, run, backlog, ctl, informing, down, stop, talking, byes>>

BindListener(i) ==
  /\ step[i] = "torn"
  /\ slot' = [slot EXCEPT !.ln = i] /\ open' = open \cup {<<"ln", i>>}
  /\ Goes(i, "listening")
  /\ UNCHANGED <<site, last, kind, media, subs, cancelled, run, backlog, ctl,
                 informing, down, stop, talking, byes, raced>>

BindMedia(i) ==
  /\ step[i] = "listening" /\ kind[i] # "talk"
  /\ slot' = [slot EXCEPT !.conn = i] /\ open' = open \cup {<<"udp", i>>}
  /\ Goes(i, "bound")
  /\ UNCHANGED <<site, last, kind, media, subs, cancelled, run, backlog, ctl,
                 informing, down, stop, talking, byes, raced>>

(* A socket that cannot be bound, an answer that cannot be sent, a dial that  *)
(* fails: the handler returns, and leaves what it has put into the slot.      *)
GiveUp(i) ==
  /\ step[i] \in {"torn", "listening", "bound", "answered"}
  /\ step[i] = "answered" => media[i] = "connect"
  /\ Goes(i, "idle")
  /\ UNCHANGED <<site, last, kind, media, slot, open, subs, cancelled, run, backlog,
                 ctl, informing, down, stop, talking, byes, raced>>

Answer(i) ==
  /\ step[i] = "bound" /\ MayAnswer
  /\ talking' = talking \cup {i}
  /\ Goes(i, IF media[i] = "connect" THEN "answered" ELSE "dialled")
  /\ UNCHANGED <<site, last, kind, media, slot, open, subs, cancelled, run, backlog,
                 ctl, informing, down, stop, byes, raced>>

Dial(i) ==
  /\ step[i] = "answered" /\ ~down
  /\ slot' = [slot EXCEPT !.tcp = i] /\ open' = open \cup {<<"tcp", i>>}
  /\ Goes(i, "dialled")
  /\ UNCHANGED <<site, last, kind, media, subs, cancelled, run, backlog, ctl,
                 informing, down, stop, talking, byes, raced>>

Launch(i) == run' = [run EXCEPT ![i] = IF media[i] = "listen" THEN "accept" ELSE "run"]

Subscribe(i) ==
  /\ step[i] = "dialled" /\ kind[i] = "live"
  /\ subs' = subs \cup {i} /\ slot' = [slot EXCEPT !.sub = i]
  /\ Goes(i, "subscribed")
  /\ UNCHANGED <<site, last, kind, media, open, cancelled, run, backlog, ctl,
                 informing, down, stop, talking, byes, raced>>

StartLive(i) ==
  /\ step[i] = "subscribed"
  /\ slot' = [slot EXCEPT !.cancel = i] /\ Launch(i) /\ Goes(i, "idle")
  /\ UNCHANGED <<site, last, kind, media, open, subs, cancelled, backlog, ctl,
                 informing, down, stop, talking, byes, raced>>

StartPlayback(i) ==
  /\ step[i] = "dialled" /\ kind[i] = "playback"
  /\ slot' = [slot EXCEPT !.cancel = i, !.ctl = i] /\ Launch(i) /\ Goes(i, "idle")
  /\ UNCHANGED <<site, last, kind, media, open, subs, cancelled, backlog, ctl,
                 informing, down, stop, talking, byes, raced>>

(* handleTalkbackInvite after its teardown: nothing is stored before the 200. *)
AnswerTalk(i) ==
  /\ step[i] = "listening" /\ kind[i] = "talk" /\ MayAnswer
  /\ open' = open \cup {<<"udp", i>>} /\ talking' = talking \cup {i}
  /\ Goes(i, "dialled")
  /\ UNCHANGED <<site, last, kind, media, slot, subs, cancelled, run, backlog, ctl,
                 informing, down, stop, byes, raced>>

StartTalk(i) ==
  /\ step[i] = "dialled" /\ kind[i] = "talk"
  /\ slot' = [slot EXCEPT !.conn = i, !.cancel = i] /\ Launch(i) /\ Goes(i, "idle")
  /\ UNCHANGED <<site, last, kind, media, open, subs, cancelled, backlog, ctl,
                 informing, down, stop, talking, byes, raced>>

(* handleBye: whatever the dialog of the BYE.                                 *)
Bye(i) ==
  /\ MayHandle /\ i \in talking
  /\ Teardown
  /\ byes' = byes \cup {i}
  /\ UNCHANGED <<site, last, kind, media, run, backlog, ctl, step, informing, down,
                 stop, talking, raced>>

(* handleInfo: it reads the slot under the lock and sends after it, to a      *)
(* channel that may have left the slot meanwhile, or that is full.  (Bound:   *)
(* one INFO at a time, on connections as well.)                               *)
Info(c) ==
  /\ MayHandle /\ informing = {} /\ slot.ctl # 0
  /\ informing' = informing \cup {<<slot.ctl, c>>}
  /\ UNCHANGED <<site, last, kind, media, slot, open, subs, cancelled, run, backlog,
                 ctl, step, down, stop, talking, byes, raced>>

InfoSends(i, c) ==
  /\ <<i, c>> \in informing /\ informing' = informing \ {<<i, c>>}
  /\ ctl' = IF Len(ctl[i]) < CtlCap THEN [ctl EXCEPT ![i] = Append(@, c)] ELSE ctl
  /\ UNCHANGED <<site, last, kind, media, slot, open, subs, cancelled, run, backlog,
                 step, down, stop, talking, byes, raced>>
-----------------------------------------------------------------------------
(* The media goroutines.                                                      *)

(* The platform dials the listener; the inner goroutine of acceptTCP accepts. *)
PlatformDials(i) ==
  /\ run[i] = "accept" /\ <<"ln", i>> \in open /\ i \notin backlog
  /\ backlog' = backlog \cup {i} /\ open' = open \cup {<<"tcp", i>>}
  /\ UNCHANGED <<site, last, kind, media, slot, subs, cancelled, run, ctl, step,
                 informing, down, stop, talking, byes, raced>>

(* The select of acceptTCP may take the connection although the context is    *)
(* done; then the field of a later session may be overwritten.                *)
TakeConn(i) ==
  /\ run[i] = "accept" /\ i \in backlog
  /\ slot' = [slot EXCEPT !.tcp = i] /\ run' = [run EXCEPT ![i] = "run"]
  /\ UNCHANGED <<site, last, kind, media, open, subs, cancelled, backlog, ctl, step,
                 informing, down, stop, talking, byes, raced>>

(* The deferred mediaCancel.                                                  *)
Exit(i) == run' = [run EXCEPT ![i] = "over"] /\ cancelled' = cancelled \cup {i}

AcceptEnds(i) ==
  /\ run[i] = "accept" /\ (Done(i) \/ (<<"ln", i>> \notin open /\ i \notin backlog))
  /\ Exit(i) /\ open' = IF Done(i) THEN open \ {<<"ln", i>>} ELSE open
  /\ UNCHANGED <<site, last, kind, media, slot, subs, backlog, ctl, step, informing,
                 down, stop, talking, byes, raced>>

(* A live session ends with its context or with its channel; a failed send is *)
(* only logged.                                                               *)
LiveEnds(i) ==
  /\ kind[i] = "live" /\ run[i] = "run" /\ (Done(i) \/ i \notin subs)
  /\ Exit(i)
  /\ UNCHANGED <<site, last, kind, media, slot, open, subs, backlog, ctl, step,
                 informing, down, stop, talking, byes, raced>>

(* The goroutine that Subscribe starts.                                       *)
Unsubscribe(i) ==
  /\ down /\ i \in subs
  /\ subs' = subs \ {i}
  /\ UNCHANGED <<site, last, kind, media, slot, open, cancelled, run, backlog, ctl,
                 step, informing, down, stop, talking, byes, raced>>

(* A receiver of audio ends with its socket.                                  *)
TalkEnds(i) ==
  /\ kind[i] \in {"talk", "cast"} /\ run[i] = "run" /\ <<"udp", i>> \notin open
  /\ Exit(i)
  /\ UNCHANGED <<site, last, kind, media, slot, open, subs, backlog, ctl, step,
                 informing, down, stop, talking, byes, raced>>

(* A playback reads its controls while it waits, ends at the end of the       *)
(* recordings or with a failed send, and while it is paused only with its     *)
(* context.                                                                   *)
Control(i) ==
  /\ kind[i] = "playback" /\ run[i] \in {"run", "paused"} /\ ctl[i] # <<>>
  /\ run' = [run EXCEPT ![i] = IF Head(ctl[i]) = "PAUSE" THEN "paused" ELSE "run"]
  /\ ctl' = [ctl EXCEPT ![i] = Tail(@)]
  /\ UNCHANGED <<site, last, kind, media, slot, open, subs, cancelled, backlog,
                 step, informing, down, stop, talking, byes, raced>>

(* Mutant: a paused playback waits for a control alone.                       *)
PlaybackEndsUnpaused(i) ==
  /\ kind[i] = "playback" /\ run[i] = "run"
  /\ Exit(i)
  /\ UNCHANGED <<site, last, kind, media, slot, open, subs, backlog, ctl, step,
                 informing, down, stop, talking, byes, raced>>

PlaybackEnds(i) ==
  /\ kind[i] = "playback" /\ (run[i] = "run" \/ (run[i] = "paused" /\ Done(i)))
  /\ Exit(i)
  /\ UNCHANGED <<site, last, kind, media, slot, open, subs, backlog, ctl, step,
                 informing, down, stop, talking, byes, raced>>
-----------------------------------------------------------------------------
(* followBroadcast: the slot is torn down, an INVITE sent, and the answer     *)
(* awaited for five seconds, on a goroutine of its own for each announcement. *)
CastBegins ==
  /\ site.broadcasts /\ HasSink /\ MayAnswer /\ last < Invites
  /\ last' = last + 1 /\ kind' = [kind EXCEPT ![last + 1] = "cast"]
  /\ slot' = Empty /\ subs' = subs \ {slot.sub} /\ cancelled' = cancelled \cup ({slot.cancel} \ {0})
  /\ open' = (open \ SocketsOf(slot)) \cup {<<"udp", last + 1>>}
  /\ Goes(last + 1, "asked")
  /\ UNCHANGED <<site, media, run, backlog, ctl, informing, down, stop, talking,
                 byes, raced>>

(* The INVITE goes through the UDP socket; there is none beside a listener.   *)
CastAnswered(i) ==
  /\ step[i] = "asked" /\ ~Listener
  /\ slot' = [slot EXCEPT !.conn = i, !.cancel = i]
  /\ run' = [run EXCEPT ![i] = "run"] /\ talking' = talking \cup {i}
  /\ Goes(i, "idle")
  /\ UNCHANGED <<site, last, kind, media, open, subs, cancelled, backlog, ctl,
                 informing, down, stop, byes, raced>>

(* Refused, unanswered, not sent, or the server's context is done.            *)
CastFails(i) ==
  /\ step[i] = "asked"
  /\ open' = open \ {<<"udp", i>>} /\ Goes(i, "idle")
  /\ UNCHANGED <<site, last, kind, media, slot, subs, cancelled, run, backlog, ctl,
                 informing, down, stop, talking, byes, raced>>
-----------------------------------------------------------------------------
(* Server.Stop: the context, then the media fields as they are, then SIP.     *)
StopCancels ==
  /\ stop = "no" /\ down' = TRUE /\ stop' = "cancelled"
  /\ UNCHANGED <<site, last, kind, media, slot, open, subs, cancelled, run, backlog,
                 ctl, step, informing, talking, byes, raced>>

StopCloses ==
  /\ stop = "cancelled" /\ stop' = "closed"
  /\ cancelled' = cancelled \cup ({slot.cancel} \ {0})
  /\ open' = open \ {<<"udp", slot.conn>>, <<"tcp", slot.tcp>>}
  /\ UNCHANGED <<site, last, kind, media, slot, subs, run, backlog, ctl, step,
                 informing, down, talking, byes, raced>>

StopSip ==
  /\ stop = "closed" /\ stop' = "done"
  /\ UNCHANGED <<site, last, kind, media, slot, open, subs, cancelled, run, backlog,
                 ctl, step, informing, down, talking, byes, raced>>
-----------------------------------------------------------------------------
(* A handler goes on, with what its kind of session wants next.               *)
HandlerGoesOn(i) ==
  \/ BindListener(i) \/ BindMedia(i) \/ GiveUp(i) \/ Answer(i) \/ Dial(i) \/ Subscribe(i)
  \/ StartLive(i) \/ StartPlayback(i) \/ AnswerTalk(i) \/ StartTalk(i)

Next ==
  \/ \E offer \in site.offers : Invite(offer)
  \/ \E i \in Ids :
       \/ BindListener(i) \/ BindMedia(i) \/ GiveUp(i) \/ Answer(i) \/ Dial(i) \/ Subscribe(i)
       \/ StartLive(i) \/ StartPlayback(i) \/ AnswerTalk(i) \/ StartTalk(i) \/ Bye(i)
  \/ \E c \in {"PAUSE", "PLAY"} : Info(c) \/ \E i \in Ids : InfoSends(i, c)
  \/ \E i \in Ids : \/ PlatformDials(i) \/ TakeConn(i) \/ AcceptEnds(i) \/ LiveEnds(i)
                    \/ Unsubscribe(i) \/ TalkEnds(i) \/ Control(i) \/ PlaybackEnds(i)
                    \/ CastAnswered(i) \/ CastFails(i)
  \/ CastBegins \/ StopCancels \/ StopCloses \/ StopSip

Spec == Init /\ [][Next]_vars

(* Every goroutine goes on; the platform need not dial, answer or send BYE.   *)
Fairness ==
  /\ WF_vars(StopCloses) /\ WF_vars(StopSip)
  /\ \A i \in Ids : /\ WF_vars(HandlerGoesOn(i)) /\ WF_vars(CastFails(i) \/ CastAnswered(i))
                    /\ WF_vars(TakeConn(i) \/ AcceptEnds(i)) /\ WF_vars(LiveEnds(i))
                    /\ WF_vars(Unsubscribe(i)) /\ WF_vars(TalkEnds(i))
                    /\ WF_vars(PlaybackEnds(i)) /\ WF_vars(Control(i))

FairSpec == Spec /\ Fairness
-----------------------------------------------------------------------------
(* What ends a goroutine sooner or later.                                     *)
Ending(i) ==
  \/ Done(i)
  \/ kind[i] = "live" /\ i \notin subs
  \/ kind[i] \in {"talk", "cast"} /\ <<"udp", i>> \notin open

Single(i) == run[i] \in Active => slot.cancel = i \/ Ending(i)
NoBroadcast == \A i \in Ids : kind[i] # "cast"

(* A repeated INVITE leaves no subscription behind (server.go:1570, 1686),    *)
(* and no goroutine that goes on streaming beside the current session, unless *)
(* a broadcast has interfered or its handler overlapped that of another       *)
(* INVITE; whatever BYEs, INFOs and a Stop came between its steps.            *)
OneSubscriber == \A i \in subs \ raced : slot.sub = i
OneStream == OneSubscriber /\ (NoBroadcast => \A i \in Ids \ raced : Single(i))

(* The same of every session, as server.go:1567-1569 and 1676-1679 say of     *)
(* repeated INVITEs.  The connections of a listener break it.                 *)
InviteLeaksNothing == NoBroadcast => \A i \in Ids : Single(i)

(* The same with broadcasts: broadcast.go:8-11 says that they are torn down   *)
(* with the existing paths.                                                   *)
BroadcastsToo == \A i \in Ids : Single(i)

(* A session that has been taken out of the slot, by a BYE, by another INVITE *)
(* or by Stop, comes to its end; a paused playback too.  (A talk that Stop    *)
(* overtakes between its 200 and its slot keeps its socket and is left out.)  *)
OldEnds ==
  \A i \in Ids :
    (run[i] \in Active /\ ((i \notin raced /\ slot.cancel # i) \/ (down /\ kind[i] # "talk")))
      ~> (run[i] = "over" \/ ~NoBroadcast)

(* A BYE ends only its own session (docs/gb28181-sink-design.md:658).         *)
ByeEndsOwnSession ==
  [][\A i, j \in Ids : Bye(i) /\ j # i /\ slot.cancel = j /\ run[j] \in Active
                         => slot'.cancel = j]_vars
=============================================================================
