---------------------------- MODULE GBRegistration ----------------------------
(***************************************************************************)
(* Registration of a GB/T 28181 output at its platform: the life of          *)
(* GB28181Sink (src/server/internal/media/gb28181_sink.go), the REGISTER,    *)
(* keep-alive and de-REGISTER flows of device.Server                         *)
(* (src/server/internal/gb28181/device/server.go) and the outgoing stream    *)
(* transport (sip_tls.go), over a network that loses, repeats and reorders.  *)
(*                                                                           *)
(* Three goroutines run REGISTER flows: Start the first one, without regMu;  *)
(* the re-registration goroutine; and Stop, which de-registers.  A CSeq is   *)
(* written as its age: 0 is the last one nextRegisterCSeq gave out, and each *)
(* new one makes all others older, so no bound on CSeqs is needed.           *)
(*                                                                           *)
(* The platform is external: it takes a CSeq above the last it took, asks    *)
(* for a digest or not, and answers keep-alives by what it knows.            *)
(***************************************************************************)
EXTENDS Naturals, Sequences, FiniteSets

CONSTANTS Transports,     \* "udp", "tcp-out"
          FirstAnswers,   \* of the platform to an unauthenticated REGISTER: "401", "200"
          TimeoutCount,   \* HeartbeatTimeoutCount
          ChanCap,        \* capacity of regRespCh
          MaxAge,         \* bound: an older message is lost
          MaxFaults,      \* bound: losses, repetitions, refusals, restarts, drops, silences
          Faulty,         \* which faults happen
          Slow            \* may a time-out strike while the answer is on its way

ASSUME RegistrationAssumption ==
  /\ Transports \subseteq {"udp", "tcp-out"} /\ FirstAnswers \subseteq {"401", "200"}
  /\ TimeoutCount \in Nat \ {0} /\ ChanCap \in Nat \ {0}
  /\ MaxAge \in Nat /\ MaxFaults \in Nat /\ Slow \in BOOLEAN
  /\ Faulty \subseteq {"lose", "repeat", "refuse", "forget", "drop", "dial", "idle"}

VARIABLES
  transport,
  srv,          \* the sink: "new", then server.Start: "starting", "serving", "ended"
  conn,         \* sipConn or the entry of tcpConns: "none", "up", "dead" (nobody noticed), "closed"
  deaf,         \* the read deadline of the stream has passed
  flow,         \* of each goroutine: where its REGISTER flow is, and the age of its CSeq
  timer, signal,             \* of the re-registration goroutine; reRegisterCh
  heart, quiet, failures,    \* keep-alive goroutine, heartbeats since lastPlatformContact, keepaliveFailures
  regCh,                     \* regRespCh
  cancelled, stop,           \* the context; where GB28181Sink.Stop is
  net,                       \* messages on their way
  knows, seen,               \* platform: the device is registered; age of the last CSeq taken
  taken,                     \* history: ages of the REGISTERs the platform accepted
  fooled,                    \* history: a flow ended well that the platform did not accept
  faults

deviceVars == <<transport, srv, conn, deaf, flow, timer, signal, heart, quiet, failures,
                regCh, cancelled, stop, fooled>>
platformVars == <<knows, seen, taken, faults>>
vars == <<deviceVars, net, platformVars>>

Owners == {"start", "life", "stop"}
Old == MaxAge + 1
Requests == [kind : {"reg", "off"}, leg : {1, 2}, age : 0 .. MaxAge]
              \cup [kind : {"beat"}, leg : {0}, age : {0}]
Answers == [kind : {"reg", "off"}, code : {"401", "200", "403"}, age : 0 .. Old]
             \cup [kind : {"beat"}, code : {"200", "403", "404", "482"}, age : {0}]
Idle == [at |-> "idle", age |-> 0]
Waiting(o) == flow[o].at \in {"leg1", "leg2"}
KindOf(o) == IF o = "stop" THEN "off" ELSE "reg"

TypeOK ==
  /\ transport \in Transports /\ srv \in {"new", "starting", "serving", "ended"}
  /\ conn \in {"none", "up", "dead", "closed"} /\ deaf \in BOOLEAN
  /\ flow \in [Owners -> [at : {"idle", "lock", "send", "leg1", "leg2", "over"}, age : 0 .. Old]]
  /\ timer \in {"refresh", "retry"} /\ signal \in BOOLEAN
  /\ heart \in {"off", "on", "over"} /\ quiet \in 0 .. TimeoutCount + 1 /\ failures \in 0 .. TimeoutCount
  /\ regCh \in Seq(Answers) /\ Len(regCh) <= ChanCap
  /\ cancelled \in BOOLEAN /\ stop \in {"no", "flow", "cancel", "close", "wait", "done"}
  /\ net \subseteq Requests \cup Answers
  /\ knows \in BOOLEAN /\ fooled \in BOOLEAN /\ seen \in 0 .. Old /\ taken \subseteq 0 .. MaxAge
  /\ faults \in 0 .. MaxFaults

Init ==
  /\ transport \in Transports /\ srv = "new" /\ conn = "none" /\ deaf = FALSE
  /\ flow = [o \in Owners |-> Idle] /\ fooled = FALSE
  /\ timer = "refresh" /\ signal = FALSE
  /\ heart = "off" /\ quiet = TimeoutCount + 1 /\ failures = 0 /\ regCh = <<>>
  /\ cancelled = FALSE /\ stop = "no" /\ net = {}
  /\ knows = FALSE /\ seen = Old /\ taken = {} /\ faults = 0

Fault(f) == f \in Faulty /\ faults < MaxFaults /\ faults' = faults + 1
-----------------------------------------------------------------------------
(* Sending.  A datagram always leaves; a stream needs its entry in tcpConns.  *)
CanSend == conn \in {"up", "dead"}
Reaches == conn = "up"

Older(m) == [m EXCEPT !.age = @ + 1]
Aged(S) == {m \in S : m.kind = "beat"}
             \cup {Older(m) : m \in {x \in S : x.kind # "beat" /\ x.age < MaxAge}}
AgeOf(a) == IF a = Old THEN Old ELSE a + 1

(* nextRegisterCSeq and the write of one leg; N and ch are the network and    *)
(* the channel before it.                                                     *)
SendLeg(o, leg, N, ch) ==
  /\ net' = Aged(N) \cup (IF Reaches THEN {[kind |-> KindOf(o), leg |-> leg, age |-> 0]} ELSE {})
  /\ regCh' = [i \in DOMAIN ch |-> [ch[i] EXCEPT !.age = AgeOf(@)]]
  /\ flow' = [p \in Owners |->
                IF p = o THEN [at |-> IF leg = 1 THEN "leg1" ELSE "leg2", age |-> 0]
                ELSE IF Waiting(p) THEN [flow[p] EXCEPT !.age = AgeOf(@)] ELSE flow[p]]
  /\ seen' = AgeOf(seen)
  /\ taken' = {x + 1 : x \in {y \in taken : y < MaxAge}}

(* The end of a flow.  Start goes on to serve whatever the outcome, with a    *)
(* retry on UDP; the goroutine arms its timer; Stop goes on to cancel.        *)
Finish(o, outcome) ==
  /\ flow' = [flow EXCEPT ![o] = Idle]
  /\ fooled' = (fooled \/ (outcome = "ok" /\ o # "stop" /\ flow[o].age \notin taken))
  /\ srv' = IF o = "start" THEN "serving" ELSE srv
  /\ heart' = IF o = "start" THEN "on" ELSE heart
  /\ signal' = (signal \/ (o = "start" /\ outcome = "fail" /\ transport = "udp"))
  /\ timer' = IF o # "life" THEN timer ELSE IF outcome = "ok" THEN "refresh" ELSE "retry"
  /\ stop' = IF o = "stop" THEN "cancel" ELSE stop
-----------------------------------------------------------------------------
(* Start of the sink: the server starts in a goroutine of its own.            *)
SinkStart ==
  /\ srv = "new" /\ stop = "no"
  /\ srv' = "starting"
  /\ UNCHANGED <<transport, deaf, conn, flow, timer, signal, heart, quiet,
                 failures, regCh, cancelled, stop, net, platformVars, fooled>>

(* Listening on UDP, or the first dial of the stream.                         *)
Bind ==
  /\ srv = "starting" /\ conn = "none" /\ flow["start"] = Idle
  /\ conn' = "up"
  /\ ~cancelled
  /\ flow' = [flow EXCEPT !["start"].at = "send"]
  /\ UNCHANGED <<transport, deaf, srv, timer, signal, heart, quiet, failures,
                 regCh, cancelled, stop, net, platformVars, fooled>>

(* The first dial of the stream fails: Start returns the error, nothing runs. *)
DialFails ==
  /\ srv = "starting" /\ conn = "none" /\ transport = "tcp-out" /\ flow["start"] = Idle
  /\ \/ Fault("dial")
     \/ cancelled /\ UNCHANGED faults
  /\ srv' = "ended"
  /\ UNCHANGED <<transport, deaf, conn, flow, timer, signal, heart, quiet,
                 failures, regCh, cancelled, stop, net, knows, seen, taken,
                 fooled>>

(* A Stop that was over before the server was bound.                          *)
BindLate ==
  /\ srv = "starting" /\ conn = "none" /\ transport = "udp" /\ flow["start"] = Idle /\ cancelled
  /\ srv' = "ended"
  /\ UNCHANGED <<transport, deaf, conn, flow, timer, signal, heart, quiet,
                 failures, regCh, cancelled, stop, net, platformVars, fooled>>
-----------------------------------------------------------------------------
(* REGISTER flows.                                                            *)

(* regMu is held from the lock to the end of the flow, not by Start.          *)
RegMuFree == \A o \in {"life", "stop"} : flow[o].at \in {"idle", "lock", "over"}

Lock(o) ==
  /\ flow[o].at = "lock" /\ RegMuFree
  /\ flow' = [flow EXCEPT ![o].at = "send"]
  /\ UNCHANGED <<transport, deaf, srv, conn, timer, signal, heart, quiet,
                 failures, regCh, cancelled, stop, net, platformVars, fooled>>

FirstLeg(o) ==
  /\ flow[o].at = "send" /\ CanSend
  /\ SendLeg(o, 1, net, regCh)
  /\ UNCHANGED <<transport, deaf, srv, conn, timer, signal, heart, quiet,
                 failures, cancelled, stop, knows, faults, fooled>>

SendFails(o) ==
  /\ flow[o].at = "send" /\ ~CanSend
  /\ Finish(o, "fail")
  /\ UNCHANGED <<transport, deaf, conn, quiet, failures, regCh, cancelled, net,
                 platformVars>>

(* Mutant: before CSeqs were compared, the first answer in line was taken.    *)
MatchesAny(o, m) == m.kind # "beat"

(* registerResponseMatches: the answer has the CSeq of the outstanding leg.   *)
Matches(o, m) == m.kind # "beat" /\ m.age = flow[o].age /\ m.age # Old

(* What a flow does with an answer it read: nothing unless it matches; the    *)
(* digest leg after the first 401; else the end.                              *)
Read(o, m, N, ch) ==
  \/ /\ ~Matches(o, m)
     /\ net' = N /\ regCh' = ch
     /\ UNCHANGED <<flow, srv, heart, signal, timer, stop, quiet, seen, taken, fooled>>
  \/ /\ Matches(o, m) /\ m.code = "401" /\ flow[o].at = "leg1" /\ CanSend
     /\ SendLeg(o, 2, N, ch)
     /\ UNCHANGED <<srv, heart, signal, timer, stop, quiet, fooled>>
  \/ /\ Matches(o, m) /\ (m.code = "401" => flow[o].at = "leg2" \/ ~CanSend)
     /\ Finish(o, IF m.code = "200" THEN "ok" ELSE "fail")
     /\ quiet' = IF m.code = "200" /\ o # "stop" THEN 0 ELSE quiet
     /\ net' = N /\ regCh' = ch
     /\ UNCHANGED <<seen, taken>>

(* channelResponseSource: answers the receive loop put into regRespCh.        *)
UsesChannel(o) == o # "start" \/ transport = "tcp-out"

ReadChannel(o) ==
  /\ Waiting(o) /\ UsesChannel(o) /\ regCh # <<>>
  /\ Read(o, Head(regCh), net, Tail(regCh))
  /\ UNCHANGED <<transport, deaf, conn, failures, cancelled, knows, faults>>

(* socketResponseSource: before the receive loop runs, Start reads the socket *)
(* itself and drops whatever is not its own.                                  *)
ReadSocket(m) ==
  /\ Waiting("start") /\ ~UsesChannel("start") /\ conn = "up"
  /\ Read("start", m, net \ {m}, regCh)
  /\ UNCHANGED <<transport, deaf, conn, failures, cancelled, knows, faults>>

(* The answer a flow waits for is still on its way, and will be heard.        *)
Pending(o) ==
  \E m \in (IF deaf THEN {} ELSE net) \cup {regCh[i] : i \in DOMAIN regCh} :
    m.kind = KindOf(o) /\ m.age = flow[o].age

(* Mutant: only the reader of the socket has a deadline.                      *)
TimeOutSocketOnly(o) ==
  /\ Waiting(o) /\ o = "start" /\ (Slow \/ conn = "closed" \/ ~Pending(o))
  /\ Finish(o, "fail")
  /\ UNCHANGED <<transport, deaf, conn, quiet, failures, regCh, cancelled, net,
                 platformVars>>

TimeOut(o) ==
  /\ Waiting(o) /\ (Slow \/ conn = "closed" \/ ~Pending(o))
  /\ Finish(o, "fail")
  /\ UNCHANGED <<transport, deaf, conn, quiet, failures, regCh, cancelled, net,
                 platformVars>>
-----------------------------------------------------------------------------
(* The re-registration goroutine, of startLifecycles.                         *)
LifeIdle == flow["life"] = Idle /\ heart # "off"

(* ensureStreamConn: a stream that is gone is dialled again, before regMu.    *)
WakeUp ==
  /\ LifeIdle
  /\ flow' = [flow EXCEPT !["life"].at = "lock"]
  /\ IF transport = "udp" \/ conn \in {"up", "dead"}
     THEN UNCHANGED <<conn, faults>>
     ELSE \/ ~cancelled /\ conn' = "up" /\ UNCHANGED faults
          \/ cancelled /\ UNCHANGED <<conn, faults>>
          \/ Fault("dial") /\ UNCHANGED conn
  /\ UNCHANGED <<transport, deaf, srv, timer, heart, quiet, failures, regCh,
                 cancelled, stop, net, knows, seen, taken, fooled>>

OnSignal == signal /\ signal' = FALSE /\ WakeUp
OnRetryTimer == timer = "retry" /\ UNCHANGED signal /\ WakeUp
OnRefreshTimer == timer = "refresh" /\ UNCHANGED signal /\ WakeUp

LifeEnds ==
  /\ LifeIdle /\ cancelled
  /\ flow' = [flow EXCEPT !["life"].at = "over"]
  /\ UNCHANGED <<transport, deaf, srv, conn, timer, signal, heart, quiet,
                 failures, regCh, cancelled, stop, net, platformVars, fooled>>

(* platformSilent: `quiet` whole intervals have passed since the last answer, *)
(* and a part of another; a platform never heard is never silent.             *)
Never == TimeoutCount + 1
MayBeSilent == quiet # Never /\ quiet + 1 >= TimeoutCount
MustBeSilent == quiet = TimeoutCount

(* One tick of the keep-alive goroutine: the silence detector, then a MESSAGE.*)
Heartbeat ==
  /\ heart = "on"
  /\ \E silent \in BOOLEAN :
       /\ (silent => MayBeSilent) /\ (MustBeSilent => silent)
       /\ quiet' = IF silent THEN 0 ELSE IF quiet = Never THEN Never ELSE quiet + 1
       /\ IF CanSend
          THEN /\ net' = net \cup (IF Reaches THEN {[kind |-> "beat", leg |-> 0, age |-> 0]} ELSE {})
               /\ signal' = (signal \/ silent)
               /\ UNCHANGED failures
          ELSE LET enough == failures + 1 >= TimeoutCount IN
               /\ failures' = IF enough THEN 0 ELSE failures + 1
               /\ signal' = (signal \/ silent \/ enough)
               /\ UNCHANGED net
  /\ UNCHANGED <<transport, deaf, srv, conn, flow, timer, heart, regCh,
                 cancelled, stop, platformVars, fooled>>

HeartEnds ==
  /\ heart = "on" /\ cancelled /\ heart' = "over"
  /\ UNCHANGED <<transport, deaf, srv, conn, flow, timer, signal, quiet,
                 failures, regCh, cancelled, stop, net, platformVars, fooled>>
-----------------------------------------------------------------------------
(* The receive loop: of Start on UDP, of the connection on a stream.          *)
LoopReads == conn = "up" /\ ~deaf /\ (transport = "tcp-out" \/ srv = "serving")

(* readSIPStream: a second without a message.  The deadline is not set again, *)
(* so every later read fails at once, as one that timed out: the loop neither *)
(* reads nor ends until the device itself closes the stream.                  *)
GoesDeaf ==
  /\ transport = "tcp-out" /\ conn \in {"up", "dead"} /\ ~deaf
  /\ Fault("idle") /\ deaf' = TRUE
  /\ UNCHANGED <<transport, srv, conn, flow, timer, signal, heart, quiet, failures, regCh,
                 cancelled, stop, net, knows, seen, taken, fooled>>

(* Mutant: a 403 to a keep-alive is passed over like a 404.                   *)
KeepaliveAnswerMild(code) ==
  IF code = "200" THEN failures' = 0 /\ UNCHANGED signal ELSE UNCHANGED <<failures, signal>>

(* What handleResponse does with the answer to a keep-alive.                  *)
KeepaliveAnswer(code) ==
  LET more == IF failures < TimeoutCount THEN failures + 1 ELSE failures
      enough == failures + 1 >= TimeoutCount
  IN CASE code = "200" -> failures' = 0 /\ UNCHANGED signal
       [] code = "403" -> failures' = more /\ signal' = TRUE
       [] code = "404" -> UNCHANGED <<failures, signal>>
       [] OTHER -> /\ failures' = IF enough THEN 0 ELSE more
                   /\ signal' = (signal \/ enough)

(* REGISTER answers go to regRespCh unless it is full.                        *)
HandleResponse(m) ==
  /\ LoopReads
  /\ quiet' = 0
  /\ IF m.kind = "beat"
     THEN KeepaliveAnswer(m.code) /\ UNCHANGED regCh
     ELSE /\ regCh' = IF Len(regCh) < ChanCap THEN Append(regCh, m) ELSE regCh
          /\ UNCHANGED <<failures, signal>>
  /\ \/ net' = net \ {m} /\ UNCHANGED faults
     \/ transport = "udp" /\ Fault("repeat") /\ UNCHANGED net
  /\ UNCHANGED <<transport, deaf, srv, conn, flow, timer, heart, cancelled,
                 stop, knows, seen, taken, fooled>>

LoopEnds ==
  /\ transport = "udp" /\ srv = "serving" /\ cancelled
  /\ srv' = "ended"
  /\ UNCHANGED <<transport, deaf, conn, flow, timer, signal, heart, quiet,
                 failures, regCh, cancelled, stop, net, platformVars, fooled>>
-----------------------------------------------------------------------------
(* GB28181Sink.Stop: de-register, then Server.Stop, then wait for Start.      *)
StopBegin ==
  /\ srv # "new" /\ stop = "no"
  /\ stop' = "flow" /\ flow' = [flow EXCEPT !["stop"].at = "lock"]
  /\ UNCHANGED <<transport, deaf, srv, conn, timer, signal, heart, quiet,
                 failures, regCh, cancelled, net, platformVars, fooled>>

StopCancels ==
  /\ stop = "cancel" /\ cancelled' = TRUE /\ stop' = "close"
  /\ UNCHANGED <<transport, deaf, srv, conn, flow, timer, signal, heart, quiet,
                 failures, regCh, net, platformVars, fooled>>

(* Server.Stop closes what it finds; the stream is closed by a goroutine that *)
(* waits for the context (dialStream), which may be later.                    *)
StopCloses ==
  /\ stop = "close" /\ stop' = "wait"
  /\ conn' = IF transport = "udp" /\ conn = "up" THEN "closed" ELSE conn
  /\ UNCHANGED <<transport, deaf, srv, flow, timer, signal, heart, quiet,
                 failures, regCh, cancelled, net, platformVars, fooled>>

StreamCloses ==
  /\ cancelled /\ transport = "tcp-out" /\ conn \in {"up", "dead"}
  /\ conn' = "closed" /\ net' = {} /\ deaf' = FALSE
  /\ UNCHANGED <<transport, srv, flow, timer, signal, heart, quiet,
                 failures, regCh, cancelled, stop, platformVars, fooled>>

(* Start has returned, or three seconds are over.                             *)
StopReturns ==
  /\ stop = "wait"
  /\ Slow \/ srv = "ended" \/ (transport = "tcp-out" /\ srv # "starting")
  /\ stop' = "done"
  /\ UNCHANGED <<transport, deaf, srv, conn, flow, timer, signal, heart, quiet,
                 failures, regCh, cancelled, net, platformVars, fooled>>
-----------------------------------------------------------------------------
(* The platform and the network.                                              *)
PlatformRegister(m) ==
  /\ m.kind # "beat"
  /\ IF m.age < seen
     THEN \E code \in (IF m.leg = 1 THEN FirstAnswers ELSE {"200"}) \cup {"403"} :
            /\ IF code = "403" THEN Fault("refuse") ELSE UNCHANGED faults
            /\ seen' = m.age
            /\ knows' = IF code = "200" THEN m.kind = "reg" ELSE knows
            /\ taken' = IF code = "200" /\ m.kind = "reg" THEN taken \cup {m.age} ELSE taken
            /\ net' = (net \ {m}) \cup {[kind |-> m.kind, code |-> code, age |-> m.age]}
     ELSE net' = net \ {m} /\ UNCHANGED <<seen, knows, taken, faults>>
  /\ UNCHANGED deviceVars

PlatformBeat(m) ==
  /\ m.kind = "beat"
  /\ \E code \in {"200", "403", "404", "482"} :
       /\ IF code \in {"404", "482"} THEN Fault("refuse")
          ELSE code = (IF knows THEN "200" ELSE "403") /\ UNCHANGED faults
       /\ net' = (net \ {m}) \cup {[kind |-> "beat", code |-> code, age |-> 0]}
  /\ UNCHANGED <<deviceVars, knows, seen, taken>>

PlatformForgets ==
  /\ knows /\ Fault("forget") /\ knows' = FALSE
  /\ UNCHANGED <<deviceVars, net, seen, taken>>

Lose(m) ==
  /\ transport = "udp" /\ Fault("lose") /\ net' = net \ {m}
  /\ UNCHANGED <<deviceVars, knows, seen, taken>>

Drop ==
  /\ transport = "tcp-out" /\ conn = "up" /\ Fault("drop")
  /\ conn' = "dead" /\ net' = {}
  /\ UNCHANGED <<transport, deaf, srv, flow, timer, signal, heart, quiet,
                 failures, regCh, cancelled, stop, knows, seen, taken, fooled>>

(* The read loop of a dropped connection fails: its entry leaves tcpConns.    *)
DropNoticed ==
  /\ conn = "dead" /\ ~deaf /\ conn' = "none"
  /\ UNCHANGED <<transport, deaf, srv, flow, timer, signal, heart, quiet,
                 failures, regCh, cancelled, stop, net, platformVars, fooled>>
-----------------------------------------------------------------------------
Next ==
  \/ SinkStart \/ Bind \/ DialFails \/ BindLate
  \/ Lock("life") \/ Lock("stop")
  \/ \E o \in Owners : FirstLeg(o) \/ SendFails(o) \/ ReadChannel(o) \/ TimeOut(o)
  \/ \E m \in net \cap Answers : ReadSocket(m) \/ HandleResponse(m)
  \/ \E m \in net \cap Requests : PlatformRegister(m) \/ PlatformBeat(m)
  \/ OnSignal \/ OnRetryTimer \/ OnRefreshTimer \/ LifeEnds \/ Heartbeat \/ HeartEnds \/ LoopEnds
  \/ StopBegin \/ StopCancels \/ StopCloses \/ StreamCloses \/ StopReturns
  \/ PlatformForgets \/ (\E m \in net : Lose(m)) \/ Drop \/ DropNoticed \/ GoesDeaf

Spec == Init /\ [][Next]_vars

(* Fairness: every goroutine goes on, what the network does not lose arrives, *)
(* the platform answers, a ticker ticks.  A goroutine that waits for regMu    *)
(* gets it although the other takes it again and again (sync.Mutex), and a    *)
(* select does not ignore a done context for ever.  Faults are not fair, and  *)
(* nor is the refresh timer, which takes most of the expiry of an hour.       *)
Serve(kinds) == \E m \in {x \in net \cap Answers : x.kind \in kinds} : HandleResponse(m)
Answer(kinds) ==
  \E m \in {x \in net \cap Requests : x.kind \in kinds} : PlatformRegister(m) \/ PlatformBeat(m)

Fairness ==
  /\ WF_vars(Bind \/ DialFails \/ BindLate)
  /\ SF_vars(Lock("life")) /\ SF_vars(Lock("stop"))
  /\ \A o \in Owners : /\ WF_vars(FirstLeg(o) \/ SendFails(o))
                       /\ WF_vars(ReadChannel(o)) /\ WF_vars(TimeOut(o))
  /\ WF_vars(\E m \in net \cap Answers : ReadSocket(m))
  /\ WF_vars(Serve({"reg", "off"})) /\ WF_vars(Serve({"beat"}))
  /\ WF_vars(Answer({"reg", "off"})) /\ WF_vars(Answer({"beat"}))
  /\ WF_vars(OnSignal) /\ WF_vars(OnRetryTimer) /\ SF_vars(LifeEnds)
  /\ WF_vars(Heartbeat) /\ WF_vars(HeartEnds) /\ WF_vars(LoopEnds) /\ WF_vars(DropNoticed)
  /\ WF_vars(StopCancels) /\ WF_vars(StopCloses) /\ WF_vars(StreamCloses) /\ WF_vars(StopReturns)

FairSpec == Spec /\ Fairness
-----------------------------------------------------------------------------
(* The device never takes itself for registered on the strength of an answer  *)
(* to an earlier REGISTER: a flow that ends well ends with a REGISTER that    *)
(* the platform accepted (server.go:913-930).                                 *)
NeverFooled == ~fooled

(* A serving device that the platform does not know (restarted, refused it,   *)
(* dropped the connection, lost the answer) is registered again by its        *)
(* keep-alives alone: not only once the refresh timer strikes; unless its     *)
(* stream has gone deaf.                                                      *)
Heals == (srv = "serving" /\ ~knows /\ stop = "no") ~> (knows \/ stop # "no" \/ deaf)

(* The same on a stream that was silent for a second, which sip_tcp.go:124    *)
(* expects it to be between messages; sip_tls.go:196-200 says that the next   *)
(* cycle heals it.                                                            *)
StreamHeals == (srv = "serving" /\ ~knows /\ stop = "no") ~> (knows \/ stop # "no")

(* Stop comes to its end without its three-second limit, although it has to   *)
(* wait for a flow of the re-registration goroutine and for an answer.        *)
StopEnds == (stop = "flow") ~> (stop = "done")

(* After Stop the platform shows the device as gone: what                     *)
(* docs/gb28181-sink-design.md:63 promises.                                   *)
DepartedAfterStop == stop = "done" => ~knows
=============================================================================
