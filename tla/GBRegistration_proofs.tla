------------------------ MODULE GBRegistration_proofs ------------------------
(***************************************************************************)
(* That the registration of a GB/T 28181 output never rests on the answer to *)
(* another REGISTER, for any transports, faults, bounds and platforms        *)
(* (GBRegistration).                                                         *)
(*                                                                           *)
(* Why: an answer "200" under way was given to a REGISTER that the platform  *)
(* accepted (Honest), and a message with the CSeq a flow waits for is of that *)
(* flow's kind (Own): two flows never wait with one CSeq, and an answer to   *)
(* the de-REGISTER of Stop is not mistaken for one to a REGISTER.            *)
(***************************************************************************)
EXTENDS GBRegistration, TLAPS

Flows == [Owners -> [at : {"idle", "lock", "send", "leg1", "leg2", "over"}, age : 0 .. Old]]

Replies == {m \in Answers : m.kind # "beat"}

(* What is on its way to a flow: on the network or in regRespCh.              *)
Mail(N, ch) == N \cup {ch[i] : i \in DOMAIN ch}

Honest(M, T) ==
  \A m \in M : m \in Answers /\ m.kind = "reg" /\ m.code = "200" /\ m.age # Old => m.age \in T

Own(M, F) ==
  \A o \in Owners : F[o].at \in {"leg1", "leg2"} =>
    \A m \in M : m.kind # "beat" /\ m.age = F[o].age /\ m.age # Old => m.kind = KindOf(o)

Shape ==
  /\ net \subseteq Requests \cup Answers /\ regCh \in Seq(Replies)
  /\ flow \in Flows /\ taken \subseteq 0 .. MaxAge

IInv ==
  /\ Shape
  /\ Honest(Mail(net, regCh), taken)
  /\ Own(Mail(net, regCh), flow)
  /\ ~fooled
-----------------------------------------------------------------------------
LEMMA InitInv == Init => IInv
<1> SUFFICES ASSUME Init PROVE IInv
  OBVIOUS
<1>1. Shape
  BY RegistrationAssumption DEF Init, Shape, Flows, Idle, Owners, Old
<1>2. Mail(net, regCh) = {}
  BY DEF Init, Mail
<1> QED
  BY <1>1, <1>2 DEF Init, IInv, Honest, Own

(* A message that was sent before another REGISTER is sent.                   *)
LEMMA OlderMail ==
  ASSUME NEW m \in Requests \cup Answers, m.kind # "beat", m.age < MaxAge
  PROVE  /\ Older(m) \in Requests \cup Answers
         /\ Older(m) \in Answers => m \in Answers /\ Older(m).code = m.code
         /\ Older(m).kind = m.kind /\ Older(m).age = m.age + 1 /\ m.age \in Nat
<1>1. CASE m \in Requests
  <2>1. m \in [kind : {"reg", "off"}, leg : {1, 2}, age : 0 .. MaxAge]
    BY <1>1 DEF Requests
  <2>2. Older(m) = [kind |-> m.kind, leg |-> m.leg, age |-> m.age + 1]
    BY <2>1 DEF Older
  <2>3. Older(m) \in Requests
    BY <2>1, <2>2, RegistrationAssumption DEF Requests
  <2>4. Older(m) \notin Answers
    BY <2>2 DEF Answers
  <2> QED
    BY <2>1, <2>2, <2>3, <2>4
<1>2. CASE m \in Answers
  <2>1. m \in [kind : {"reg", "off"}, code : {"401", "200", "403"}, age : 0 .. Old]
    BY <1>2 DEF Answers
  <2>2. Older(m) = [kind |-> m.kind, code |-> m.code, age |-> m.age + 1]
    BY <2>1 DEF Older
  <2>3. Older(m) \in Answers
    BY <2>1, <2>2, RegistrationAssumption DEF Answers, Old
  <2> QED
    BY <1>2, <2>1, <2>2, <2>3
<1> QED
  BY <1>1, <1>2

(* The same in regRespCh, where nothing is dropped for its age.               *)
LEMMA OlderReply ==
  ASSUME NEW m \in Replies
  PROVE  LET a == [m EXCEPT !.age = AgeOf(@)] IN
         /\ a \in Replies /\ a.kind = m.kind /\ a.code = m.code
         /\ a.age = AgeOf(m.age) /\ m.age \in 0 .. Old
<1>1. m \in [kind : {"reg", "off"}, code : {"401", "200", "403"}, age : 0 .. Old]
  BY DEF Replies, Answers
<1> DEFINE a == [m EXCEPT !.age = AgeOf(@)]
<1>2. a = [kind |-> m.kind, code |-> m.code, age |-> AgeOf(m.age)] /\ AgeOf(m.age) \in 0 .. Old
  BY <1>1, RegistrationAssumption DEF Old, AgeOf
<1>3. a \in Answers /\ a.kind # "beat"
  BY <1>1, <1>2 DEF Answers
<1> QED
  BY <1>1, <1>2, <1>3 DEF Replies

(* Ages tell CSeqs apart as long as the older of two is within the bound.     *)
LEMMA AgesDiffer ==
  ASSUME NEW a \in 0 .. Old, NEW b \in 0 .. Old, AgeOf(a) = AgeOf(b), AgeOf(a) # Old
  PROVE  a = b /\ a < MaxAge
  BY RegistrationAssumption DEF AgeOf, Old

(* M is the mail after o sent a leg, K that before: the leg, heartbeats, and  *)
(* what was there, older by one.                                              *)
AgedFrom(K, M, o) ==
  \A m \in M :
    \/ m.kind = "beat"
    \/ m \notin Answers /\ m.kind = KindOf(o) /\ m.age = 0
    \/ \E x \in K :
         /\ x.kind # "beat" /\ m.kind = x.kind
         /\ x.age \in 0 .. Old /\ m.age = AgeOf(x.age)
         /\ m \in Answers => x \in Answers /\ m.code = x.code

LEMMA AgedMail ==
  ASSUME NEW N, N \subseteq Requests \cup Answers, NEW ch \in Seq(Replies),
         NEW o \in Owners, NEW leg \in {1, 2}, SendLeg(o, leg, N, ch)
  PROVE  /\ net' \subseteq Requests \cup Answers /\ regCh' \in Seq(Replies)
         /\ AgedFrom(Mail(N, ch), Mail(net', regCh'), o)
<1> DEFINE r == [kind |-> KindOf(o), leg |-> leg, age |-> 0]
<1>1. r \in Requests /\ r \notin Answers /\ r.kind = KindOf(o) /\ r.age = 0
  BY RegistrationAssumption DEF Requests, Answers, KindOf
<1>2. net' \subseteq Aged(N) \cup {r}
  BY DEF SendLeg
<1>3. ASSUME NEW m \in Aged(N)
      PROVE  /\ m \in Requests \cup Answers
             /\ \/ m.kind = "beat"
                \/ \E x \in N :
                     /\ x.kind # "beat" /\ m.kind = x.kind
                     /\ x.age \in 0 .. Old /\ m.age = AgeOf(x.age)
                     /\ m \in Answers => x \in Answers /\ m.code = x.code
  <2>1. CASE m \in N /\ m.kind = "beat"
    BY <2>1
  <2>2. CASE \E x \in N : x.kind # "beat" /\ x.age < MaxAge /\ m = Older(x)
    <3>1. PICK x \in N : x.kind # "beat" /\ x.age < MaxAge /\ m = Older(x)
      BY <2>2
    <3>2. x \in Requests \cup Answers
      OBVIOUS
    <3>3. /\ m \in Requests \cup Answers
          /\ m \in Answers => x \in Answers /\ m.code = x.code
          /\ m.kind = x.kind /\ m.age = x.age + 1 /\ x.age \in Nat
      BY <3>1, <3>2, OlderMail
    <3>4. x.age \in 0 .. Old /\ m.age = AgeOf(x.age)
      BY <3>1, <3>3, RegistrationAssumption DEF Old, AgeOf
    <3> QED
      BY <3>1, <3>3, <3>4
  <2> QED
    BY <2>1, <2>2 DEF Aged
<1>4. /\ regCh' \in Seq(Replies)
      /\ \A i \in DOMAIN regCh' :
           /\ i \in DOMAIN ch /\ ch[i] \in Replies
           /\ regCh'[i] = [ch[i] EXCEPT !.age = AgeOf(@)]
  <2>1. regCh' = [i \in DOMAIN ch |-> [ch[i] EXCEPT !.age = AgeOf(@)]]
    BY DEF SendLeg
  <2>2. DOMAIN ch = 1 .. Len(ch) /\ Len(ch) \in Nat /\ \A i \in DOMAIN ch : ch[i] \in Replies
    OBVIOUS
  <2>3. \A i \in DOMAIN ch : [ch[i] EXCEPT !.age = AgeOf(@)] \in Replies
    BY <2>2, OlderReply
  <2>4. regCh' \in [1 .. Len(ch) -> Replies]
    BY <2>1, <2>2, <2>3
  <2>5. regCh' \in Seq(Replies)
    BY <2>2, <2>4
  <2> QED
    BY <2>1, <2>2, <2>5
<1>5. ASSUME NEW i \in DOMAIN regCh'
      PROVE  /\ ch[i] \in Mail(N, ch) /\ ch[i].kind # "beat" /\ regCh'[i].kind = ch[i].kind
             /\ ch[i].age \in 0 .. Old /\ regCh'[i].age = AgeOf(ch[i].age)
             /\ ch[i] \in Answers /\ regCh'[i].code = ch[i].code
  BY <1>4, OlderReply DEF Mail, Replies
<1>6. net' \subseteq Requests \cup Answers
  BY <1>1, <1>2, <1>3
<1>7. ASSUME NEW m \in Mail(net', regCh')
      PROVE  \/ m.kind = "beat"
             \/ m \notin Answers /\ m.kind = KindOf(o) /\ m.age = 0
             \/ \E x \in Mail(N, ch) :
                  /\ x.kind # "beat" /\ m.kind = x.kind
                  /\ x.age \in 0 .. Old /\ m.age = AgeOf(x.age)
                  /\ m \in Answers => x \in Answers /\ m.code = x.code
  <2>1. CASE m = r
    BY <1>1, <2>1
  <2>2. CASE m \in Aged(N)
    BY <1>3, <2>2 DEF Mail
  <2>3. CASE \E i \in DOMAIN regCh' : m = regCh'[i]
    BY <1>5, <2>3
  <2> QED
    BY <1>2, <2>1, <2>2, <2>3 DEF Mail
<1> QED
  BY <1>4, <1>6, <1>7 DEF AgedFrom

(* A leg sent by o leaves Honest and Own true.                                *)
LEMMA SendStep ==
  ASSUME Shape, NEW N, N \subseteq Requests \cup Answers, NEW ch \in Seq(Replies),
         Honest(Mail(N, ch), taken), Own(Mail(N, ch), flow), ~fooled, UNCHANGED fooled,
         NEW o \in Owners, NEW leg \in {1, 2}, SendLeg(o, leg, N, ch)
  PROVE  IInv'
<1> DEFINE F == [p \in Owners |->
                IF p = o THEN [at |-> IF leg = 1 THEN "leg1" ELSE "leg2", age |-> 0]
                ELSE IF Waiting(p) THEN [flow[p] EXCEPT !.age = AgeOf(@)] ELSE flow[p]]
<1>0. /\ net' \subseteq Requests \cup Answers /\ regCh' \in Seq(Replies)
      /\ AgedFrom(Mail(N, ch), Mail(net', regCh'), o)
  BY AgedMail
<1>1. flow' = F /\ taken' = {x + 1 : x \in {y \in taken : y < MaxAge}}
  BY DEF SendLeg
<1>2. ASSUME NEW p \in Owners
      PROVE  /\ flow[p] \in [at : {"idle", "lock", "send", "leg1", "leg2", "over"}, age : 0 .. Old]
             /\ AgeOf(flow[p].age) \in 0 .. Old
  BY RegistrationAssumption DEF Shape, Flows, AgeOf, Old
<1>3. ASSUME NEW p \in Owners
      PROVE  F[p] \in [at : {"idle", "lock", "send", "leg1", "leg2", "over"}, age : 0 .. Old]
  BY <1>2, RegistrationAssumption DEF Old
<1>4. taken' \subseteq 0 .. MaxAge
  BY <1>1, RegistrationAssumption DEF Shape
<1>5. Shape'
  BY <1>0, <1>1, <1>3, <1>4 DEF Shape, Flows
<1>6. Honest(Mail(net', regCh'), taken')
  <2> SUFFICES ASSUME NEW m \in Mail(net', regCh'),
                      m \in Answers, m.kind = "reg", m.code = "200", m.age # Old
               PROVE  m.age \in taken'
    BY DEF Honest
  <2>1. PICK x \in Mail(N, ch) : /\ x.kind = "reg" /\ x.age \in 0 .. Old
                                 /\ m.age = AgeOf(x.age) /\ x \in Answers /\ x.code = "200"
    BY <1>0 DEF AgedFrom
  <2>2. x.age # Old /\ x.age < MaxAge /\ m.age = x.age + 1
    BY <2>1, RegistrationAssumption DEF AgeOf, Old
  <2>3. x.age \in taken
    BY <2>1, <2>2 DEF Honest
  <2> QED
    BY <1>1, <2>2, <2>3
<1>7. Own(Mail(net', regCh'), flow')
  <2> SUFFICES ASSUME NEW p \in Owners, F[p].at \in {"leg1", "leg2"}, NEW m \in Mail(net', regCh'),
                      m.kind # "beat", m.age = F[p].age, m.age # Old
               PROVE  m.kind = KindOf(p)
    BY <1>1 DEF Own
  <2>1. CASE p = o
    <3>1. F[p].age = 0
      BY <2>1
    <3>2. ASSUME NEW x \in Mail(N, ch), x.age \in 0 .. Old, m.age = AgeOf(x.age)
          PROVE  FALSE
      BY <3>1, <3>2, RegistrationAssumption DEF AgeOf, Old
    <3> QED
      BY <1>0, <2>1, <3>2 DEF AgedFrom
  <2>2. CASE p # o
    <3>1. Waiting(p) /\ F[p] = [flow[p] EXCEPT !.age = AgeOf(@)]
      BY <2>2 DEF Waiting
    <3>2. F[p].age = AgeOf(flow[p].age) /\ flow[p].age \in 0 .. Old
      BY <1>2, <3>1
    <3>3. m.age # 0
      BY <3>2, RegistrationAssumption DEF AgeOf, Old
    <3>4. PICK x \in Mail(N, ch) : /\ x.kind # "beat" /\ m.kind = x.kind
                                   /\ x.age \in 0 .. Old /\ m.age = AgeOf(x.age)
      BY <1>0, <3>3 DEF AgedFrom
    <3>5. x.age = flow[p].age /\ x.age < MaxAge
      BY <3>2, <3>4, AgesDiffer
    <3>6. x.kind = KindOf(p)
      BY <3>1, <3>4, <3>5, RegistrationAssumption DEF Own, Waiting, Old
    <3> QED
      BY <3>4, <3>6
  <2> QED
    BY <2>1, <2>2
<1> QED
  BY <1>5, <1>6, <1>7 DEF IInv

(* A step that sends nothing but heartbeats to flows and makes none wait.     *)
LEMMA CalmStep ==
  ASSUME IInv, UNCHANGED taken, ~fooled',
         net' \subseteq Requests \cup Answers, regCh' \in Seq(Replies), flow' \in Flows,
         \A m \in Mail(net', regCh') : m.kind = "beat" \/ m \in Mail(net, regCh),
         \A p \in Owners : flow'[p].at \in {"leg1", "leg2"} => flow'[p] = flow[p]
  PROVE  IInv'
<1>1. Shape'
  BY DEF IInv, Shape
<1>2. Honest(Mail(net', regCh'), taken')
  BY DEF IInv, Honest
<1>3. Own(Mail(net', regCh'), flow')
  BY DEF IInv, Own
<1> QED
  BY <1>1, <1>2, <1>3 DEF IInv

(* A flow reads m; what is left to read is in N and ch.                       *)
LEMMA ReadStep ==
  ASSUME IInv, NEW N, N \subseteq Requests \cup Answers, NEW ch \in Seq(Replies),
         Mail(N, ch) \subseteq Mail(net, regCh),
         NEW o \in Owners, Waiting(o), NEW m \in Mail(net, regCh), m \in Answers,
         Read(o, m, N, ch)
  PROVE  IInv'
<1>1. /\ Shape /\ ~fooled
      /\ Honest(Mail(N, ch), taken) /\ Own(Mail(N, ch), flow)
  BY DEF IInv, Honest, Own
<1>2. CASE ~Matches(o, m) /\ net' = N /\ regCh' = ch /\ UNCHANGED <<flow, taken, fooled>>
  BY <1>1, <1>2, CalmStep DEF Shape
<1>3. CASE SendLeg(o, 2, N, ch) /\ UNCHANGED fooled
  BY <1>1, <1>3, SendStep
<1>4. CASE /\ Matches(o, m) /\ net' = N /\ regCh' = ch /\ UNCHANGED taken
           /\ Finish(o, IF m.code = "200" THEN "ok" ELSE "fail")
  <2>1. m.kind = KindOf(o) /\ m.age = flow[o].age /\ m.age # Old
    BY <1>4 DEF IInv, Own, Matches, Waiting
  <2>2. o # "stop" /\ m.code = "200" => flow[o].age \in taken
    BY <2>1 DEF IInv, Honest, KindOf
  <2>3. ~fooled' /\ flow' = [flow EXCEPT ![o] = Idle]
    BY <1>1, <1>4, <2>2 DEF Finish
  <2>4. Idle \in [at : {"idle", "lock", "send", "leg1", "leg2", "over"}, age : 0 .. Old]
    BY RegistrationAssumption DEF Idle, Old
  <2>5. flow' \in Flows
    BY <1>1, <2>3, <2>4 DEF Shape, Flows
  <2>6. \A p \in Owners : flow'[p].at \in {"leg1", "leg2"} => flow'[p] = flow[p]
    BY <1>1, <2>3 DEF Idle, Shape, Flows
  <2> QED
    BY <1>4, <2>3, <2>5, <2>6, CalmStep
<1> QED
  BY <1>2, <1>3, <1>4 DEF Read

(* A flow ends without the registration it asked for.                         *)
LEMMA GiveUpStep ==
  ASSUME IInv, NEW o \in Owners, Finish(o, "fail"), UNCHANGED <<net, regCh, taken>>
  PROVE  IInv'
<1>1. ~fooled' /\ flow' = [flow EXCEPT ![o] = Idle]
  BY DEF Finish, IInv
<1>2. Idle \in [at : {"idle", "lock", "send", "leg1", "leg2", "over"}, age : 0 .. Old]
  BY RegistrationAssumption DEF Idle, Old
<1>3. flow' \in Flows
  BY <1>1, <1>2 DEF IInv, Shape, Flows
<1>4. \A p \in Owners : flow'[p].at \in {"leg1", "leg2"} => flow'[p] = flow[p]
  BY <1>1 DEF Idle, IInv, Shape, Flows
<1> QED
  BY <1>1, <1>3, <1>4, CalmStep DEF IInv, Shape

(* The platform takes a REGISTER or lets it be.                               *)
LEMMA RegisterStep ==
  ASSUME IInv, NEW m \in net \cap Requests, PlatformRegister(m)
  PROVE  IInv'
<1>1. m.kind \in {"reg", "off"} /\ m.age \in 0 .. MaxAge /\ m \in Mail(net, regCh)
  BY DEF PlatformRegister, Requests, Mail
<1>2. UNCHANGED <<regCh, flow, fooled>>
  BY DEF PlatformRegister, deviceVars
<1>3. CASE net' = net \ {m} /\ UNCHANGED taken
  BY <1>2, <1>3, CalmStep DEF IInv, Shape, Mail
<1>4. CASE m.age < seen
  <2>1. PICK code \in {"401", "200", "403"} :
          /\ net' = (net \ {m}) \cup {[kind |-> m.kind, code |-> code, age |-> m.age]}
          /\ taken' = IF code = "200" /\ m.kind = "reg" THEN taken \cup {m.age} ELSE taken
    BY <1>4, RegistrationAssumption DEF PlatformRegister
  <2> DEFINE a == [kind |-> m.kind, code |-> code, age |-> m.age]
  <2>2. a \in Answers /\ m.age # Old
    BY <1>1, RegistrationAssumption DEF Answers, Old
  <2>3. \A x \in Mail(net', regCh') : x = a \/ x \in Mail(net, regCh)
    BY <1>2, <2>1 DEF Mail
  <2>4. Shape'
    BY <1>1, <1>2, <2>1, <2>2 DEF IInv, Shape
  <2>5. Honest(Mail(net', regCh'), taken')
    BY <2>1, <2>3 DEF IInv, Honest
  <2>6. Own(Mail(net', regCh'), flow')
    BY <1>1, <1>2, <2>2, <2>3 DEF IInv, Own
  <2> QED
    BY <1>2, <2>4, <2>5, <2>6 DEF IInv
<1> QED
  BY <1>3, <1>4 DEF PlatformRegister
-----------------------------------------------------------------------------
LEMMA Step == IInv /\ [Next]_vars => IInv'
<1> SUFFICES ASSUME IInv, [Next]_vars PROVE IInv'
  OBVIOUS
<1> USE RegistrationAssumption
<1>1. CASE SinkStart
  BY <1>1, CalmStep DEF SinkStart, IInv, Shape, Mail, platformVars
<1>2. CASE Bind
  BY <1>2, CalmStep DEF Bind, IInv, Shape, Mail, Flows, Owners, platformVars
<1>3. CASE DialFails
  BY <1>3, CalmStep DEF DialFails, IInv, Shape, Mail
<1>4. CASE BindLate
  BY <1>4, CalmStep DEF BindLate, IInv, Shape, Mail, platformVars
<1>5. CASE \E o \in {"life", "stop"} : Lock(o)
  BY <1>5, CalmStep DEF Lock, IInv, Shape, Mail, Flows, Owners, platformVars
<1>6. CASE \E o \in Owners : FirstLeg(o)
  <2>1. PICK o \in Owners : FirstLeg(o)
    BY <1>6
  <2>2. SendLeg(o, 1, net, regCh) /\ UNCHANGED fooled
    BY <2>1 DEF FirstLeg
  <2> QED
    BY <2>2, SendStep DEF IInv, Shape
<1>7. CASE \E o \in Owners : SendFails(o)
  BY <1>7, GiveUpStep DEF SendFails, platformVars
<1>8. CASE \E o \in Owners : ReadChannel(o)
  <2>1. PICK o \in Owners : ReadChannel(o)
    BY <1>8
  <2>2. /\ Waiting(o) /\ Read(o, Head(regCh), net, Tail(regCh))
        /\ Head(regCh) \in Mail(net, regCh) /\ Head(regCh) \in Replies
        /\ Tail(regCh) \in Seq(Replies) /\ Mail(net, Tail(regCh)) \subseteq Mail(net, regCh)
    BY <2>1 DEF ReadChannel, IInv, Shape, Mail
  <2> QED
    BY <2>2, ReadStep DEF IInv, Shape, Replies
<1>9. CASE \E m \in net \cap Answers : ReadSocket(m)
  <2>1. PICK m \in net \cap Answers : ReadSocket(m)
    BY <1>9
  <2>2. /\ Waiting("start") /\ Read("start", m, net \ {m}, regCh) /\ "start" \in Owners
        /\ m \in Mail(net, regCh) /\ Mail(net \ {m}, regCh) \subseteq Mail(net, regCh)
        /\ net \ {m} \subseteq Requests \cup Answers
    BY <2>1 DEF ReadSocket, Mail, IInv, Shape, Owners
  <2> QED
    BY <2>2, ReadStep DEF IInv, Shape
<1>10. CASE \E o \in Owners : TimeOut(o)
  BY <1>10, GiveUpStep DEF TimeOut, platformVars
<1>11. CASE \E m \in net \cap Answers : HandleResponse(m)
  <2>1. PICK m \in net \cap Answers : HandleResponse(m)
    BY <1>11
  <2>2. net' \subseteq net /\ UNCHANGED <<flow, taken, fooled>>
    BY <2>1 DEF HandleResponse
  <2>3. \/ regCh' = regCh
        \/ m.kind # "beat" /\ regCh' = Append(regCh, m)
    BY <2>1 DEF HandleResponse
  <2>4. regCh' \in Seq(Replies)
    BY <2>3 DEF IInv, Shape, Replies
  <2>5. \A x \in Mail(net', regCh') : x \in Mail(net, regCh)
    BY <2>2, <2>3 DEF Mail, IInv, Shape
  <2> QED
    BY <2>2, <2>4, <2>5, CalmStep DEF IInv, Shape
<1>12. CASE \E m \in net \cap Requests : PlatformRegister(m)
  BY <1>12, RegisterStep
<1>13. CASE \E m \in net \cap Requests : PlatformBeat(m)
  <2>1. PICK m \in net, code \in {"200", "403", "404", "482"} :
          /\ net' = (net \ {m}) \cup {[kind |-> "beat", code |-> code, age |-> 0]}
          /\ UNCHANGED <<regCh, flow, taken, fooled>>
    BY <1>13 DEF PlatformBeat, deviceVars
  <2>2. [kind |-> "beat", code |-> code, age |-> 0] \in Answers
    BY DEF Answers
  <2> QED
    BY <2>1, <2>2, CalmStep DEF IInv, Shape, Mail
<1>14. CASE OnSignal
  BY <1>14, CalmStep DEF OnSignal, WakeUp, LifeIdle, IInv, Shape, Mail, Flows, Owners
<1>15. CASE OnRetryTimer
  BY <1>15, CalmStep DEF OnRetryTimer, WakeUp, LifeIdle, IInv, Shape, Mail, Flows, Owners
<1>16. CASE OnRefreshTimer
  BY <1>16, CalmStep DEF OnRefreshTimer, WakeUp, LifeIdle, IInv, Shape, Mail, Flows, Owners
<1>17. CASE LifeEnds
  BY <1>17, CalmStep DEF LifeEnds, LifeIdle, IInv, Shape, Mail, Flows, Owners, platformVars
<1>18. CASE Heartbeat
  <2>1. /\ net' \subseteq net \cup {[kind |-> "beat", leg |-> 0, age |-> 0]}
        /\ UNCHANGED <<regCh, flow, taken, fooled>>
    BY <1>18 DEF Heartbeat, platformVars
  <2>2. [kind |-> "beat", leg |-> 0, age |-> 0] \in Requests
    BY DEF Requests
  <2> QED
    BY <2>1, <2>2, CalmStep DEF IInv, Shape, Mail
<1>19. CASE HeartEnds
  BY <1>19, CalmStep DEF HeartEnds, IInv, Shape, Mail, platformVars
<1>20. CASE LoopEnds
  BY <1>20, CalmStep DEF LoopEnds, IInv, Shape, Mail, platformVars
<1>21. CASE StopBegin
  BY <1>21, CalmStep DEF StopBegin, IInv, Shape, Mail, Flows, Owners, platformVars
<1>22. CASE StopCancels
  BY <1>22, CalmStep DEF StopCancels, IInv, Shape, Mail, platformVars
<1>23. CASE StopCloses
  BY <1>23, CalmStep DEF StopCloses, IInv, Shape, Mail, platformVars
<1>24. CASE StreamCloses
  BY <1>24, CalmStep DEF StreamCloses, IInv, Shape, Mail, platformVars
<1>25. CASE StopReturns
  BY <1>25, CalmStep DEF StopReturns, IInv, Shape, Mail, platformVars
<1>26. CASE PlatformForgets
  BY <1>26, CalmStep DEF PlatformForgets, IInv, Shape, Mail, deviceVars
<1>27. CASE \E m \in net : Lose(m)
  BY <1>27, CalmStep DEF Lose, IInv, Shape, Mail, deviceVars
<1>28. CASE Drop
  BY <1>28, CalmStep DEF Drop, IInv, Shape, Mail
<1>29. CASE DropNoticed
  BY <1>29, CalmStep DEF DropNoticed, IInv, Shape, Mail, platformVars
<1>30. CASE GoesDeaf
  BY <1>30, CalmStep DEF GoesDeaf, IInv, Shape, Mail
<1>31. CASE UNCHANGED vars
  BY <1>31, CalmStep DEF vars, IInv, Shape, Mail, platformVars, deviceVars
<1> QED
  BY <1>1, <1>2, <1>3, <1>4, <1>5, <1>6, <1>7, <1>8, <1>9, <1>10, <1>11, <1>12, <1>13,
    <1>14, <1>15, <1>16, <1>17, <1>18, <1>19, <1>20, <1>21, <1>22, <1>23, <1>24, <1>25,
    <1>26, <1>27, <1>28, <1>29, <1>30, <1>31 DEF Next

(* A REGISTER flow, of Start or of the re-registration goroutine, ends well   *)
(* only on an answer to the REGISTER it sent last, which the platform         *)
(* accepted (server.go:913).                                                  *)
THEOREM RegistrationHonest == Spec => []NeverFooled
<1>1. Init => IInv
  BY InitInv
<1>2. IInv /\ [Next]_vars => IInv'
  BY Step
<1>3. IInv => NeverFooled
  BY DEF IInv, NeverFooled
<1> QED
  BY <1>1, <1>2, <1>3, PTL DEF Spec
=============================================================================
