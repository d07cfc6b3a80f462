--------------------------- MODULE FramePipe_proofs ---------------------------
(***************************************************************************)
(* Proofs about FramePipe, for every set of tracks, every buffer size and    *)
(* every bound on frames and starts.                                         *)
(***************************************************************************)
EXTENDS FramePipe, FiniteSetTheorems, TLAPS

(* The generation counter covers what refers to it: a started pipe and a pipe *)
(* being started have a generation, a routing emitter read one, and an        *)
(* emitter inside the pipe carries a frame.                                   *)
GenInv ==
  /\ started => gen > 0
  /\ mu = "start" => started
  /\ \A t \in Tracks : pc[t] = "routing" => ch[t] > 0
  /\ \A t \in Tracks : pc[t] # "idle" => seen[t] > 0

TypeInv == TypeOK /\ GenInv

LEMMA InitType == Init => TypeInv
<1> SUFFICES ASSUME Init
             PROVE  TypeInv
  OBVIOUS
<1> USE PipeAssumption DEF Init
<1>1. /\ queue \in [Gens -> Seq(Frames)]
      /\ \A g \in Gens : Len(queue[g]) <= BufSize
  OBVIOUS
<1>2. sent \in Seq(Deliveries)
  OBVIOUS
<1>3. gen \in 0 .. MaxStarts /\ ch \in [Tracks -> 0 .. MaxStarts]
  OBVIOUS
<1>4. seen \in [Tracks -> 0 .. MaxFrames]
  OBVIOUS
<1> QED
  BY <1>1, <1>2, <1>3, <1>4 DEF TypeInv, TypeOK, GenInv

LEMMA NextType == TypeInv /\ [Next]_vars => TypeInv'
<1> SUFFICES ASSUME TypeInv, [Next]_vars
             PROVE  TypeInv'
  OBVIOUS
<1> USE PipeAssumption DEF TypeInv, TypeOK, GenInv
<1>0. \A t \in Tracks : pc[t] # "idle" => <<t, seen[t]>> \in Frames
  BY DEF Frames
<1>1. CASE StartBegin
  <2>1. gen' \in 0 .. MaxStarts /\ gen' > 0
    BY <1>1 DEF StartBegin
  <2> QED
    BY <1>1, <2>1 DEF StartBegin, emitVars, writeVars, fateVars
<1>2. CASE StartOK
  <2>1. /\ writer' \in [Gens -> {"none", "top", "select", "writing", "exited"}]
        /\ mu' = "free" /\ overlap' \in BOOLEAN
    BY <1>2 DEF StartOK
  <2>2. UNCHANGED <<started, gen, cancelled, ctxDone, unbind, handler, stopper, stopDone, seen, pc, ch,
                    queue, wchan, hand, sent, failed, dropped, ignored>>
    BY <1>2 DEF StartOK, bindVars, emitVars, fateVars
  <2> QED
    BY <2>1, <2>2
<1>3. CASE StartFail
  BY <1>3 DEF StartFail, bindVars, emitVars, writeVars, fateVars
<1>4. CASE StopStep
  <2>1. CASE StopNoop
    BY <2>1 DEF StopNoop, pipeVars, emitVars, writeVars, fateVars
  <2>2. CASE StopMark
    <3>1. cancelled' \in SUBSET Gens
      BY <2>2 DEF StopMark, Gens
    <3> QED
      BY <2>2, <3>1 DEF StopMark, emitVars, writeVars, fateVars
  <2>3. CASE UnbindTake
    BY <2>3 DEF UnbindTake, pipeVars, emitVars, writeVars, fateVars
  <2>4. CASE UnbindCall
    BY <2>4 DEF UnbindCall, pipeVars, emitVars, writeVars, fateVars
  <2> QED
    BY <1>4, <2>1, <2>2, <2>3, <2>4 DEF StopStep
<1>5. CASE CtxCancel
  BY <1>5 DEF CtxCancel, bindVars, emitVars, writeVars, fateVars
<1>6. ASSUME NEW t \in Tracks, EmitterStep(t)
      PROVE  TypeInv'
  <2>1. CASE Emit(t)
    BY <2>1 DEF Emit, pipeVars, bindVars, writeVars, fateVars
  <2>2. CASE RouteStarted(t)
    BY <2>2 DEF RouteStarted, pipeVars, bindVars, writeVars, fateVars
  <2>3. CASE RouteIgnored(t)
    BY <1>0, <2>3 DEF RouteIgnored, pipeVars, bindVars, writeVars
  <2>4. CASE Enqueue(t)
    <3>1. pc[t] = "routing"
      BY <2>4 DEF Enqueue
    <3>2. <<t, seen[t]>> \in Frames
      BY <1>0, <3>1
    <3>3. ch[t] \in Gens
      BY <3>1 DEF Gens
    <3>4. /\ Append(queue[ch[t]], <<t, seen[t]>>) \in Seq(Frames)
          /\ Len(Append(queue[ch[t]], <<t, seen[t]>>)) <= BufSize
      BY <2>4, <3>2, <3>3 DEF Enqueue, Full
    <3>5. queue' = [queue EXCEPT ![ch[t]] = Append(queue[ch[t]], <<t, seen[t]>>)]
      BY <2>4 DEF Enqueue
    <3>6. /\ queue' \in [Gens -> Seq(Frames)]
          /\ \A g \in Gens : Len(queue'[g]) <= BufSize
      BY <3>3, <3>4, <3>5
    <3> QED
      BY <2>4, <3>6 DEF Enqueue, pipeVars, bindVars, writeVars, fateVars
  <2>5. CASE Drop(t)
    BY <1>0, <2>5 DEF Drop, pipeVars, bindVars, writeVars
  <2> QED
    BY <1>6, <2>1, <2>2, <2>3, <2>4, <2>5 DEF EmitterStep
<1>7. ASSUME NEW g \in Gens, WriterStep(g)
      PROVE  TypeInv'
  <2>1. CASE ReadChan(g)
    <3>1. PICK c \in wchan[g] .. gen : wchan' = [wchan EXCEPT ![g] = c]
      BY <2>1 DEF ReadChan
    <3>2. c \in Gens
      BY <3>1 DEF Gens
    <3> QED
      BY <2>1, <3>1, <3>2 DEF ReadChan, pipeVars, bindVars, emitVars, fateVars
  <2>2. CASE Receive(g)
    <3> DEFINE q == queue[wchan[g]]
    <3>1. /\ q \in Seq(Frames) /\ q # <<>>
          /\ Len(q) <= BufSize
      BY <2>2 DEF Receive
    <3>2. /\ Head(q) \in Frames
          /\ Tail(q) \in Seq(Frames)
          /\ Len(Tail(q)) <= BufSize
      BY <3>1
    <3>3. /\ queue' \in [Gens -> Seq(Frames)]
          /\ \A h \in Gens : Len(queue'[h]) <= BufSize
          /\ hand' \in [Gens -> SUBSET Frames]
      BY <2>2, <3>2 DEF Receive
    <3> QED
      BY <2>2, <3>3 DEF Receive, pipeVars, bindVars, emitVars, fateVars
  <2>3. CASE WriterExit(g)
    BY <2>3 DEF WriterExit, pipeVars, bindVars, emitVars, fateVars
  <2>4. CASE WriteOK(g)
    <3>1. PICK f \in hand[g] :
            sent' = Append(sent, [writer |-> g, track |-> f[1], num |-> f[2]])
      BY <2>4 DEF WriteOK
    <3>2. [writer |-> g, track |-> f[1], num |-> f[2]] \in Deliveries
      BY <3>1 DEF Frames, Deliveries
    <3>3. sent' \in Seq(Deliveries)
      BY <3>1, <3>2
    <3> QED
      BY <2>4, <3>3 DEF WriteOK, pipeVars, bindVars, emitVars
  <2>5. CASE WriteFail(g)
    BY <2>5 DEF WriteFail, pipeVars, bindVars, emitVars
  <2> QED
    BY <1>7, <2>1, <2>2, <2>3, <2>4, <2>5 DEF WriterStep
<1>8. CASE UNCHANGED vars
  BY <1>8 DEF vars, pipeVars, bindVars, emitVars, writeVars, fateVars
<1> QED
  BY <1>1, <1>2, <1>3, <1>4, <1>5, <1>6, <1>7, <1>8 DEF Next, StartStep

LEMMA TypeInvariance == Spec => []TypeInv
<1>1. Init => TypeInv
  BY InitType
<1>2. TypeInv /\ [Next]_vars => TypeInv'
  BY NextType
<1> QED
  BY <1>1, <1>2, PTL DEF Spec

(* Type correctness of the pipe; it includes that no inFlight ever holds more *)
(* than BufSize frames.                                                       *)
THEOREM TypeCorrect == Spec => []TypeOK
<1>1. TypeInv => TypeOK
  BY DEF TypeInv
<1> QED
  BY <1>1, TypeInvariance, PTL

-----------------------------------------------------------------------------
(* While Start holds the lock, the new generation has no writer yet; neither  *)
(* has any generation still to come.                                          *)
StartInv ==
  /\ mu = "start" => writer[gen] = "none"
  /\ \A g \in Gens : g > gen => writer[g] = "none"

LiveInv == TypeInv /\ StartInv /\ LiveWriterIsCurrent

LEMMA InitLive == Init => LiveInv
<1> SUFFICES ASSUME Init
             PROVE  LiveInv
  OBVIOUS
<1>1. \A g \in Gens : writer[g] = "none"
  BY DEF Init
<1>2. mu # "start"
  BY DEF Init
<1> QED
  BY <1>1, <1>2, InitType DEF LiveInv, StartInv, LiveWriterIsCurrent, Running

LEMMA NextLive == LiveInv /\ [Next]_vars => LiveInv'
<1> SUFFICES ASSUME LiveInv, [Next]_vars
             PROVE  (StartInv /\ LiveWriterIsCurrent)'
  BY NextType DEF LiveInv
<1> USE DEF LiveInv, TypeInv, TypeOK, GenInv, StartInv, LiveWriterIsCurrent, Running
<1>1. CASE StartBegin
  <2>1. /\ gen' = gen + 1 /\ gen' \in Gens /\ started'
        /\ UNCHANGED <<writer, cancelled>>
    BY <1>1, PipeAssumption DEF StartBegin, writeVars, Gens
  <2>2. \A g \in Gens : Running(g) => g \in cancelled
    BY <1>1 DEF StartBegin
  <2> QED
    BY <2>1, <2>2 DEF Gens
<1>2. CASE StartOK
  BY <1>2 DEF StartOK, Gens
<1>3. CASE StartFail
  BY <1>3 DEF StartFail, writeVars
<1>4. CASE StopStep
  <2>1. CASE StopMark
    BY <2>1 DEF StopMark, writeVars
  <2>2. CASE StopNoop \/ UnbindTake \/ UnbindCall
    BY <2>2 DEF StopNoop, UnbindTake, UnbindCall, pipeVars, writeVars
  <2> QED
    BY <1>4, <2>1, <2>2 DEF StopStep
<1>5. CASE CtxCancel
  BY <1>5 DEF CtxCancel, writeVars
<1>6. ASSUME NEW t \in Tracks, EmitterStep(t)
      PROVE  (StartInv /\ LiveWriterIsCurrent)'
  BY <1>6 DEF EmitterStep, Emit, RouteStarted, RouteIgnored, Enqueue, Drop, pipeVars, writeVars
<1>7. ASSUME NEW g \in Gens, WriterStep(g)
      PROVE  (StartInv /\ LiveWriterIsCurrent)'
  \* A writer step only moves a running writer, and to running or "exited".
  <2>1. /\ UNCHANGED pipeVars
        /\ Running(g)
        /\ \E s \in {"top", "select", "writing", "exited"} :
              writer' = [writer EXCEPT ![g] = s]
    BY <1>7 DEF WriterStep, ReadChan, Receive, WriterExit, WriteOK, WriteFail
  <2> QED
    BY <2>1 DEF pipeVars
<1>8. CASE UNCHANGED vars
  BY <1>8 DEF vars, pipeVars, writeVars
<1> QED
  BY <1>1, <1>2, <1>3, <1>4, <1>5, <1>6, <1>7, <1>8 DEF Next, StartStep

(* No sinkWriter escapes p.cancel: a writer nobody told to stop is the one of *)
(* the current generation of a started pipe.                                  *)
THEOREM WriterReachable == Spec => []LiveWriterIsCurrent
<1>1. Init => LiveInv
  BY InitLive
<1>2. LiveInv /\ [Next]_vars => LiveInv'
  BY NextLive
<1>3. LiveInv => LiveWriterIsCurrent
  BY DEF LiveInv
<1> QED
  BY <1>1, <1>2, <1>3, PTL DEF Spec

-----------------------------------------------------------------------------
(* The callback is registered only while the pipe has its removal closure or  *)
(* the closure is being called; a Stop that has begun leaves the first state, *)
(* and nothing returns to it.                                                 *)
UnbindInv ==
  /\ handler => unbind \/ stopper = "call"
  /\ stopper = "call" => ~unbind
  /\ stopper = "idle" /\ cancelled # {} => ~unbind

LEMMA NextUnbind == UnbindInv /\ [Next]_vars => UnbindInv'
<1> SUFFICES ASSUME UnbindInv, [Next]_vars
             PROVE  UnbindInv'
  OBVIOUS
<1> USE DEF UnbindInv
<1>1. CASE StartStep
  BY <1>1 DEF StartStep, StartBegin, StartOK, StartFail, bindVars
<1>2. CASE StopStep
  BY <1>2 DEF StopStep, StopNoop, StopMark, UnbindTake, UnbindCall, pipeVars
<1>3. CASE CtxCancel
  BY <1>3 DEF CtxCancel, bindVars
<1>4. ASSUME NEW t \in Tracks, EmitterStep(t)
      PROVE  UnbindInv'
  BY <1>4 DEF EmitterStep, Emit, RouteStarted, RouteIgnored, Enqueue, Drop, pipeVars, bindVars
<1>5. ASSUME NEW g \in Gens, WriterStep(g)
      PROVE  UnbindInv'
  BY <1>5 DEF WriterStep, ReadChan, Receive, WriterExit, WriteOK, WriteFail, pipeVars, bindVars
<1>6. CASE UNCHANGED vars
  BY <1>6 DEF vars, pipeVars, bindVars
<1> QED
  BY <1>1, <1>2, <1>3, <1>4, <1>5, <1>6 DEF Next

(* When a Stop of a started pipe has returned, the source has let go of the   *)
(* pipe's callback.                                                           *)
THEOREM StopReleasesHandler == Spec => []UnboundAfterStop
<1>1. Init => UnbindInv
  BY DEF Init, UnbindInv
<1>2. UnbindInv /\ [Next]_vars => UnbindInv'
  BY NextUnbind
<1>3. UnbindInv => UnboundAfterStop
  BY DEF UnbindInv, UnboundAfterStop
<1> QED
  BY <1>1, <1>2, <1>3, PTL DEF Spec

-----------------------------------------------------------------------------
(* The steps of the pipe seen as PipeLifecycle.  A Stop that has not returned *)
(* has cancelled a generation, and the pipe is started while Start is under   *)
(* way.                                                                       *)
LifeInv ==
  /\ mu \in {"free", "start"} /\ {started, handler} \subseteq BOOLEAN
  /\ mu = "start" => started
  /\ stopper # "idle" => cancelled # {}

LEMMA NextLife ==
  ASSUME LifeInv, [Next]_vars
  PROVE  LifeInv' /\ [Lifecycle!Next]_Lifecycle!vars
<1> USE DEF LifeInv
<1> USE DEF Lifecycle!vars, Life, Serving
<1>1. CASE StartBegin
  BY <1>1 DEF StartBegin
<1>2. CASE StartOK
  BY <1>2 DEF StartOK, bindVars, Lifecycle!Next, Lifecycle!Start
<1>3. CASE StartFail
  BY <1>3 DEF StartFail, bindVars
<1>4. CASE StopNoop
  BY <1>4 DEF StopNoop, pipeVars
<1>5. CASE StopMark
  <2>1. cancelled' # {}
    BY <1>5 DEF StopMark
  <2> QED
    BY <1>5, <2>1 DEF StopMark, Lifecycle!Next, Lifecycle!Stop
<1>6. CASE UnbindTake
  BY <1>6 DEF UnbindTake, pipeVars
<1>7. CASE UnbindCall
  BY <1>7 DEF UnbindCall, pipeVars, Lifecycle!Next, Lifecycle!Unbind
<1>8. CASE CtxCancel
  BY <1>8 DEF CtxCancel, bindVars
<1>9. ASSUME NEW t \in Tracks, EmitterStep(t)
      PROVE  LifeInv' /\ [Lifecycle!Next]_Lifecycle!vars
  BY <1>9 DEF EmitterStep, Emit, RouteStarted, RouteIgnored, Enqueue, Drop, pipeVars, bindVars
<1>10. ASSUME NEW g \in Gens, WriterStep(g)
       PROVE  LifeInv' /\ [Lifecycle!Next]_Lifecycle!vars
  BY <1>10 DEF WriterStep, ReadChan, Receive, WriterExit, WriteOK, WriteFail, pipeVars, bindVars
<1>11. CASE UNCHANGED vars
  BY <1>11 DEF vars, pipeVars, bindVars
<1> QED
  BY <1>1, <1>2, <1>3, <1>4, <1>5, <1>6, <1>7, <1>8, <1>9, <1>10, <1>11
  DEF Next, StartStep, StopStep

(* The pipe implements PipeLifecycle, the interface MediaHub builds on: a     *)
(* failed Start leaves it as it was, only a Stop of a started pipe releases   *)
(* the callback, and for good (default_pipe.go:90-123, 166-181).              *)
THEOREM ImplementsLifecycle == Spec => LifecycleSpec
<1>1. Init => LifeInv /\ Lifecycle!Init
  BY DEF Init, LifeInv, Lifecycle!Init, Life, Serving
<1>2. LifeInv /\ [Next]_vars => LifeInv' /\ [Lifecycle!Next]_Lifecycle!vars
  BY NextLife
<1> QED
  BY <1>1, <1>2, PTL DEF Spec, LifecycleSpec, Lifecycle!Spec
-----------------------------------------------------------------------------
(* Order.  What a queue holds is taken as a set; that it is sorted by number   *)
(* within each track is all of its order that matters.                         *)

In(s) == {s[i] : i \in 1 .. Len(s)}
Older(e, f) == e[1] = f[1] => e[2] < f[2]
Sorted(s) == \A i, j \in 1 .. Len(s) : i < j => Older(s[i], s[j])

LEMMA Behind ==
  ASSUME NEW s \in Seq(Frames), NEW e \in Frames, Sorted(s), \A f \in In(s) : Older(f, e)
  PROVE  Sorted(Append(s, e)) /\ In(Append(s, e)) = In(s) \cup {e}
<1>1. /\ Len(s) \in Nat /\ Len(Append(s, e)) = Len(s) + 1
      /\ \A i \in 1 .. Len(s) : Append(s, e)[i] = s[i]
      /\ Append(s, e)[Len(s) + 1] = e
  OBVIOUS
<1> DEFINE a == Append(s, e)
<1>a. /\ Len(a) = Len(s) + 1 /\ \A i \in 1 .. Len(s) : a[i] = s[i]
      /\ a[Len(s) + 1] = e
  BY <1>1
<1> HIDE DEF a
<1>2. In(a) = In(s) \cup {e}
  <2>1. In(a) \subseteq In(s) \cup {e}
    BY <1>1, <1>a DEF In
  <2>2. In(s) \subseteq In(a)
    BY <1>1, <1>a DEF In
  <2>3. e \in In(a)
    BY <1>1, <1>a DEF In
  <2> QED
    BY <2>1, <2>2, <2>3
<1>3. Sorted(a)
  <2> SUFFICES ASSUME NEW i \in 1 .. Len(a), NEW j \in 1 .. Len(a), i < j
               PROVE  Older(a[i], a[j])
    BY DEF Sorted
  <2>1. i \in 1 .. Len(s) /\ a[i] = s[i] /\ s[i] \in In(s)
    BY <1>1, <1>a DEF In
  <2>2. CASE j = Len(s) + 1
    BY <2>1, <2>2, <1>a
  <2>3. CASE j # Len(s) + 1
    <3>1. j \in 1 .. Len(s)
      BY <2>3, <1>1, <1>a
    <3> QED
      BY <2>1, <3>1, <1>a DEF Sorted
  <2> QED
    BY <2>2, <2>3
<1> QED
  BY <1>2, <1>3 DEF a

LEMMA Ahead ==
  ASSUME NEW s \in Seq(Frames), s # <<>>, Sorted(s)
  PROVE  /\ Head(s) \in In(s) /\ Sorted(Tail(s)) /\ In(Tail(s)) \subseteq In(s)
         /\ \A f \in In(Tail(s)) : Older(Head(s), f)
<1> DEFINE r == Tail(s)
<1>1. /\ Len(s) \in Nat /\ Len(s) > 0 /\ Head(s) = s[1] /\ Len(r) = Len(s) - 1
      /\ \A i \in 1 .. Len(r) : r[i] = s[i + 1]
  OBVIOUS
<1> HIDE DEF r
<1>2. ASSUME NEW i \in 1 .. Len(r) PROVE i + 1 \in 1 .. Len(s) /\ r[i] = s[i + 1] /\ i \in Nat
  BY <1>1
<1>3. Head(s) \in In(s) /\ In(r) \subseteq In(s)
  BY <1>1, <1>2 DEF In
<1>4. Sorted(r)
  BY <1>1, <1>2 DEF Sorted
<1>5. ASSUME NEW f \in In(r) PROVE Older(Head(s), f)
  <2>1. PICK i \in 1 .. Len(r) : f = r[i]
    BY DEF In
  <2>2. 1 < i + 1 /\ 1 \in 1 .. Len(s)
    BY <1>1
  <2> QED
    BY <1>1, <1>2, <2>1, <2>2 DEF Sorted
<1> QED
  BY <1>3, <1>4, <1>5 DEF r

(* The invariant: queues are sorted, and what a later generation's queue holds *)
(* of a track is newer; nothing is as new as the frame in its emitter's hands; *)
(* a writer finds newer frames only than it has and has written; nothing is in *)
(* two of these places.                                                        *)
Held(c) == In(queue[c])
Out == {sent[i] : i \in 1 .. Len(sent)}
Frame(r) == <<r.track, r.num>>
Past(f) == f[2] <= seen[f[1]] /\ (pc[f[1]] # "idle" => f[2] < seen[f[1]])

QueuesSorted == \A c \in Gens : Sorted(queue[c])
QueuesInTurn == \A c, d \in Gens : c < d => \A e \in Held(c), f \in Held(d) : Older(e, f)
QueuesPast == \A c \in Gens : \A f \in Held(c) : Past(f) /\ c <= ch[f[1]]
WritersPast == /\ \A g \in Gens : \A f \in hand[g] : Past(f)
               /\ \A r \in Out : Past(Frame(r))
NewerAhead ==
  \A g, c \in Gens : wchan[g] <= c =>
    \A f \in Held(c) : /\ \A e \in hand[g] : Older(e, f)
                       /\ \A r \in Out : r.writer = g => Older(Frame(r), f)
OncePlaced ==
  /\ \A g \in Gens : \A f \in hand[g] : /\ \A c \in Gens : f \notin Held(c)
                                        /\ \A h \in Gens \ {g} : f \notin hand[h]
                                        /\ \A r \in Out : Frame(r) # f
  /\ \A r \in Out : \A c \in Gens : Frame(r) \notin Held(c)
InSession == \A g \in Gens : \A e \in hand[g] : \A r \in Out : r.writer = g => Older(Frame(r), e)

OrderInv == /\ QueuesSorted /\ QueuesInTurn /\ QueuesPast /\ WritersPast
            /\ NewerAhead /\ OncePlaced /\ InSession
            /\ \A t \in Tracks : ch[t] <= gen

LEMMA InitOrder == Init => OrderInv
<1> SUFFICES ASSUME Init PROVE OrderInv
  OBVIOUS
<1>1. \A c \in Gens : queue[c] = <<>> /\ hand[c] = {}
  BY DEF Init
<1>2. Out = {} /\ \A c \in Gens : Held(c) = {}
  BY <1>1 DEF Init, Out, Held, In
<1>3. QueuesSorted
  BY <1>1 DEF QueuesSorted, Sorted
<1> QED
  BY <1>1, <1>2, <1>3 DEF Init, OrderInv, QueuesInTurn, QueuesPast, WritersPast, NewerAhead, OncePlaced,
                          InSession

LEMMA OrderTypes ==
  ASSUME TypeInv
  PROVE  /\ queue \in [Gens -> Seq(Frames)] /\ hand \in [Gens -> SUBSET Frames]
         /\ wchan \in [Gens -> Gens] /\ gen \in 0 .. MaxStarts /\ Gens \subseteq Nat
         /\ seen \in [Tracks -> Nat] /\ ch \in [Tracks -> Nat]
         /\ pc \in [Tracks -> {"idle", "called", "routing"}]
         /\ writer \in [Gens -> {"none", "top", "select", "writing", "exited"}]
         /\ sent \in Seq(Deliveries) /\ MaxStarts \in Nat
         /\ \A t \in Tracks : pc[t] = "routing" => ch[t] \in Gens /\ <<t, seen[t]>> \in Frames
<1> USE PipeAssumption DEF TypeInv, TypeOK, GenInv
<1>1. Gens \subseteq Nat /\ seen \in [Tracks -> Nat] /\ ch \in [Tracks -> Nat]
  <2>1. 0 .. MaxFrames \subseteq Nat /\ 0 .. MaxStarts \subseteq Nat
    OBVIOUS
  <2>2. Gens \subseteq Nat
    BY DEF Gens
  <2>3. \A t \in Tracks : seen[t] \in Nat /\ ch[t] \in Nat
    BY <2>1
  <2>4. seen = [t \in Tracks |-> seen[t]] /\ ch = [t \in Tracks |-> ch[t]]
    OBVIOUS
  <2> QED
    BY <2>2, <2>3, <2>4
<1>2. ASSUME NEW t \in Tracks, pc[t] = "routing"
      PROVE  ch[t] \in Gens /\ <<t, seen[t]>> \in Frames
  <2>1. ch[t] \in 0 .. MaxStarts /\ ch[t] > 0 /\ seen[t] \in 0 .. MaxFrames /\ seen[t] > 0
    BY <1>2
  <2> HIDE DEF TypeInv, TypeOK, GenInv
  <2>2. ch[t] \in Gens
    BY <2>1 DEF Gens
  <2>3. seen[t] \in 1 .. MaxFrames
    BY <2>1
  <2> QED
    BY <2>2, <2>3 DEF Frames
<1> QED
  BY <1>1, <1>2

\* What is held, in hand and written is made of frames.
LEMMA OrderFrames ==
  ASSUME TypeInv
  PROVE  /\ \A c \in Gens : Held(c) \subseteq Frames
         /\ \A r \in Out : r \in Deliveries /\ Frame(r) \in Frames
         /\ \A f \in Frames : f[1] \in Tracks /\ f[2] \in Nat /\ f = <<f[1], f[2]>>
<1>1. \A c \in Gens : Held(c) \subseteq Frames
  BY OrderTypes DEF Held, In
<1>2. \A r \in Out : r \in Deliveries
  BY OrderTypes DEF Out
<1>3. \A r \in Deliveries : Frame(r) \in Frames
  BY DEF Deliveries, Frame, Frames
<1>4. \A f \in Frames : f[1] \in Tracks /\ f[2] \in Nat /\ f = <<f[1], f[2]>>
  BY DEF Frames
<1> QED
  BY <1>1, <1>2, <1>3, <1>4

LEMMA EmitterOrder ==
  ASSUME TypeInv, OrderInv, NEW t \in Tracks, EmitterStep(t)
  PROVE  OrderInv'
<1> USE DEF OrderInv
<1>0. UNCHANGED <<hand, wchan, sent, gen>> /\ Out' = Out
  BY DEF EmitterStep, Emit, RouteStarted, RouteIgnored, Enqueue, Drop, writeVars, fateVars, pipeVars, Out
<1>1. CASE Enqueue(t)
  <2>0. PICK c, e : c = ch[t] /\ e = <<t, seen[t]>>
    OBVIOUS
  <2>1. pc[t] = "routing" /\ pc' = [pc EXCEPT ![t] = "idle"] /\ UNCHANGED <<seen, ch>>
        /\ queue' = [queue EXCEPT ![c] = Append(@, e)]
    BY <1>1, <2>0 DEF Enqueue
  <2>2. c \in Gens /\ e \in Frames /\ e[1] = t /\ e[2] = seen[t]
    BY <2>0, <2>1, OrderTypes
  <2>3. \A f \in Frames : Past(f) => Older(f, e) /\ f # e /\ Past(f)'
    BY <2>1, <2>2, OrderTypes, OrderFrames DEF Past, Older
  <2>4. Past(e)'
    BY <2>1, <2>2, OrderTypes DEF Past
  <2>5. \A d \in Gens : \A f \in Held(d) : Older(f, e) /\ f # e /\ Past(f)' /\ (c < d => f[1] # t)
    <3> SUFFICES ASSUME NEW d \in Gens, NEW f \in Held(d)
                 PROVE  Older(f, e) /\ f # e /\ Past(f)' /\ (c < d => f[1] # t)
      OBVIOUS
    <3>1. f \in Frames /\ Past(f) /\ d <= ch[f[1]]
      BY OrderFrames DEF QueuesPast
    <3>2. c < d => f[1] # t
      BY <3>1, <2>0, <2>2, OrderTypes
    <3> QED
      BY <3>1, <3>2, <2>3
  <2>6. /\ \A g \in Gens : \A f \in hand[g] : Older(f, e) /\ f # e /\ Past(f)'
        /\ \A r \in Out : Older(Frame(r), e) /\ Frame(r) # e /\ Past(Frame(r))'
    BY <2>3, OrderTypes, OrderFrames DEF WritersPast
  <2>7. \A d \in Gens : queue'[d] = IF d = c THEN Append(queue[c], e) ELSE queue[d]
    BY <2>1, <2>2, OrderTypes
  <2>8. Sorted(Append(queue[c], e)) /\ In(Append(queue[c], e)) = In(queue[c]) \cup {e}
    BY <2>2, <2>5, Behind, OrderTypes DEF QueuesSorted, Held
  <2>9. ASSUME NEW d \in Gens, NEW x \in Held(d)'
        PROVE  x \in Held(d) \/ (x = e /\ d = c)
    BY <2>7, <2>8 DEF Held
  <2>10. QueuesSorted'
    BY <2>7, <2>8 DEF QueuesSorted
  <2>11. QueuesInTurn'
    <3> SUFFICES ASSUME NEW d \in Gens, NEW k \in Gens, d < k, NEW x \in Held(d)', NEW y \in Held(k)'
                 PROVE  Older(x, y)
      BY DEF QueuesInTurn, Older
    <3>0. d # k
      BY OrderTypes
    <3>1. CASE x \in Held(d) /\ y \in Held(k)
      BY <3>1 DEF QueuesInTurn
    <3>2. CASE x \in Held(d) /\ y = e
      BY <3>2, <2>5
    <3>3. CASE x = e /\ d = c /\ y \in Held(k)
      BY <3>3, <2>2, <2>5 DEF Older
    <3> QED
      BY <3>0, <3>1, <3>2, <3>3, <2>9
  <2>12. QueuesPast' /\ WritersPast'
    <3>1. ASSUME NEW d \in Gens, NEW x \in Held(d)' PROVE Past(x)' /\ d <= ch'[x[1]]
      <4>1. CASE x \in Held(d)
        BY <4>1, <2>1, <2>5 DEF QueuesPast
      <4>2. CASE x = e /\ d = c
        BY <4>2, <2>0, <2>1, <2>2, <2>4, OrderTypes
      <4> QED
        BY <4>1, <4>2, <2>9
    <3>2. QueuesPast'
      BY <3>1 DEF QueuesPast
    <3>3. WritersPast'
      BY <1>0, <2>6 DEF WritersPast, Frame
    <3> QED
      BY <3>2, <3>3
  <2>13. NewerAhead'
    <3> SUFFICES ASSUME NEW g \in Gens, NEW d \in Gens, wchan[g] <= d, NEW f \in Held(d)'
                 PROVE  /\ \A x \in hand[g] : Older(x, f)
                        /\ \A r \in Out : r.writer = g => Older(Frame(r), f)
      BY <1>0 DEF NewerAhead, Older, Frame
    <3>1. CASE f \in Held(d)
      BY <3>1 DEF NewerAhead
    <3>2. CASE f = e
      BY <3>2, <2>6
    <3> QED
      BY <3>1, <3>2, <2>9
  <2>14. OncePlaced'
    BY <1>0, <2>6, <2>9 DEF OncePlaced, Frame
  <2>15. InSession'
    BY <1>0 DEF InSession, Older, Frame
  <2> QED
    BY <1>0, <2>1, <2>10, <2>11, <2>12, <2>13, <2>14, <2>15
<1>2. CASE Emit(t) \/ RouteStarted(t) \/ RouteIgnored(t) \/ Drop(t)
  <2>1. queue' = queue /\ \A c \in Gens : Held(c)' = Held(c)
    BY <1>2 DEF Emit, RouteStarted, RouteIgnored, Drop, Held
  <2>2. \A f \in Frames : Past(f) => Past(f)'
    BY <1>2, OrderTypes, OrderFrames DEF Past, Emit, RouteStarted, RouteIgnored, Drop
  <2>a. ch' = ch \/ ch' = [ch EXCEPT ![t] = gen]
    BY <1>2 DEF Emit, RouteStarted, RouteIgnored, Drop
  <2>3. ASSUME NEW u \in Tracks PROVE ch[u] <= ch'[u] /\ ch'[u] <= gen' /\ ch'[u] \in Nat
    <3>1. ch[u] \in Nat /\ gen \in Nat /\ ch[u] <= gen
      BY OrderTypes
    <3>2. ch'[u] \in {ch[u], gen}
      BY <2>a, OrderTypes
    <3> QED
      BY <1>0, <3>1, <3>2
  <2>4. QueuesPast'
    <3> SUFFICES ASSUME NEW c \in Gens, NEW f \in Held(c) PROVE Past(f)' /\ c <= ch'[f[1]]
      BY <2>1 DEF QueuesPast
    <3>1. f \in Frames /\ f[1] \in Tracks /\ Past(f) /\ c <= ch[f[1]]
      BY OrderFrames DEF QueuesPast
    <3>2. ch'[f[1]] \in Nat /\ ch[f[1]] \in Nat /\ c \in Nat
      BY <2>3, <3>1, OrderTypes
    <3> QED
      BY <3>1, <3>2, <2>2, <2>3
  <2>5. WritersPast'
    BY <1>0, <2>2, OrderTypes, OrderFrames DEF WritersPast, Frame
  <2> QED
    BY <1>0, <2>1, <2>3, <2>4, <2>5 DEF QueuesSorted, QueuesInTurn, NewerAhead, OncePlaced, InSession,
                                       Older, Frame
<1> QED
  BY <1>1, <1>2 DEF EmitterStep

LEMMA ReceiveOrder ==
  ASSUME TypeInv, OrderInv, NEW g \in Gens, Receive(g)
  PROVE  OrderInv'
<1> USE DEF OrderInv
<1>1. PICK c, f : c = wchan[g] /\ f = Head(queue[c])
  OBVIOUS
<1>2. /\ queue[c] # <<>> /\ hand' = [hand EXCEPT ![g] = {f}]
      /\ queue' = [queue EXCEPT ![c] = Tail(@)]
      /\ UNCHANGED <<wchan, seen, pc, ch, gen, sent>> /\ Out' = Out
  BY <1>1 DEF Receive, pipeVars, emitVars, fateVars, Out
<1>3. c \in Gens /\ queue[c] \in Seq(Frames)
  BY <1>1, OrderTypes
<1>4. /\ f \in Held(c) /\ Sorted(Tail(queue[c])) /\ In(Tail(queue[c])) \subseteq Held(c)
      /\ \A x \in In(Tail(queue[c])) : Older(f, x)
  BY <1>1, <1>2, <1>3, Ahead DEF QueuesSorted, Held
<1>5. \A d \in Gens : queue'[d] = IF d = c THEN Tail(queue[c]) ELSE queue[d]
  BY <1>2, <1>3, OrderTypes
<1>6. ASSUME NEW d \in Gens, NEW x \in Held(d)'
      PROVE  x \in Held(d) /\ (d = c => Older(f, x))
  BY <1>4, <1>5 DEF Held
<1>7. ASSUME NEW h \in Gens, NEW x \in hand'[h] PROVE IF h = g THEN x = f ELSE x \in hand[h]
  BY <1>2, OrderTypes
<1>8. f \in Frames /\ f[2] \in Nat
  BY <1>3, <1>4, OrderFrames
<1>9. QueuesSorted'
  BY <1>4, <1>5 DEF QueuesSorted
<1>10. QueuesInTurn'
  BY <1>6 DEF QueuesInTurn, Older
<1>11. QueuesPast'
  BY <1>2, <1>6 DEF QueuesPast, Past
<1>12. WritersPast'
  <2>1. Past(f)
    BY <1>3, <1>4 DEF QueuesPast
  <2>2. ASSUME NEW h \in Gens, NEW x \in hand'[h] PROVE Past(x)
    BY <2>1, <1>7 DEF WritersPast
  <2> QED
    BY <1>2, <2>2 DEF WritersPast, Past, Frame
<1>13. ASSUME NEW d \in Gens, NEW x \in Held(d)', c <= d PROVE Older(f, x)
  <2>1. CASE d = c
    BY <2>1, <1>6
  <2>2. CASE c < d
    BY <2>2, <1>3, <1>4, <1>6 DEF QueuesInTurn
  <2> QED
    BY <1>3, <1>13, <2>1, <2>2, OrderTypes
<1>14. NewerAhead'
  <2> SUFFICES ASSUME NEW h \in Gens, NEW d \in Gens, wchan[h] <= d, NEW x \in Held(d)'
               PROVE  /\ \A y \in hand'[h] : Older(y, x)
                      /\ \A r \in Out : r.writer = h => Older(Frame(r), x)
    BY <1>2 DEF NewerAhead, Older, Frame
  <2>1. \A y \in hand'[h] : Older(y, x)
    BY <1>1, <1>6, <1>7, <1>13 DEF NewerAhead
  <2>2. \A r \in Out : r.writer = h => Older(Frame(r), x)
    BY <1>6 DEF NewerAhead
  <2> QED
    BY <2>1, <2>2
<1>15. OncePlaced'
  <2>1. ASSUME NEW d \in Gens PROVE f \notin Held(d)'
    <3> SUFFICES ASSUME f \in Held(d)' PROVE FALSE
      OBVIOUS
    <3>1. f \in Held(d) /\ d # c
      BY <1>6, <1>8 DEF Older
    <3>2. d < c \/ c < d
      BY <3>1, <1>3, OrderTypes
    <3> QED
      BY <3>1, <3>2, <1>3, <1>4, <1>8 DEF QueuesInTurn, Older
  <2>2. \A h \in Gens : f \notin hand[h]
    BY <1>3, <1>4 DEF OncePlaced
  <2>3. \A r \in Out : Frame(r) # f
    BY <1>3, <1>4 DEF OncePlaced
  <2>4. ASSUME NEW h \in Gens, NEW x \in hand'[h]
        PROVE  /\ \A d \in Gens : x \notin Held(d)'
               /\ \A k \in Gens \ {h} : x \notin hand'[k]
               /\ \A r \in Out : Frame(r) # x
    <3>1. CASE h = g
      BY <3>1, <1>7, <2>1, <2>2, <2>3
    <3>2. CASE h # g
      BY <3>2, <1>6, <1>7, <2>2 DEF OncePlaced
    <3> QED
      BY <3>1, <3>2
  <2>5. \A r \in Out : \A d \in Gens : Frame(r) \notin Held(d)'
    BY <1>6 DEF OncePlaced
  <2> QED
    BY <1>2, <2>4, <2>5 DEF OncePlaced, Frame
<1>16. InSession'
  <2>0. wchan[g] <= c
    BY <1>1, <1>3, OrderTypes
  <2>1. \A r \in Out : r.writer = g => Older(Frame(r), f)
    BY <1>3, <1>4, <2>0 DEF NewerAhead
  <2> QED
    BY <1>2, <1>7, <2>1 DEF InSession, Older, Frame
<1> QED
  BY <1>2, <1>9, <1>10, <1>11, <1>12, <1>14, <1>15, <1>16

\* A frame that is written leaves the hand.
LEMMA WriteOrder ==
  ASSUME TypeInv, OrderInv, NEW g \in Gens, WriteOK(g)
  PROVE  /\ OrderInv'
         /\ \E f \in hand[g] : LET d == [writer |-> g, track |-> f[1], num |-> f[2]]
                               IN  sent' = Append(sent, d) /\ Out' = Out \cup {d}
<1> USE DEF OrderInv
<1>1. PICK f \in hand[g] : sent' = Append(sent, [writer |-> g, track |-> f[1], num |-> f[2]])
  BY DEF WriteOK
<1>2. PICK d : d = [writer |-> g, track |-> f[1], num |-> f[2]]
  OBVIOUS
<1>3. f \in Frames /\ d.writer = g /\ Frame(d) = f /\ f[2] \in Nat /\ d \in Deliveries
  BY <1>2, OrderTypes, OrderFrames DEF Frame, Deliveries, Frames
<1>4. Out' = Out \cup {d}
  <2>1. sent \in Seq(Deliveries) /\ sent' = Append(sent, d)
    BY <1>1, <1>2, OrderTypes
  <2>2. /\ Len(sent) \in Nat /\ Len(sent') = Len(sent) + 1 /\ sent'[Len(sent) + 1] = d
        /\ \A i \in 1 .. Len(sent) : sent'[i] = sent[i]
    BY <1>3, <2>1
  <2>3. Out' \subseteq Out \cup {d}
    BY <2>2 DEF Out
  <2>4. Out \subseteq Out' /\ d \in Out'
    BY <2>2 DEF Out
  <2> QED
    BY <2>3, <2>4
<1>5. /\ hand' = [hand EXCEPT ![g] = {}]
      /\ UNCHANGED <<queue, wchan, seen, pc, ch, gen>> /\ \A c \in Gens : Held(c)' = Held(c)
  BY DEF WriteOK, pipeVars, emitVars, Held
<1>6. ASSUME NEW h \in Gens, NEW x \in hand'[h] PROVE h # g /\ x \in hand[h]
  BY <1>5, OrderTypes
<1>7. QueuesSorted' /\ QueuesInTurn' /\ QueuesPast'
  BY <1>5 DEF QueuesSorted, QueuesInTurn, QueuesPast, Past, Older
<1>8. WritersPast'
  BY <1>3, <1>4, <1>5, <1>6 DEF WritersPast, Past, Frame
<1>9. NewerAhead'
  <2> SUFFICES ASSUME NEW h \in Gens, NEW c \in Gens, wchan[h] <= c, NEW x \in Held(c)
               PROVE  /\ \A y \in hand'[h] : Older(y, x)
                      /\ \A r \in Out \cup {d} : r.writer = h => Older(Frame(r), x)
    BY <1>4, <1>5 DEF NewerAhead, Older, Frame
  <2> QED
    BY <1>3, <1>6 DEF NewerAhead
<1>10. OncePlaced'
  <2>1. ASSUME NEW h \in Gens, NEW x \in hand'[h]
        PROVE  /\ \A c \in Gens : x \notin Held(c)
               /\ \A k \in Gens \ {h} : x \notin hand'[k]
               /\ \A r \in Out \cup {d} : Frame(r) # x
    BY <1>3, <1>6 DEF OncePlaced
  <2>2. \A r \in Out \cup {d} : \A c \in Gens : Frame(r) \notin Held(c)
    BY <1>3 DEF OncePlaced
  <2> QED
    BY <1>4, <1>5, <2>1, <2>2 DEF OncePlaced, Frame
<1>11. InSession'
  BY <1>3, <1>4, <1>6 DEF InSession, Older, Frame
<1>12. OrderInv'
  BY <1>5, <1>7, <1>8, <1>9, <1>10, <1>11
<1> QED
  BY <1>1, <1>2, <1>4, <1>12

LEMMA WriterOrder ==
  ASSUME TypeInv, OrderInv, NEW g \in Gens, ReadChan(g) \/ WriterExit(g) \/ WriteFail(g)
  PROVE  OrderInv' /\ UNCHANGED <<sent, seen>>
<1> USE DEF OrderInv
<1>1. /\ UNCHANGED <<queue, seen, pc, ch, gen, sent>> /\ Out' = Out
      /\ \A c \in Gens : Held(c)' = Held(c)
  BY DEF ReadChan, WriterExit, WriteFail, pipeVars, emitVars, fateVars, Out, Held
<1>2. \A h \in Gens : hand'[h] \subseteq hand[h]
  BY OrderTypes DEF ReadChan, WriterExit, WriteFail
<1>3. \A h \in Gens : wchan[h] <= wchan'[h] /\ wchan'[h] \in Nat
  <2>1. CASE ReadChan(g)
    <3>1. PICK c \in wchan[g] .. gen : wchan' = [wchan EXCEPT ![g] = c]
      BY <2>1 DEF ReadChan
    <3> QED
      BY <3>1, OrderTypes
  <2>2. CASE WriterExit(g) \/ WriteFail(g)
    BY <2>2, OrderTypes DEF WriterExit, WriteFail
  <2> QED
    BY <2>1, <2>2
<1>4. QueuesSorted' /\ QueuesInTurn' /\ QueuesPast' /\ WritersPast'
  BY <1>1, <1>2 DEF QueuesSorted, QueuesInTurn, QueuesPast, WritersPast, Past, Older, Frame
<1>5. NewerAhead'
  <2>1. \A h, c \in Gens : wchan'[h] <= c => wchan[h] <= c
    BY <1>3, OrderTypes
  <2> QED
    BY <1>1, <1>2, <2>1 DEF NewerAhead, Older, Frame
<1>6. OncePlaced' /\ InSession'
  BY <1>1, <1>2 DEF OncePlaced, InSession, Older, Frame
<1> QED
  BY <1>1, <1>4, <1>5, <1>6

LEMMA ControlOrder ==
  ASSUME TypeInv, OrderInv, StartStep \/ StopStep \/ CtxCancel \/ UNCHANGED vars
  PROVE  OrderInv' /\ UNCHANGED <<sent, seen>>
<1> USE DEF OrderInv
<1>1. /\ UNCHANGED <<queue, hand, wchan, seen, pc, ch, sent>> /\ Out' = Out
      /\ \A c \in Gens : Held(c)' = Held(c)
      /\ gen' = gen \/ gen' = gen + 1
  BY DEF StartStep, StartBegin, StartOK, StartFail, StopStep, StopNoop, StopMark, UnbindTake, UnbindCall,
         CtxCancel, vars, pipeVars, bindVars, emitVars, writeVars, fateVars, Out, Held
<1>2. \A t \in Tracks : ch[t] <= gen'
  BY <1>1, OrderTypes
<1> QED
  BY <1>1, <1>2 DEF QueuesSorted, QueuesInTurn, QueuesPast, WritersPast, NewerAhead, OncePlaced, InSession,
                    Past, Older, Frame

LEMMA NextOrder == TypeInv /\ OrderInv /\ [Next]_vars => OrderInv'
<1> SUFFICES ASSUME TypeInv, OrderInv, [Next]_vars PROVE OrderInv'
  OBVIOUS
<1>1. CASE StartStep \/ StopStep \/ CtxCancel \/ UNCHANGED vars
  BY <1>1, ControlOrder
<1>2. ASSUME NEW t \in Tracks, EmitterStep(t) PROVE OrderInv'
  BY <1>2, EmitterOrder
<1>3. ASSUME NEW g \in Gens, WriterStep(g) PROVE OrderInv'
  BY <1>3, ReceiveOrder, WriteOrder, WriterOrder DEF WriterStep
<1> QED
  BY <1>1, <1>2, <1>3 DEF Next

\* A written frame is one FrameDelivery may deliver next.
LEMMA DeliverNext ==
  ASSUME TypeInv, OrderInv, NEW g \in Gens, NEW f \in hand[g],
         sent' = Append(sent, [writer |-> g, track |-> f[1], num |-> f[2]]), UNCHANGED seen
  PROVE  Delivery!Next
<1>1. f \in Frames /\ f[1] \in Tracks /\ f[2] \in Nat /\ f = <<f[1], f[2]>> /\ f[2] # 0
  BY OrderTypes, OrderFrames DEF Frames
<1>2. f[2] \in 1 .. seen[f[1]]
  <2>1. f[2] <= seen[f[1]] /\ seen[f[1]] \in Nat
    BY <1>1, OrderTypes DEF OrderInv, WritersPast, Past
  <2> QED
    BY <1>1, <2>1
<1>3. ASSUME NEW i \in DOMAIN sent, sent[i].track = f[1]
      PROVE  sent[i].num # f[2] /\ (sent[i].writer = g => sent[i].num < f[2])
  <2>1. DOMAIN sent = 1 .. Len(sent)
    BY OrderTypes
  <2>2. PICK r \in Out : r = sent[i]
    BY <2>1 DEF Out
  <2>3. Frame(r)[1] = f[1] /\ Frame(r)[2] = r.num
    BY <1>3, <2>2 DEF Frame
  <2>4. Frame(r) # f /\ (r.writer = g => Older(Frame(r), f))
    BY DEF OrderInv, OncePlaced, InSession
  <2>5. r.num # f[2]
    BY <1>1, <1>3, <2>2, <2>4 DEF Frame
  <2> QED
    BY <2>2, <2>3, <2>4, <2>5 DEF Older
<1>4. Delivery!Deliver(g, f[1], f[2])
  BY <1>2, <1>3 DEF Delivery!Deliver
<1> QED
  BY <1>1, <1>2, <1>4 DEF Delivery!Next

LEMMA NextDelivery ==
  ASSUME TypeInv, OrderInv, [Next]_vars
  PROVE  [Delivery!Next]_Delivery!vars
<1> USE DEF Delivery!vars
<1>1. CASE StartStep \/ StopStep \/ CtxCancel \/ UNCHANGED vars
  BY <1>1, ControlOrder
<1>2. ASSUME NEW t \in Tracks, EmitterStep(t) PROVE [Delivery!Next]_Delivery!vars
  <2>1. CASE Emit(t)
    BY <2>1 DEF Emit, fateVars, Delivery!Next, Delivery!Offer
  <2>2. CASE RouteStarted(t) \/ RouteIgnored(t) \/ Enqueue(t) \/ Drop(t)
    BY <2>2 DEF RouteStarted, RouteIgnored, Enqueue, Drop, fateVars
  <2> QED
    BY <1>2, <2>1, <2>2 DEF EmitterStep
<1>3. ASSUME NEW g \in Gens, WriterStep(g) PROVE [Delivery!Next]_Delivery!vars
  <2>1. CASE Receive(g)
    BY <2>1 DEF Receive, emitVars, fateVars
  <2>2. CASE WriteOK(g)
    <3>1. PICK f \in hand[g] : sent' = Append(sent, [writer |-> g, track |-> f[1], num |-> f[2]])
      BY <2>2 DEF WriteOK
    <3>2. UNCHANGED seen
      BY <2>2 DEF WriteOK, emitVars
    <3> QED
      BY <3>1, <3>2, DeliverNext
  <2>3. CASE ReadChan(g) \/ WriterExit(g) \/ WriteFail(g)
    BY <2>3, WriterOrder
  <2> QED
    BY <1>3, <2>1, <2>2, <2>3 DEF WriterStep
<1> QED
  BY <1>1, <1>2, <1>3 DEF Next

(* The pipe delivers what FrameDelivery promises, for any tracks, capacity,    *)
(* writers and interleaving with emitters, Starts and Stops: every frame at    *)
(* most once, none invented, and in order within each run of the writer        *)
(* (default_pipe.go, routeFrame and sinkWriter).                               *)
THEOREM ImplementsDelivery == Spec => DeliverySpec
<1>1. Init => OrderInv /\ Delivery!Init
  BY InitOrder DEF Init, Delivery!Init
<1>2. TypeInv /\ OrderInv /\ [Next]_vars => OrderInv' /\ [Delivery!Next]_Delivery!vars
  BY NextOrder, NextDelivery
<1> QED
  BY <1>1, <1>2, TypeInvariance, PTL DEF Spec, DeliverySpec, Delivery!Spec

-----------------------------------------------------------------------------
(* While runs do not overlap there is one writer, and it reads no older queue  *)
(* than those before it read; so what it has is newer than all that is written.*)

WriterFacts ==
  /\ \A g \in Gens : writer[g] = "none" => wchan[g] = g
  /\ \A g \in Gens : writer[g] # "none" => wchan[g] <= gen
  /\ \A g \in Gens : hand[g] # {} => writer[g] = "writing"
  /\ \A r \in Out : writer[r.writer] # "none"

Solo == \A g, h \in Gens : Running(g) /\ h # g /\ writer[h] # "none" =>
          ~Running(h) /\ wchan[h] <= wchan[g]
AllOlder == \A g \in Gens : \A e \in hand[g] : \A r \in Out : Older(Frame(r), e)

SoloInv == WriterFacts /\ (~overlap => Solo /\ AllOlder) /\ SinkOrder

LEMMA InitSolo == Init => SoloInv
<1> SUFFICES ASSUME Init PROVE SoloInv
  OBVIOUS
<1>1. Out = {} /\ DOMAIN sent = {}
  BY DEF Init, Out
<1> QED
  BY <1>1 DEF Init, SoloInv, WriterFacts, Solo, AllOlder, SinkOrder, Running

\* Steps that leave the writers alone.
LEMMA QuietSolo ==
  ASSUME TypeInv, SoloInv, UNCHANGED <<writeVars, sent, overlap>>, gen <= gen', gen' \in Nat
  PROVE  SoloInv'
<1>1. Out' = Out /\ UNCHANGED <<writer, wchan, hand, sent, overlap>>
  BY DEF Out, writeVars
<1>2. WriterFacts'
  BY <1>1, OrderTypes DEF SoloInv, WriterFacts
<1> QED
  BY <1>1, <1>2 DEF SoloInv, Solo, AllOlder, SinkOrder, Running, Older, Frame

LEMMA StartSolo ==
  ASSUME LiveInv, SoloInv, StartOK
  PROVE  SoloInv'
<1> USE DEF LiveInv
<1>1. gen \in Gens /\ writer[gen] = "none" /\ wchan[gen] = gen
  <2>1. gen \in 1 .. MaxStarts
    BY OrderTypes DEF StartOK, TypeInv, GenInv
  <2> QED
    BY <2>1 DEF Gens, StartOK, StartInv, SoloInv, WriterFacts
<1>2. /\ writer' = [writer EXCEPT ![gen] = "top"] /\ UNCHANGED <<gen, wchan, hand, sent>> /\ Out' = Out
      /\ overlap' = (overlap \/ \E g \in Gens : Running(g))
  BY DEF StartOK, fateVars, Out
<1>3. \A h \in Gens : writer'[h] = IF h = gen THEN "top" ELSE writer[h]
  BY <1>2, OrderTypes
<1>4. WriterFacts'
  <2>1. WriterFacts /\ \A g \in Gens : g \in Nat /\ gen \in Nat /\ wchan[g] \in Nat
    BY OrderTypes DEF SoloInv
  <2>2. \A g \in Gens : writer'[g] # "none" => wchan'[g] <= gen'
    BY <1>1, <1>2, <1>3, <2>1 DEF WriterFacts
  <2>3. /\ \A g \in Gens : writer'[g] = "none" => wchan'[g] = g
        /\ \A g \in Gens : hand'[g] # {} => writer'[g] = "writing"
    BY <1>1, <1>2, <1>3, <2>1 DEF WriterFacts
  <2>4. \A r \in Out' : writer'[r.writer] # "none"
    <3>1. \A r \in Out : r.writer \in Gens
      <4>1. sent \in Seq(Deliveries)
        BY OrderTypes
      <4>2. \A i \in 1 .. Len(sent) : sent[i] \in Deliveries
        BY <4>1
      <4>3. \A r \in Out : r \in Deliveries
        BY <4>2 DEF Out
      <4> QED
        BY <4>3 DEF Deliveries
    <3>2. \A r \in Out : writer'[r.writer] # "none"
      <4> SUFFICES ASSUME NEW r \in Out PROVE writer'[r.writer] # "none"
        OBVIOUS
      <4>1. r.writer \in Gens /\ writer[r.writer] # "none"
        BY <2>1, <3>1 DEF WriterFacts
      <4> QED
        BY <1>3, <4>1
    <3>3. Out' = Out
      BY <1>2
    <3> QED
      BY <3>2, <3>3
  <2> QED
    BY <2>2, <2>3, <2>4 DEF WriterFacts
<1>5. ASSUME ~overlap' PROVE Solo' /\ AllOlder'
  <2>1. ~overlap /\ \A g \in Gens : ~Running(g)
    BY <1>2, <1>5
  <2>2. \A h \in Gens : Running(h)' => h = gen
    BY <1>3, <2>1 DEF Running
  <2>3. Solo'
    BY <1>1, <1>2, <1>3, <2>2 DEF Solo, SoloInv, WriterFacts
  <2> QED
    BY <1>2, <2>1, <2>3 DEF SoloInv, AllOlder, Older, Frame
<1> QED
  BY <1>2, <1>4, <1>5 DEF SoloInv, SinkOrder

LEMMA ReceiveSolo ==
  ASSUME TypeInv, OrderInv, SoloInv, NEW g \in Gens, Receive(g)
  PROVE  SoloInv'
<1>1. PICK c, f : c = wchan[g] /\ f = Head(queue[c])
  OBVIOUS
<1>2. /\ queue[c] # <<>> /\ hand' = [hand EXCEPT ![g] = {f}]
      /\ writer[g] = "select" /\ writer' = [writer EXCEPT ![g] = "writing"]
      /\ UNCHANGED <<wchan, gen, sent, overlap>> /\ Out' = Out
  BY <1>1 DEF Receive, pipeVars, fateVars, Out
<1>3. c \in Gens /\ f \in Held(c)
  BY <1>1, <1>2, OrderTypes, Ahead DEF OrderInv, QueuesSorted, Held
<1>4. /\ \A h \in Gens : writer'[h] = IF h = g THEN "writing" ELSE writer[h]
      /\ \A h \in Gens : hand'[h] = IF h = g THEN {f} ELSE hand[h]
  BY <1>2, OrderTypes
<1>5. \A r \in Out : r.writer \in Gens
  BY OrderFrames DEF Deliveries
<1>6. WriterFacts'
  BY <1>2, <1>4, <1>5 DEF SoloInv, WriterFacts
<1>7. ASSUME ~overlap PROVE Solo' /\ AllOlder'
  <2>1. Solo /\ AllOlder
    BY <1>7 DEF SoloInv
  <2>2. Solo'
    BY <1>2, <1>4, <2>1 DEF Solo, Running
  <2>3. ASSUME NEW r \in Out PROVE Older(Frame(r), f)
    <3>1. r.writer \in Gens /\ writer[r.writer] # "none"
      BY <1>5 DEF SoloInv, WriterFacts
    <3>2. wchan[r.writer] <= c
      <4>1. CASE r.writer = g
        BY <1>1, <1>3, <4>1, OrderTypes
      <4>2. CASE r.writer # g
        BY <1>1, <1>2, <2>1, <3>1, <4>2 DEF Solo, Running
      <4> QED
        BY <4>1, <4>2
    <3> QED
      BY <1>3, <3>1, <3>2 DEF OrderInv, NewerAhead
  <2>4. AllOlder'
    BY <1>2, <1>4, <2>1, <2>3 DEF AllOlder, Older, Frame
  <2> QED
    BY <2>2, <2>4
<1> QED
  BY <1>2, <1>6, <1>7 DEF SoloInv, SinkOrder

LEMMA WriteSolo ==
  ASSUME TypeInv, OrderInv, SoloInv, NEW g \in Gens, WriteOK(g)
  PROVE  SoloInv'
<1>1. PICK f \in hand[g] : LET d == [writer |-> g, track |-> f[1], num |-> f[2]]
                           IN  sent' = Append(sent, d) /\ Out' = Out \cup {d}
  BY WriteOrder
<1>2. PICK d : d = [writer |-> g, track |-> f[1], num |-> f[2]]
  OBVIOUS
<1>3. f \in Frames /\ d.writer = g /\ Frame(d) = f /\ d \in Deliveries
  BY <1>2, OrderTypes, OrderFrames DEF Frame, Deliveries, Frames
<1>4. /\ writer[g] = "writing" /\ writer' = [writer EXCEPT ![g] = "top"]
      /\ hand' = [hand EXCEPT ![g] = {}] /\ UNCHANGED <<wchan, gen, overlap>>
  BY DEF WriteOK, pipeVars
<1>5. /\ \A h \in Gens : writer'[h] = IF h = g THEN "top" ELSE writer[h]
      /\ \A h \in Gens : hand'[h] = IF h = g THEN {} ELSE hand[h]
  BY <1>4, OrderTypes
<1>6. Out' = Out \cup {d} /\ \A r \in Out : r.writer \in Gens
  BY <1>1, <1>2, OrderFrames DEF Deliveries
<1>7. WriterFacts'
  BY <1>3, <1>4, <1>5, <1>6 DEF SoloInv, WriterFacts
<1>8. ASSUME ~overlap PROVE Solo' /\ AllOlder'
  <2>1. Solo
    BY <1>8 DEF SoloInv
  <2>2. Solo'
    BY <1>4, <1>5, <2>1 DEF Solo, Running
  <2>3. \A h \in Gens : hand'[h] = {}
    BY <1>4, <1>5, <2>1 DEF Solo, Running, SoloInv, WriterFacts
  <2> QED
    BY <2>2, <2>3 DEF AllOlder
<1>9. SinkOrder'
  <2> SUFFICES ASSUME ~overlap, NEW i \in DOMAIN sent', NEW j \in DOMAIN sent', i < j,
                      sent'[i].track = sent'[j].track
               PROVE  sent'[i].num < sent'[j].num
    BY <1>4 DEF SinkOrder
  <2>1. sent \in Seq(Deliveries) /\ sent' = Append(sent, d)
    BY <1>1, <1>2, OrderTypes
  <2>2. /\ Len(sent) \in Nat /\ DOMAIN sent = 1 .. Len(sent) /\ DOMAIN sent' = 1 .. Len(sent) + 1
        /\ sent'[Len(sent) + 1] = d /\ \A k \in 1 .. Len(sent) : sent'[k] = sent[k]
    BY <1>3, <2>1
  <2>3. i \in 1 .. Len(sent) /\ sent'[i] = sent[i]
    BY <2>2
  <2>4. CASE j = Len(sent) + 1
    <3>1. PICK r \in Out : r = sent[i]
      BY <2>3 DEF Out
    <3>2. Older(Frame(r), f)
      BY DEF SoloInv, AllOlder
    <3>3. r.track = d.track /\ Frame(r) = <<r.track, r.num>> /\ f = <<d.track, d.num>>
      BY <1>3, <2>2, <2>3, <2>4, <3>1 DEF Frame
    <3> QED
      BY <2>2, <2>3, <2>4, <3>1, <3>2, <3>3 DEF Older
  <2>5. CASE j # Len(sent) + 1
    <3>1. j \in 1 .. Len(sent) /\ sent'[j] = sent[j]
      BY <2>2, <2>5
    <3> QED
      BY <2>2, <2>3, <3>1 DEF SoloInv, SinkOrder
  <2> QED
    BY <2>4, <2>5
<1> QED
  BY <1>4, <1>7, <1>8, <1>9 DEF SoloInv

LEMMA OtherSolo ==
  ASSUME TypeInv, SoloInv, NEW g \in Gens, ReadChan(g) \/ WriterExit(g) \/ WriteFail(g)
  PROVE  SoloInv'
<1>1. UNCHANGED <<gen, sent, overlap>> /\ Out' = Out
  BY DEF ReadChan, WriterExit, WriteFail, pipeVars, fateVars, Out
<1>2. /\ Running(g) /\ writer'[g] # "none"
      /\ \A h \in Gens \ {g} : writer'[h] = writer[h] /\ wchan'[h] = wchan[h] /\ hand'[h] = hand[h]
      /\ hand'[g] \subseteq hand[g] /\ (hand'[g] # {} => writer'[g] = "writing")
  BY OrderTypes DEF ReadChan, WriterExit, WriteFail, Running, SoloInv, WriterFacts
<1>3. wchan[g] <= wchan'[g] /\ wchan'[g] <= gen
  <2>1. CASE ReadChan(g)
    <3>1. PICK c \in wchan[g] .. gen : wchan' = [wchan EXCEPT ![g] = c]
      BY <2>1 DEF ReadChan
    <3> QED
      BY <3>1, OrderTypes
  <2>2. CASE WriterExit(g) \/ WriteFail(g)
    <3>1. wchan' = wchan /\ wchan[g] <= gen
      BY <1>2, <2>2 DEF WriterExit, WriteFail, SoloInv, WriterFacts, Running
    <3> QED
      BY <3>1, OrderTypes
  <2> QED
    BY <2>1, <2>2
<1>4. \A h \in Gens : wchan[h] \in Nat /\ wchan'[h] \in Nat
  <2>1. wchan' \in [Gens -> Nat]
    BY NextType, OrderTypes DEF ReadChan, WriterExit, WriteFail
  <2> QED
    BY <2>1, OrderTypes
<1>5. WriterFacts'
  BY <1>1, <1>2, <1>3, OrderFrames DEF SoloInv, WriterFacts, Deliveries
<1>6. ASSUME ~overlap PROVE Solo' /\ AllOlder'
  <2>1. Solo /\ AllOlder
    BY <1>6 DEF SoloInv
  <2>2. \A h \in Gens \ {g} : ~Running(h)' /\ (writer[h] # "none" => wchan[h] <= wchan[g])
    BY <1>2, <2>1 DEF Solo, Running
  <2>3. Solo'
    <3> SUFFICES ASSUME NEW k \in Gens, NEW h \in Gens, Running(k)', h # k, writer'[h] # "none"
                 PROVE  ~Running(h)' /\ wchan'[h] <= wchan'[k]
      BY DEF Solo
    <3>1. k = g /\ writer[h] # "none" /\ wchan'[h] = wchan[h]
      BY <1>2, <2>2
    <3>2. wchan[h] <= wchan[g] /\ ~Running(h)'
      BY <2>2, <3>1
    <3> QED
      BY <1>3, <1>4, <3>1, <3>2
  <2>4. AllOlder'
    BY <1>1, <1>2, <2>1 DEF AllOlder, Older, Frame
  <2> QED
    BY <2>3, <2>4
<1> QED
  BY <1>1, <1>5, <1>6 DEF SoloInv, SinkOrder

LEMMA NextSolo == LiveInv /\ OrderInv /\ SoloInv /\ [Next]_vars => SoloInv'
<1> SUFFICES ASSUME LiveInv, OrderInv, SoloInv, [Next]_vars PROVE SoloInv'
  OBVIOUS
<1> USE DEF LiveInv
<1>1. CASE StartOK
  BY <1>1, StartSolo
<1>2. CASE StartBegin \/ StartFail \/ StopStep \/ CtxCancel \/ UNCHANGED vars
  <2>1. UNCHANGED <<writeVars, sent, overlap>> /\ (gen' = gen \/ gen' = gen + 1)
    BY <1>2 DEF StartBegin, StartFail, StopStep, StopNoop, StopMark, UnbindTake, UnbindCall, CtxCancel,
                vars, pipeVars, fateVars
  <2>2. gen <= gen' /\ gen' \in Nat
    BY <2>1, OrderTypes
  <2> QED
    BY <2>1, <2>2, QuietSolo
<1>3. ASSUME NEW t \in Tracks, EmitterStep(t) PROVE SoloInv'
  <2>1. UNCHANGED <<writeVars, sent, overlap>> /\ gen' = gen
    BY <1>3 DEF EmitterStep, Emit, RouteStarted, RouteIgnored, Enqueue, Drop, pipeVars, fateVars
  <2>2. gen <= gen' /\ gen' \in Nat
    BY <2>1, OrderTypes
  <2> QED
    BY <2>1, <2>2, QuietSolo
<1>4. ASSUME NEW g \in Gens, WriterStep(g) PROVE SoloInv'
  BY <1>4, ReceiveSolo, WriteSolo, OtherSolo DEF WriterStep
<1> QED
  BY <1>1, <1>2, <1>3, <1>4 DEF Next, StartStep

(* The sink sees the frames of every track in the order the source emitted     *)
(* them, for any queue, frames and interleaving, as long as no run of the pipe *)
(* starts while the writer of an earlier one still works (sinkWriter).         *)
THEOREM SinkInOrder == Spec => []SinkOrder
<1>1. SoloInv => SinkOrder
  BY DEF SoloInv
<1>2. TypeInv /\ OrderInv /\ LiveInv /\ SoloInv /\ [Next]_vars
        => OrderInv' /\ LiveInv' /\ SoloInv'
  BY NextOrder, NextLive, NextSolo
<1>3. Init => OrderInv /\ LiveInv /\ SoloInv
  BY InitOrder, InitLive, InitSolo
<1> QED
  BY <1>1, <1>2, <1>3, TypeInvariance, PTL DEF Spec

-----------------------------------------------------------------------------
(* Conservation.  Seven places a frame may be in; a step that moves one takes  *)
(* it from one of them to another and leaves every other frame where it is.    *)

Queued(f) == \E c \in Gens : f \in Held(c)
InHand(f) == \E g \in Gens : f \in hand[g]
Written(f) == \E r \in Out : Frame(r) = f
One(b) == IF b THEN 1 ELSE 0
Places(f) == One(InEmitter(f)) + One(f \in ignored) + One(f \in dropped) + One(f \in failed)
               + One(Queued(f)) + One(InHand(f)) + One(Written(f))

Emitted == {f \in Frames : f[2] <= seen[f[1]]}
OnePlace == \A f \in Emitted : Places(f) = 1
LostPast == \A f \in ignored \cup dropped \cup failed : f \in Emitted
OneInHand == \A g \in Gens : IF writer[g] = "writing" THEN \E f \in Frames : hand[g] = {f}
                                                      ELSE hand[g] = {}
WrittenOnce == \A i, j \in 1 .. Len(sent) : i # j => Frame(sent[i]) # Frame(sent[j])

PlaceInv == OnePlace /\ LostPast /\ OneInHand /\ WrittenOnce

LEMMA InitPlace == Init => PlaceInv
<1> SUFFICES ASSUME Init PROVE PlaceInv
  OBVIOUS
<1>1. Emitted = {}
  BY DEF Init, Emitted, Frames
<1>2. Len(sent) = 0
  BY DEF Init
<1> QED
  BY <1>1, <1>2 DEF Init, PlaceInv, OnePlace, LostPast, OneInHand, WrittenOnce

\* What moves no frame.
LEMMA StillPlace ==
  ASSUME TypeInv, PlaceInv, UNCHANGED <<seen, queue, hand, fateVars>>,
         \A f \in Frames : InEmitter(f)' = InEmitter(f),
         \A g \in Gens : writer'[g] = "writing" <=> writer[g] = "writing"
  PROVE  PlaceInv'
<1> USE DEF PlaceInv, fateVars
<1>1. \A f \in Frames : Queued(f)' = Queued(f) /\ InHand(f)' = InHand(f) /\ Written(f)' = Written(f)
  BY DEF Queued, InHand, Written, Held, Out, Frame
<1>2. Emitted' = Emitted /\ Emitted \subseteq Frames
  BY DEF Emitted
<1>3. OnePlace'
  BY <1>1, <1>2 DEF OnePlace, Places, One
<1> QED
  BY <1>2, <1>3 DEF LostPast, OneInHand, WrittenOnce, Frame

\* A frame moves: of its two places, one is true before and the other after.
LEMMA MovePlace ==
  ASSUME TypeInv, OnePlace, UNCHANGED seen, NEW e \in Frames,
         \A f \in Emitted \ {e} : Places(f)' = Places(f),
         e \in Emitted => Places(e)' = Places(e)
  PROVE  OnePlace'
<1>1. Emitted' = Emitted
  BY DEF Emitted
<1> QED
  BY <1>1 DEF OnePlace

LEMMA EmitterPlace ==
  ASSUME TypeInv, OrderInv, PlaceInv, NEW t \in Tracks, EmitterStep(t)
  PROVE  PlaceInv'
<1> USE DEF PlaceInv
<1>0. UNCHANGED <<hand, writer, sent, failed>> /\ Out' = Out
  BY DEF EmitterStep, Emit, RouteStarted, RouteIgnored, Enqueue, Drop, writeVars, fateVars, Out
<1>1. \A f \in Frames : InHand(f)' = InHand(f) /\ Written(f)' = Written(f)
  BY <1>0 DEF InHand, Written, Frame
<1>2. OneInHand' /\ WrittenOnce'
  BY <1>0 DEF OneInHand, WrittenOnce, Frame
<1>3. \A f \in Frames : f[1] \in Tracks /\ f[2] \in Nat /\ f[2] # 0 /\ f = <<f[1], f[2]>>
  BY DEF Frames
<1>4. CASE Emit(t)
  <2>1. /\ pc[t] = "idle" /\ seen' = [seen EXCEPT ![t] = @ + 1] /\ pc' = [pc EXCEPT ![t] = "called"]
        /\ UNCHANGED <<queue, ignored, dropped>>
    BY <1>4 DEF Emit, fateVars
  <2>2. \A f \in Frames : Queued(f)' = Queued(f)
    BY <2>1 DEF Queued, Held
  <2>3. \A u \in Tracks : /\ seen'[u] = IF u = t THEN seen[u] + 1 ELSE seen[u]
                          /\ pc'[u] = IF u = t THEN "called" ELSE pc[u]
                          /\ seen[u] \in Nat
    BY <2>1, OrderTypes
  <2>4. ASSUME NEW f \in Emitted', f \in Emitted PROVE Places(f)' = Places(f)
    <3>1. f \in Frames /\ f[2] <= seen[f[1]]
      BY <2>4 DEF Emitted
    <3>2. InEmitter(f)' = InEmitter(f)
      <4>1. CASE f[1] = t
        <5>1. ~InEmitter(f)
          BY <2>1, <4>1 DEF InEmitter
        <5>2. seen'[f[1]] = seen[f[1]] + 1 /\ seen[f[1]] \in Nat /\ f[2] \in Nat
          BY <1>3, <2>3, <3>1, <4>1
        <5>3. f[2] # seen'[f[1]]
          BY <3>1, <5>2
        <5> QED
          BY <5>1, <5>3 DEF InEmitter
      <4>2. CASE f[1] # t
        BY <1>3, <2>3, <3>1, <4>2 DEF InEmitter
      <4> QED
        BY <4>1, <4>2
    <3> QED
      BY <1>0, <1>1, <2>1, <2>2, <3>1, <3>2 DEF Places, One
  <2>5. ASSUME NEW f \in Emitted', f \notin Emitted PROVE Places(f)' = 1
    <3>1. f \in Frames /\ ~(f[2] <= seen[f[1]]) /\ f[2] <= seen'[f[1]]
      BY <2>5 DEF Emitted
    <3>2. f[1] = t /\ f[2] = seen'[f[1]] /\ pc'[f[1]] # "idle"
      BY <1>3, <2>3, <3>1
    <3>3. InEmitter(f)'
      BY <3>2 DEF InEmitter
    <3>4. ~Past(f)
      BY <3>1 DEF Past
    <3>5. ~Queued(f) /\ ~InHand(f) /\ ~Written(f)
      BY <3>4 DEF OrderInv, QueuesPast, WritersPast, Queued, InHand, Written
    <3>6. f \notin ignored /\ f \notin dropped /\ f \notin failed
      BY <2>5 DEF LostPast
    <3> QED
      BY <1>0, <1>1, <2>1, <2>2, <3>1, <3>3, <3>5, <3>6 DEF Places, One
  <2>6. Emitted \subseteq Emitted'
    BY <1>3, <2>3 DEF Emitted
  <2>7. OnePlace'
    BY <2>4, <2>5 DEF OnePlace
  <2>8. LostPast'
    BY <1>0, <2>1, <2>6 DEF LostPast
  <2> QED
    BY <1>2, <2>7, <2>8
<1>5. CASE RouteStarted(t)
  <2>1. /\ UNCHANGED <<seen, queue, fateVars>> /\ pc[t] = "called" /\ pc' = [pc EXCEPT ![t] = "routing"]
    BY <1>5 DEF RouteStarted
  <2>2. \A f \in Frames : InEmitter(f)' = InEmitter(f)
    BY <1>3, <2>1, OrderTypes DEF InEmitter
  <2> QED
    BY <1>0, <2>1, <2>2, StillPlace
<1>6. CASE RouteIgnored(t) \/ Enqueue(t) \/ Drop(t)
  <2>1. PICK e : e = <<t, seen[t]>>
    OBVIOUS
  <2>2. pc[t] # "idle" /\ pc' = [pc EXCEPT ![t] = "idle"] /\ UNCHANGED seen
    BY <1>6 DEF RouteIgnored, Enqueue, Drop
  <2>3. e \in Frames /\ e[1] = t /\ e[2] = seen[t]
    <3>1. seen[t] \in 0 .. MaxFrames /\ seen[t] > 0 /\ MaxFrames \in Nat
      BY <2>2, PipeAssumption DEF TypeInv, TypeOK, GenInv
    <3>2. seen[t] \in 1 .. MaxFrames
      BY <3>1
    <3> QED
      BY <2>1, <3>2 DEF Frames
  <2>4. e \in Emitted /\ InEmitter(e) /\ Emitted \subseteq Frames
    BY <2>2, <2>3, OrderTypes DEF Emitted, InEmitter
  <2>5. ~InEmitter(e)' /\ \A f \in Frames \ {e} : InEmitter(f)' = InEmitter(f)
    BY <1>3, <2>1, <2>2, <2>3, OrderTypes DEF InEmitter
  <2>6. /\ e \notin ignored /\ e \notin dropped /\ e \notin failed
        /\ ~Queued(e) /\ ~InHand(e) /\ ~Written(e)
    <3>1. Places(e) = 1
      BY <2>4 DEF OnePlace
    <3> QED
      BY <2>4, <3>1 DEF Places, One
  <2>7. CASE RouteIgnored(t)
    <3>1. ignored' = ignored \cup {e} /\ UNCHANGED <<dropped, queue>>
      BY <2>1, <2>7 DEF RouteIgnored
    <3>2. \A f \in Frames : Queued(f)' = Queued(f)
      BY <3>1 DEF Queued, Held
    <3>3. Places(e)' = Places(e)
      BY <1>0, <1>1, <2>3, <2>4, <2>5, <2>6, <3>1, <3>2 DEF Places, One
    <3>4. \A f \in Emitted \ {e} : Places(f)' = Places(f)
      BY <1>0, <1>1, <2>4, <2>5, <3>1, <3>2 DEF Places, One
    <3>5. LostPast'
      BY <1>0, <2>2, <2>4, <3>1 DEF LostPast, Emitted
    <3> QED
      BY <1>2, <2>2, <2>3, <3>3, <3>4, <3>5, MovePlace
  <2>8. CASE Drop(t)
    <3>1. dropped' = dropped \cup {e} /\ UNCHANGED <<ignored, queue>>
      BY <2>1, <2>8 DEF Drop
    <3>2. \A f \in Frames : Queued(f)' = Queued(f)
      BY <3>1 DEF Queued, Held
    <3>3. Places(e)' = Places(e)
      BY <1>0, <1>1, <2>3, <2>4, <2>5, <2>6, <3>1, <3>2 DEF Places, One
    <3>4. \A f \in Emitted \ {e} : Places(f)' = Places(f)
      BY <1>0, <1>1, <2>4, <2>5, <3>1, <3>2 DEF Places, One
    <3>5. LostPast'
      BY <1>0, <2>2, <2>4, <3>1 DEF LostPast, Emitted
    <3> QED
      BY <1>2, <2>2, <2>3, <3>3, <3>4, <3>5, MovePlace
  <2>9. CASE Enqueue(t)
    <3>1. PICK c : c = ch[t]
      OBVIOUS
    <3>2. /\ pc[t] = "routing" /\ queue' = [queue EXCEPT ![c] = Append(@, e)]
          /\ UNCHANGED <<ignored, dropped>>
      BY <2>1, <2>9, <3>1 DEF Enqueue, fateVars
    <3>3. c \in Gens /\ queue[c] \in Seq(Frames)
      BY <3>1, <3>2, OrderTypes
    <3>4. \A f \in In(queue[c]) : Older(f, e)
      <4>1. ASSUME NEW f \in In(queue[c]) PROVE f \in Frames /\ Past(f)
        BY <3>3, <4>1, OrderFrames DEF OrderInv, QueuesPast, Held
      <4> QED
        BY <2>2, <2>3, <4>1 DEF Past, Older
    <3>5. In(Append(queue[c], e)) = In(queue[c]) \cup {e}
      BY <2>3, <3>3, <3>4, Behind DEF OrderInv, QueuesSorted
    <3>6. \A d \in Gens : queue'[d] = IF d = c THEN Append(queue[c], e) ELSE queue[d]
      BY <3>2, <3>3, OrderTypes
    <3>7. Queued(e)'
      BY <3>3, <3>5, <3>6 DEF Queued, Held
    <3>8. ASSUME NEW f \in Frames \ {e} PROVE Queued(f)' = Queued(f)
      <4>1. \A d \in Gens : f \in In(queue'[d]) <=> f \in In(queue[d])
        BY <3>5, <3>6, <3>8
      <4> QED
        BY <4>1 DEF Queued, Held
    <3>9. Places(e)' = Places(e)
      BY <1>0, <1>1, <2>3, <2>4, <2>5, <2>6, <3>2, <3>7 DEF Places, One
    <3>10. \A f \in Emitted \ {e} : Places(f)' = Places(f)
      BY <1>0, <1>1, <2>4, <2>5, <3>2, <3>8 DEF Places, One
    <3>11. LostPast'
      BY <1>0, <2>2, <3>2 DEF LostPast, Emitted
    <3> QED
      BY <1>2, <2>2, <2>3, <3>9, <3>10, <3>11, MovePlace
  <2> QED
    BY <1>6, <2>7, <2>8, <2>9
<1> QED
  BY <1>4, <1>5, <1>6 DEF EmitterStep

LEMMA ReceivePlace ==
  ASSUME TypeInv, OrderInv, OrderInv', PlaceInv, NEW g \in Gens, Receive(g)
  PROVE  PlaceInv'
<1> USE DEF PlaceInv
<1>1. PICK c, e : c = wchan[g] /\ e = Head(queue[c])
  OBVIOUS
<1>2. /\ queue[c] # <<>> /\ writer[g] = "select"
      /\ hand' = [hand EXCEPT ![g] = {e}] /\ writer' = [writer EXCEPT ![g] = "writing"]
      /\ queue' = [queue EXCEPT ![c] = Tail(@)]
      /\ UNCHANGED <<seen, pc, sent, failed, dropped, ignored>> /\ Out' = Out
  BY <1>1 DEF Receive, emitVars, fateVars, Out
<1>3. c \in Gens /\ queue[c] \in Seq(Frames)
  BY <1>1, OrderTypes
<1>4. e \in In(queue[c]) /\ e \in Held(c) /\ e \in Frames
  BY <1>1, <1>2, <1>3, Ahead, OrderFrames DEF OrderInv, QueuesSorted, Held
<1>5. In(queue[c]) = In(Tail(queue[c])) \cup {e}
  <2>1. /\ Len(queue[c]) \in Nat /\ Len(queue[c]) > 0 /\ e = queue[c][1]
        /\ Len(Tail(queue[c])) = Len(queue[c]) - 1
        /\ \A i \in 1 .. Len(Tail(queue[c])) : Tail(queue[c])[i] = queue[c][i + 1]
    BY <1>1, <1>2, <1>3
  <2>2. In(Tail(queue[c])) \subseteq In(queue[c])
    BY <1>2, <1>3, Ahead DEF OrderInv, QueuesSorted
  <2>3. ASSUME NEW i \in 1 .. Len(queue[c]) PROVE queue[c][i] \in In(Tail(queue[c])) \cup {e}
    <3>1. CASE i = 1
      BY <2>1, <3>1
    <3>2. CASE i # 1
      <4>1. i - 1 \in 1 .. Len(Tail(queue[c])) /\ (i - 1) + 1 = i
        BY <2>1, <3>2
      <4> QED
        BY <2>1, <4>1 DEF In
    <3> QED
      BY <3>1, <3>2
  <2>4. In(queue[c]) \subseteq In(Tail(queue[c])) \cup {e}
    BY <2>3 DEF In
  <2> QED
    BY <1>4, <2>2, <2>4
<1>6. /\ \A d \in Gens : queue'[d] = IF d = c THEN Tail(queue[c]) ELSE queue[d]
      /\ \A h \in Gens : hand'[h] = IF h = g THEN {e} ELSE hand[h]
      /\ \A h \in Gens : writer'[h] = IF h = g THEN "writing" ELSE writer[h]
  BY <1>2, <1>3, OrderTypes
<1>7. hand[g] = {}
  BY <1>2 DEF OneInHand
<1>8. ASSUME NEW f \in Frames \ {e}
      PROVE  Queued(f)' = Queued(f) /\ InHand(f)' = InHand(f)
  <2>1. \A d \in Gens : f \in In(queue'[d]) <=> f \in In(queue[d])
    BY <1>5, <1>6, <1>8
  <2>2. \A h \in Gens : f \in hand'[h] <=> f \in hand[h]
    BY <1>6, <1>7, <1>8
  <2> QED
    BY <2>1, <2>2 DEF Queued, InHand, Held
<1>9. Queued(e) /\ InHand(e)' /\ ~Queued(e)'
  <2>1. e \in hand'[g]
    BY <1>6
  <2>2. \A d \in Gens : e \notin Held(d)'
    BY <2>1 DEF OrderInv, OncePlaced
  <2> QED
    BY <1>3, <1>4, <2>1, <2>2 DEF Queued, InHand
<1>10. ~InHand(e)
  BY <1>3, <1>4 DEF OrderInv, OncePlaced, InHand
<1>11. \A f \in Frames : Written(f)' = Written(f) /\ InEmitter(f)' = InEmitter(f)
  BY <1>2 DEF Written, InEmitter, Frame
<1>12. Places(e)' = Places(e)
  BY <1>2, <1>4, <1>9, <1>10, <1>11 DEF Places, One
<1>13. \A f \in Emitted \ {e} : Places(f)' = Places(f)
  BY <1>2, <1>8, <1>11 DEF Places, One, Emitted
<1>14. OnePlace'
  BY <1>2, <1>4, <1>12, <1>13, MovePlace
<1>15. LostPast' /\ WrittenOnce'
  BY <1>2 DEF LostPast, WrittenOnce, Emitted, Frame
<1>16. OneInHand'
  BY <1>4, <1>6 DEF OneInHand
<1> QED
  BY <1>14, <1>15, <1>16

\* What a write leaves: the hand is empty, the frame is where it was put.
LEMMA HandEmptied ==
  ASSUME TypeInv, OrderInv, PlaceInv, NEW g \in Gens, WriteOK(g) \/ WriteFail(g)
  PROVE  \E e \in Frames :
           /\ hand[g] = {e} /\ e \in Emitted /\ InHand(e) /\ ~InHand(e)'
           /\ \A f \in Frames \ {e} : InHand(f)' = InHand(f)
           /\ \A f \in Frames : Queued(f)' = Queued(f) /\ InEmitter(f)' = InEmitter(f)
           /\ e \notin failed /\ ~Written(e)
           /\ OneInHand' /\ UNCHANGED <<seen, ignored, dropped>>
<1>1. /\ writer[g] = "writing" /\ writer' = [writer EXCEPT ![g] = "top"]
      /\ hand' = [hand EXCEPT ![g] = {}] /\ UNCHANGED <<queue, seen, pc, ignored, dropped>>
  BY DEF WriteOK, WriteFail, emitVars
<1>2. PICK e \in Frames : hand[g] = {e}
  BY <1>1 DEF PlaceInv, OneInHand
<1>3. /\ \A h \in Gens : hand'[h] = IF h = g THEN {} ELSE hand[h]
      /\ \A h \in Gens : writer'[h] = IF h = g THEN "top" ELSE writer[h]
  BY <1>1, OrderTypes
<1>4. e \in Emitted /\ InHand(e)
  BY <1>2 DEF OrderInv, WritersPast, Past, Emitted, InHand
<1>5. ~InHand(e)'
  BY <1>2, <1>3 DEF OrderInv, OncePlaced, InHand
<1>6. ASSUME NEW f \in Frames \ {e} PROVE InHand(f)' = InHand(f)
  <2>1. \A h \in Gens : f \in hand'[h] <=> f \in hand[h]
    BY <1>2, <1>3, <1>6
  <2> QED
    BY <2>1 DEF InHand
<1>7. \A f \in Frames : Queued(f)' = Queued(f) /\ InEmitter(f)' = InEmitter(f)
  BY <1>1 DEF Queued, Held, InEmitter
<1>8. e \notin failed /\ ~Written(e)
  <2>1. Places(e) = 1
    BY <1>4 DEF PlaceInv, OnePlace
  <2> QED
    BY <1>4, <2>1 DEF Places, One
<1>9. OneInHand'
  BY <1>3 DEF PlaceInv, OneInHand
<1> QED
  BY <1>1, <1>2, <1>4, <1>5, <1>6, <1>7, <1>8, <1>9

LEMMA WritePlace ==
  ASSUME TypeInv, OrderInv, PlaceInv, NEW g \in Gens, WriteOK(g) \/ WriteFail(g)
  PROVE  PlaceInv'
<1> USE DEF PlaceInv
<1>1. PICK e \in Frames :
           /\ hand[g] = {e} /\ e \in Emitted /\ InHand(e) /\ ~InHand(e)'
           /\ \A f \in Frames \ {e} : InHand(f)' = InHand(f)
           /\ \A f \in Frames : Queued(f)' = Queued(f) /\ InEmitter(f)' = InEmitter(f)
           /\ e \notin failed /\ ~Written(e)
           /\ OneInHand' /\ UNCHANGED <<seen, ignored, dropped>>
  BY HandEmptied
<1>2. Emitted' = Emitted /\ Emitted \subseteq Frames
  BY <1>1 DEF Emitted
<1>3. CASE WriteFail(g)
  <2>1. failed' = failed \cup {e} /\ UNCHANGED sent /\ Out' = Out
    BY <1>1, <1>3 DEF WriteFail, Out
  <2>2. \A f \in Frames : Written(f)' = Written(f)
    BY <2>1 DEF Written, Frame
  <2>3. Places(e)' = Places(e)
    BY <1>1, <2>1, <2>2 DEF Places, One
  <2>4. \A f \in Emitted \ {e} : Places(f)' = Places(f)
    BY <1>1, <1>2, <2>1, <2>2 DEF Places, One
  <2>5. OnePlace'
    BY <1>1, <2>3, <2>4, MovePlace
  <2>6. LostPast' /\ WrittenOnce'
    BY <1>1, <1>2, <2>1 DEF LostPast, WrittenOnce, Frame
  <2> QED
    BY <1>1, <2>5, <2>6
<1>4. CASE WriteOK(g)
  <2>1. PICK d : /\ d = [writer |-> g, track |-> e[1], num |-> e[2]]
                 /\ sent' = Append(sent, d) /\ Out' = Out \cup {d}
    BY <1>1, <1>4, WriteOrder
  <2>2. Frame(d) = e /\ d \in Deliveries /\ UNCHANGED failed
    BY <1>4, <2>1, OrderFrames DEF Frame, Deliveries, Frames, WriteOK
  <2>3. Written(e)'
    BY <2>1, <2>2 DEF Written, Frame
  <2>4. ASSUME NEW f \in Frames \ {e} PROVE Written(f)' = Written(f)
    BY <2>1, <2>2, <2>4 DEF Written, Frame
  <2>5. Places(e)' = Places(e)
    BY <1>1, <2>2, <2>3 DEF Places, One
  <2>6. \A f \in Emitted \ {e} : Places(f)' = Places(f)
    BY <1>1, <1>2, <2>2, <2>4 DEF Places, One
  <2>7. OnePlace'
    BY <1>1, <2>5, <2>6, MovePlace
  <2>8. LostPast'
    BY <1>1, <1>2, <2>2 DEF LostPast
  <2>9. WrittenOnce'
    <3>1. sent \in Seq(Deliveries)
      BY OrderTypes
    <3>2. /\ Len(sent) \in Nat /\ Len(sent') = Len(sent) + 1
          /\ sent'[Len(sent) + 1] = d /\ \A k \in 1 .. Len(sent) : sent'[k] = sent[k]
      BY <2>1, <2>2, <3>1
    <3>3. \A i \in 1 .. Len(sent) : Frame(sent[i]) # e
      BY <1>1 DEF Written, Out
    <3> SUFFICES ASSUME NEW i \in 1 .. Len(sent'), NEW j \in 1 .. Len(sent'), i # j
                 PROVE  Frame(sent'[i]) # Frame(sent'[j])
      BY DEF WrittenOnce, Frame
    <3>4. CASE i = Len(sent) + 1
      <4>1. j \in 1 .. Len(sent)
        BY <3>2, <3>4
      <4> QED
        BY <2>2, <3>2, <3>3, <3>4, <4>1
    <3>5. CASE j = Len(sent) + 1
      <4>1. i \in 1 .. Len(sent)
        BY <3>2, <3>5
      <4> QED
        BY <2>2, <3>2, <3>3, <3>5, <4>1
    <3>6. CASE i # Len(sent) + 1 /\ j # Len(sent) + 1
      <4>1. i \in 1 .. Len(sent) /\ j \in 1 .. Len(sent)
        BY <3>2, <3>6
      <4> QED
        BY <3>2, <4>1 DEF WrittenOnce
    <3> QED
      BY <3>4, <3>5, <3>6
  <2> QED
    BY <1>1, <2>7, <2>8, <2>9
<1> QED
  BY <1>3, <1>4

LEMMA NextPlace ==
  ASSUME TypeInv, OrderInv, OrderInv', LiveInv, PlaceInv, [Next]_vars
  PROVE  PlaceInv'
<1>1. CASE StartStep \/ StopStep \/ CtxCancel \/ UNCHANGED vars
  <2>1. UNCHANGED <<seen, pc, queue, hand, fateVars>>
    BY <1>1 DEF StartStep, StartBegin, StartOK, StartFail, StopStep, StopNoop, StopMark, UnbindTake,
                UnbindCall, CtxCancel, vars, emitVars, writeVars
  <2>2. \A g \in Gens : writer'[g] = "writing" <=> writer[g] = "writing"
    <3>1. CASE StartOK
      BY <3>1, OrderTypes DEF StartOK, LiveInv, StartInv
    <3>2. CASE ~StartOK
      BY <1>1, <3>2 DEF StartStep, StartBegin, StartFail, StopStep, StopNoop, StopMark, UnbindTake,
                        UnbindCall, CtxCancel, vars, writeVars
    <3> QED
      BY <3>1, <3>2
  <2>3. \A f \in Frames : InEmitter(f)' = InEmitter(f)
    BY <2>1 DEF InEmitter
  <2> QED
    BY <2>1, <2>2, <2>3, StillPlace
<1>2. ASSUME NEW t \in Tracks, EmitterStep(t) PROVE PlaceInv'
  BY <1>2, EmitterPlace
<1>3. ASSUME NEW g \in Gens, WriterStep(g) PROVE PlaceInv'
  <2>1. CASE ReadChan(g) \/ WriterExit(g)
    <3>1. UNCHANGED <<seen, pc, queue, hand, fateVars>>
      BY <2>1 DEF ReadChan, WriterExit, emitVars
    <3>2. \A h \in Gens : writer'[h] = "writing" <=> writer[h] = "writing"
      BY <2>1, OrderTypes DEF ReadChan, WriterExit
    <3>3. \A f \in Frames : InEmitter(f)' = InEmitter(f)
      BY <3>1 DEF InEmitter
    <3> QED
      BY <3>1, <3>2, <3>3, StillPlace
  <2> QED
    BY <1>3, <2>1, ReceivePlace, WritePlace DEF WriterStep
<1> QED
  BY <1>1, <1>2, <1>3 DEF Next

\* A frame is nowhere twice, so the sizes that Conservation adds are ones or zeros.
LEMMA NowhereTwice ==
  ASSUME TypeInv, OrderInv, PlaceInv, NEW f \in Frames
  PROVE  /\ Cardinality(QueueSlots(f)) = One(Queued(f))
         /\ Cardinality(Holders(f)) = One(InHand(f))
         /\ Cardinality(Writes(f)) = One(Written(f))
<1>0. /\ f[1] = f[1] /\ f[2] \in Nat /\ ~Older(f, f)
  BY OrderFrames DEF Older
<1>1. Cardinality(QueueSlots(f)) = One(Queued(f))
  <2>1. \A c \in Gens : Len(queue[c]) \in Nat /\ DOMAIN queue[c] = 1 .. Len(queue[c])
    BY OrderTypes
  <2>2. \A c \in Gens : Len(queue[c]) <= BufSize
    BY DEF TypeInv, TypeOK
  <2>3. CASE ~Queued(f)
    <3>1. QueueSlots(f) = {}
      BY <2>1, <2>3 DEF QueueSlots, Queued, Held, In
    <3> QED
      BY <2>3, <3>1, FS_EmptySet DEF One
  <2>4. CASE Queued(f)
    <3>1. PICK c \in Gens : f \in Held(c)
      BY <2>4 DEF Queued
    <3>2. PICK i \in 1 .. Len(queue[c]) : queue[c][i] = f
      BY <3>1 DEF Held, In
    <3>3. i \in 1 .. BufSize
      BY <2>1, <2>2, <3>2, PipeAssumption
    <3>4. <<c, i>> \in QueueSlots(f)
      BY <2>1, <3>2, <3>3 DEF QueueSlots
    <3>5. ASSUME NEW d \in Gens, NEW j \in 1 .. Len(queue[d]), queue[d][j] = f
          PROVE  d = c /\ j = i
      <4>1. f \in Held(d) /\ c \in Nat /\ d \in Nat
        BY <3>5, OrderTypes DEF Held, In
      <4>2. d = c
        BY <1>0, <3>1, <4>1 DEF OrderInv, QueuesInTurn
      <4>3. i = j \/ i < j \/ j < i
        OBVIOUS
      <4>4. Sorted(queue[c])
        BY DEF OrderInv, QueuesSorted
      <4> QED
        BY <1>0, <3>2, <3>5, <4>2, <4>3, <4>4 DEF Sorted
    <3>6. \A p \in QueueSlots(f) : p = <<c, i>>
      BY <2>1, <3>5 DEF QueueSlots
    <3>7. QueueSlots(f) = {<<c, i>>}
      BY <3>4, <3>6
    <3> QED
      BY <2>4, <3>7, FS_Singleton DEF One
  <2> QED
    BY <2>3, <2>4
<1>2. Cardinality(Holders(f)) = One(InHand(f))
  <2>1. CASE ~InHand(f)
    <3>1. Holders(f) = {}
      BY <2>1 DEF Holders, InHand
    <3> QED
      BY <2>1, <3>1, FS_EmptySet DEF One
  <2>2. CASE InHand(f)
    <3>1. PICK g \in Gens : f \in hand[g]
      BY <2>2 DEF InHand
    <3>2. Holders(f) = {g}
      BY <3>1 DEF Holders, OrderInv, OncePlaced
    <3> QED
      BY <2>2, <3>2, FS_Singleton DEF One
  <2> QED
    BY <2>1, <2>2
<1>3. Cardinality(Writes(f)) = One(Written(f))
  <2>1. DOMAIN sent = 1 .. Len(sent) /\ Writes(f) = {i \in 1 .. Len(sent) : Frame(sent[i]) = f}
    BY OrderTypes DEF Writes, Frame
  <2>2. CASE ~Written(f)
    <3>1. Writes(f) = {}
      BY <2>1, <2>2 DEF Written, Out
    <3> QED
      BY <2>2, <3>1, FS_EmptySet DEF One
  <2>3. CASE Written(f)
    <3>1. PICK i \in 1 .. Len(sent) : Frame(sent[i]) = f
      BY <2>3 DEF Written, Out
    <3>2. Writes(f) = {i}
      BY <2>1, <3>1 DEF PlaceInv, WrittenOnce
    <3> QED
      BY <2>3, <3>2, FS_Singleton DEF One
  <2> QED
    BY <2>2, <2>3
<1> QED
  BY <1>1, <1>2, <1>3

(* Every frame the source handed over is in exactly one place, for any tracks, *)
(* queue, faults of the sink and interleaving of emitters, writers, Starts and *)
(* Stops: none disappears uncounted, none is doubled (routeFrame, sinkWriter). *)
THEOREM FramesConserved == Spec => []Conservation
<1>1. TypeInv /\ OrderInv /\ PlaceInv => Conservation
  <2> SUFFICES ASSUME TypeInv, OrderInv, PlaceInv, NEW t \in Tracks, NEW n \in 1 .. seen[t]
               PROVE  One(InEmitter(<<t, n>>)) + One(<<t, n>> \in ignored)
                        + One(<<t, n>> \in dropped) + One(<<t, n>> \in failed)
                        + Cardinality(QueueSlots(<<t, n>>)) + Cardinality(Holders(<<t, n>>))
                        + Cardinality(Writes(<<t, n>>)) = 1
    BY DEF Conservation, One
  <2>1. <<t, n>> \in Emitted
    <3>1. seen[t] \in 0 .. MaxFrames /\ MaxFrames \in Nat
      BY PipeAssumption DEF TypeInv, TypeOK
    <3>2. n \in 1 .. MaxFrames /\ n <= seen[t]
      BY <3>1
    <3> QED
      BY <3>2 DEF Emitted, Frames
  <2>2. <<t, n>> \in Frames /\ Places(<<t, n>>) = 1
    BY <2>1 DEF PlaceInv, OnePlace, Emitted
  <2> QED
    BY <2>2, NowhereTwice DEF Places
<1>2. TypeInv /\ TypeInv' /\ OrderInv /\ LiveInv /\ PlaceInv /\ [Next]_vars
        => OrderInv' /\ LiveInv' /\ PlaceInv'
  BY NextOrder, NextLive, NextPlace
<1>3. Init => OrderInv /\ LiveInv /\ PlaceInv
  BY InitOrder, InitLive, InitPlace
<1> QED
  BY <1>1, <1>2, <1>3, TypeInvariance, PTL DEF Spec
=============================================================================
