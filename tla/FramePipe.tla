------------------------------ MODULE FramePipe ------------------------------
(***************************************************************************)
(* media.DefaultPipe (src/server/internal/media/default_pipe.go): the data   *)
(* plane between one source and one sink.                                    *)
(*                                                                           *)
(* Three kinds of goroutine meet on a pipe:                                  *)
(*   - the source's emitters, one per track, that call routeFrame through    *)
(*     the callback Bind registered on the source;                           *)
(*   - the caller of Start and Stop;                                         *)
(*   - the sinkWriter goroutines, one per successful Start; a cancelled one  *)
(*     may still be running when the next one is started.                    *)
(*                                                                           *)
(* Generation g is what the g-th effective call of Start allocates: its      *)
(* context, its inFlight channel and, unless Configure fails, its writer.    *)
(* Calls of Stop are serialised (MediaHub holds its lock around them); calls *)
(* of Start are not serialised with them.                                    *)
(***************************************************************************)
EXTENDS Naturals, Sequences, FiniteSets

CONSTANTS Tracks,     \* tracks of the source, each with its emitting goroutine
          BufSize,    \* capacity of inFlight (1024 in the hub)
          MaxFrames,  \* bound: frames emitted per track
          MaxStarts   \* bound: effective calls of Start

ASSUME PipeAssumption == /\ BufSize \in Nat \ {0}
                         /\ MaxFrames \in Nat
                         /\ MaxStarts \in Nat

VARIABLES
  mu,         \* who holds p.mu across steps: "free" or "start"
  started,    \* p.started
  gen,        \* the generation p.ctx, p.cancel and p.inFlight belong to; 0: none
  cancelled,  \* generations whose cancel function was called
  ctxDone,    \* the hub's context, parent of every generation's, is cancelled
  unbind,     \* p.unbind # nil
  handler,    \* the source still holds the pipe's callback
  stopper,    \* where the running call of Stop is: "idle", "take", "call"
  stopDone,   \* history: a call of Stop has returned since the last Start
  seen,       \* seen[t]: frames of track t handed to the callback so far
  pc,         \* pc[t]: "idle", "called" (before the lock), "routing" (after it)
  ch,         \* ch[t]: the inFlight an emitter in "routing" read
  queue,      \* queue[g]: content of the inFlight of generation g
  writer,     \* writer[g]: "none", "top", "select", "writing", "exited"
  wchan,      \* wchan[g]: the inFlight that writer g read last
  hand,       \* hand[g]: the frame writer g received and has not written
  sent,       \* successful WriteFrame calls (p.written counts them)
  failed,     \* frames whose WriteFrame returned an error
  dropped,    \* frames p.dropped counted
  ignored,    \* frames routeFrame returned on because the pipe was not started
  overlap     \* history: a writer was started while an older one still ran

pipeVars == <<mu, started, gen, cancelled, ctxDone>>
bindVars == <<unbind, handler, stopper, stopDone>>
emitVars == <<seen, pc, ch>>
writeVars == <<writer, wchan, hand>>
fateVars == <<sent, failed, dropped, ignored>>
vars == <<pipeVars, bindVars, emitVars, queue, writeVars, fateVars, overlap>>

Gens == 1 .. MaxStarts
Frames == Tracks \X (1 .. MaxFrames)
Deliveries == [writer : Gens, track : Tracks, num : 1 .. MaxFrames]

TypeOK ==
  /\ mu \in {"free", "start"}
  /\ started \in BOOLEAN
  /\ gen \in 0 .. MaxStarts
  /\ cancelled \in SUBSET Gens
  /\ ctxDone \in BOOLEAN
  /\ unbind \in BOOLEAN
  /\ handler \in BOOLEAN
  /\ stopper \in {"idle", "take", "call"}
  /\ stopDone \in BOOLEAN
  /\ seen \in [Tracks -> 0 .. MaxFrames]
  /\ pc \in [Tracks -> {"idle", "called", "routing"}]
  /\ ch \in [Tracks -> 0 .. MaxStarts]
  /\ queue \in [Gens -> Seq(Frames)]
  /\ \A g \in Gens : Len(queue[g]) <= BufSize
  /\ writer \in [Gens -> {"none", "top", "select", "writing", "exited"}]
  /\ wchan \in [Gens -> Gens]
  /\ hand \in [Gens -> SUBSET Frames]
  /\ sent \in Seq(Deliveries)
  /\ failed \in SUBSET Frames
  /\ dropped \in SUBSET Frames
  /\ ignored \in SUBSET Frames
  /\ overlap \in BOOLEAN

\* The pipe as Bind leaves it: callback registered, never started.
Init ==
  /\ mu = "free" /\ started = FALSE /\ gen = 0
  /\ cancelled = {} /\ ctxDone = FALSE
  /\ unbind = TRUE /\ handler = TRUE /\ stopper = "idle" /\ stopDone = FALSE
  /\ seen = [t \in Tracks |-> 0]
  /\ pc = [t \in Tracks |-> "idle"]
  /\ ch = [t \in Tracks |-> 0]
  /\ queue = [g \in Gens |-> <<>>]
  /\ writer = [g \in Gens |-> "none"]
  /\ wchan = [g \in Gens |-> g]
  /\ hand = [g \in Gens |-> {}]
  /\ sent = <<>>
  /\ failed = {} /\ dropped = {} /\ ignored = {}
  /\ overlap = FALSE

\* Fault: the run's context is not derived from the hub's.
CancelledByStopOnly(g) == g \in cancelled

Cancelled(g) == ctxDone \/ g \in cancelled
Running(g) == writer[g] \in {"top", "select", "writing"}

Full(c) == Len(queue[c]) >= BufSize

-----------------------------------------------------------------------------
(* Start.  p.mu is held from the first step to the second, while the source  *)
(* is asked for its streams and the sink is configured; only the writers,    *)
(* that read p.inFlight without the lock, see the new generation meanwhile.  *)

\* Fault: Start is not idempotent.
StartBeginAgain ==
  /\ mu = "free" /\ gen < MaxStarts
  /\ mu' = "start"
  /\ started' = TRUE
  /\ gen' = gen + 1
  /\ stopDone' = FALSE
  /\ UNCHANGED <<cancelled, ctxDone, unbind, handler, stopper, emitVars, queue, writeVars, fateVars, overlap>>

StartBegin ==
  /\ mu = "free" /\ ~started /\ gen < MaxStarts
  /\ mu' = "start"
  /\ started' = TRUE
  /\ gen' = gen + 1
  /\ stopDone' = FALSE
  /\ UNCHANGED <<cancelled, ctxDone, unbind, handler, stopper, emitVars, queue, writeVars, fateVars, overlap>>

StartOK ==
  /\ mu = "start"
  /\ mu' = "free"
  /\ writer' = [writer EXCEPT ![gen] = "top"]
  /\ overlap' = (overlap \/ \E g \in Gens : Running(g))
  /\ UNCHANGED <<started, gen, cancelled, ctxDone, bindVars, emitVars, queue, wchan, hand, fateVars>>

\* Streams or Configure failed: started is rolled back, the rest stays.
StartFail ==
  /\ mu = "start"
  /\ mu' = "free"
  /\ started' = FALSE
  /\ UNCHANGED <<gen, cancelled, ctxDone, bindVars, emitVars, queue, writeVars, fateVars, overlap>>

-----------------------------------------------------------------------------
(* Stop: mark and cancel under the lock, then Unbind, which takes the        *)
(* closure under the lock and calls it after releasing it.                   *)

StopNoop ==
  /\ mu = "free" /\ stopper = "idle" /\ ~started
  /\ stopDone' = TRUE
  /\ UNCHANGED <<pipeVars, unbind, handler, stopper, emitVars, queue, writeVars, fateVars, overlap>>

\* Fault: Stop does not call the cancel function.
StopMarkNoCancel ==
  /\ mu = "free" /\ stopper = "idle" /\ started
  /\ started' = FALSE
  /\ stopper' = "take"
  /\ UNCHANGED <<mu, gen, cancelled, ctxDone, unbind, handler, stopDone, emitVars, queue, writeVars, fateVars, overlap>>

StopMark ==
  /\ mu = "free" /\ stopper = "idle" /\ started
  /\ started' = FALSE
  /\ cancelled' = cancelled \cup {gen}
  /\ stopper' = "take"
  /\ UNCHANGED <<mu, gen, ctxDone, unbind, handler, stopDone, emitVars, queue, writeVars, fateVars, overlap>>

\* Fault: Unbind forgets the closure without calling it.
UnbindTakeNoCall ==
  /\ mu = "free" /\ stopper = "take"
  /\ unbind' = FALSE
  /\ stopper' = "idle"
  /\ stopDone' = TRUE
  /\ UNCHANGED <<pipeVars, handler, emitVars, queue, writeVars, fateVars, overlap>>

UnbindTake ==
  /\ mu = "free" /\ stopper = "take"
  /\ unbind' = FALSE
  /\ stopper' = IF unbind THEN "call" ELSE "idle"
  /\ stopDone' = (stopDone \/ ~unbind)
  /\ UNCHANGED <<pipeVars, handler, emitVars, queue, writeVars, fateVars, overlap>>

UnbindCall ==
  /\ stopper = "call"
  /\ handler' = FALSE
  /\ stopper' = "idle"
  /\ stopDone' = TRUE
  /\ UNCHANGED <<pipeVars, unbind, emitVars, queue, writeVars, fateVars, overlap>>

\* MediaHub.Stop cancels the context every generation derives from.
CtxCancel ==
  /\ ~ctxDone
  /\ ctxDone' = TRUE
  /\ UNCHANGED <<mu, started, gen, cancelled, bindVars, emitVars, queue, writeVars, fateVars, overlap>>

-----------------------------------------------------------------------------
(* An emitter: the source copies its handler slice (Emit) and calls the      *)
(* callback after that, so a callback may run after its removal.             *)

Emit(t) ==
  /\ pc[t] = "idle" /\ handler /\ seen[t] < MaxFrames
  /\ seen' = [seen EXCEPT ![t] = @ + 1]
  /\ pc' = [pc EXCEPT ![t] = "called"]
  /\ UNCHANGED <<pipeVars, bindVars, ch, queue, writeVars, fateVars, overlap>>

RouteStarted(t) ==
  /\ pc[t] = "called" /\ mu = "free" /\ started
  /\ pc' = [pc EXCEPT ![t] = "routing"]
  /\ ch' = [ch EXCEPT ![t] = gen]
  /\ UNCHANGED <<pipeVars, bindVars, seen, queue, writeVars, fateVars, overlap>>

RouteIgnored(t) ==
  /\ pc[t] = "called" /\ mu = "free" /\ ~started
  /\ pc' = [pc EXCEPT ![t] = "idle"]
  /\ ignored' = ignored \cup {<<t, seen[t]>>}
  /\ UNCHANGED <<pipeVars, bindVars, seen, ch, queue, writeVars, sent, failed, dropped, overlap>>

Enqueue(t) ==
  /\ pc[t] = "routing" /\ ~Full(ch[t])
  /\ queue' = [queue EXCEPT ![ch[t]] = Append(@, <<t, seen[t]>>)]
  /\ pc' = [pc EXCEPT ![t] = "idle"]
  /\ UNCHANGED <<pipeVars, bindVars, seen, ch, writeVars, fateVars, overlap>>

\* Fault: the drop is not counted.
DropUncounted(t) ==
  /\ pc[t] = "routing" /\ Full(ch[t])
  /\ pc' = [pc EXCEPT ![t] = "idle"]
  /\ UNCHANGED <<pipeVars, bindVars, seen, ch, queue, writeVars, fateVars, overlap>>

\* Fault: a send without the default case waits for room instead of dropping.
DropNever(t) == FALSE /\ UNCHANGED vars

Drop(t) ==
  /\ pc[t] = "routing" /\ Full(ch[t])
  /\ dropped' = dropped \cup {<<t, seen[t]>>}
  /\ pc' = [pc EXCEPT ![t] = "idle"]
  /\ UNCHANGED <<pipeVars, bindVars, seen, ch, queue, writeVars, sent, failed, ignored, overlap>>

-----------------------------------------------------------------------------
(* sinkWriter.  The select evaluates p.inFlight without p.mu: it may see any *)
(* channel assigned since the one it read last.  When both cases are ready   *)
(* the select takes either.                                                  *)

ReadChan(g) ==
  /\ writer[g] = "top"
  /\ \E c \in wchan[g] .. gen : wchan' = [wchan EXCEPT ![g] = c]
  /\ writer' = [writer EXCEPT ![g] = "select"]
  /\ UNCHANGED <<pipeVars, bindVars, emitVars, queue, hand, fateVars, overlap>>

\* Fault: the frame is looked at but left in the queue.
ReceivePeek(g) ==
  /\ writer[g] = "select" /\ queue[wchan[g]] # <<>>
  /\ hand' = [hand EXCEPT ![g] = {Head(queue[wchan[g]])}]
  /\ writer' = [writer EXCEPT ![g] = "writing"]
  /\ UNCHANGED <<pipeVars, bindVars, emitVars, queue, wchan, fateVars, overlap>>

\* Fault: the newest frame is served first.
ReceiveNewest(g) ==
  /\ writer[g] = "select" /\ queue[wchan[g]] # <<>>
  /\ LET q == queue[wchan[g]]
     IN  /\ hand' = [hand EXCEPT ![g] = {q[Len(q)]}]
         /\ queue' = [queue EXCEPT ![wchan[g]] = SubSeq(q, 1, Len(q) - 1)]
  /\ writer' = [writer EXCEPT ![g] = "writing"]
  /\ UNCHANGED <<pipeVars, bindVars, emitVars, wchan, fateVars, overlap>>

Receive(g) ==
  /\ writer[g] = "select" /\ queue[wchan[g]] # <<>>
  /\ hand' = [hand EXCEPT ![g] = {Head(queue[wchan[g]])}]
  /\ queue' = [queue EXCEPT ![wchan[g]] = Tail(@)]
  /\ writer' = [writer EXCEPT ![g] = "writing"]
  /\ UNCHANGED <<pipeVars, bindVars, emitVars, wchan, fateVars, overlap>>

WriterExit(g) ==
  /\ writer[g] = "select" /\ Cancelled(g)
  /\ writer' = [writer EXCEPT ![g] = "exited"]
  /\ UNCHANGED <<pipeVars, bindVars, emitVars, queue, wchan, hand, fateVars, overlap>>

WriteOK(g) ==
  /\ writer[g] = "writing"
  /\ \E f \in hand[g] : sent' = Append(sent, [writer |-> g, track |-> f[1], num |-> f[2]])
  /\ hand' = [hand EXCEPT ![g] = {}]
  /\ writer' = [writer EXCEPT ![g] = "top"]
  /\ UNCHANGED <<pipeVars, bindVars, emitVars, queue, wchan, failed, dropped, ignored, overlap>>

\* Fault: a write error ends the writer.
WriteFailExits(g) ==
  /\ writer[g] = "writing"
  /\ failed' = failed \cup hand[g]
  /\ hand' = [hand EXCEPT ![g] = {}]
  /\ writer' = [writer EXCEPT ![g] = "exited"]
  /\ UNCHANGED <<pipeVars, bindVars, emitVars, queue, wchan, sent, dropped, ignored, overlap>>

WriteFail(g) ==
  /\ writer[g] = "writing"
  /\ failed' = failed \cup hand[g]
  /\ hand' = [hand EXCEPT ![g] = {}]
  /\ writer' = [writer EXCEPT ![g] = "top"]
  /\ UNCHANGED <<pipeVars, bindVars, emitVars, queue, wchan, sent, dropped, ignored, overlap>>

-----------------------------------------------------------------------------
StartStep == StartBegin \/ StartOK \/ StartFail
StopStep == StopNoop \/ StopMark \/ UnbindTake \/ UnbindCall
EmitterStep(t) ==
  \/ Emit(t) \/ RouteStarted(t) \/ RouteIgnored(t) \/ Enqueue(t) \/ Drop(t)
WriterStep(g) ==
  \/ ReadChan(g) \/ Receive(g) \/ WriterExit(g) \/ WriteOK(g) \/ WriteFail(g)

Next == \/ StartStep
        \/ StopStep
        \/ CtxCancel
        \/ \E t \in Tracks : EmitterStep(t)
        \/ \E g \in Gens : WriterStep(g)

Spec == Init /\ [][Next]_vars

(* Goroutines that can run do run, and calls into the source and the sink    *)
(* return.  The strong fairness is that of select: a context that is done    *)
(* is not passed over for ever.  Nobody is obliged to call Start or Stop,    *)
(* and no source to emit.                                                    *)
Fairness ==
  /\ WF_vars(StartOK \/ StartFail)
  /\ WF_vars(UnbindTake) /\ WF_vars(UnbindCall)
  /\ \A t \in Tracks : WF_vars(RouteStarted(t) \/ RouteIgnored(t) \/ Enqueue(t) \/ Drop(t))
  /\ \A g \in Gens : /\ WF_vars(WriterStep(g))
                     /\ SF_vars(WriterExit(g))

FairSpec == Spec /\ Fairness

-----------------------------------------------------------------------------
(* Properties                                                                *)

(* A writer that nobody told to stop is the writer of the current generation  *)
(* of a started pipe, so p.cancel reaches it: neither a racing Start, nor a   *)
(* failed one, nor a restart leaves a sinkWriter that no Stop can end.        *)
LiveWriterIsCurrent ==
  \A g \in Gens : Running(g) /\ g \notin cancelled => started /\ g = gen

(* Once a Stop of a started pipe has returned, the source no longer holds the *)
(* pipe's callback, whatever Starts and emissions raced with it.              *)
UnboundAfterStop == stopper = "idle" /\ cancelled # {} => ~handler

(* Every frame the source handed over is in exactly one place: in its         *)
(* emitter's hands, ignored, counted as dropped, queued, in a writer's hand,  *)
(* failed, or written.  No frame disappears uncounted, none is duplicated.    *)
QueueSlots(f) == {p \in Gens \X (1 .. BufSize) :
                    p[2] \in DOMAIN queue[p[1]] /\ queue[p[1]][p[2]] = f}
Holders(f) == {g \in Gens : f \in hand[g]}
Writes(f) == {i \in DOMAIN sent : <<sent[i].track, sent[i].num>> = f}
InEmitter(f) == pc[f[1]] # "idle" /\ f[2] = seen[f[1]]

Conservation ==
  \A t \in Tracks : \A n \in 1 .. seen[t] :
    LET f == <<t, n>>
        one(b) == IF b THEN 1 ELSE 0
    IN  one(InEmitter(f)) + one(f \in ignored) + one(f \in dropped) + one(f \in failed)
          + Cardinality(QueueSlots(f)) + Cardinality(Holders(f)) + Cardinality(Writes(f)) = 1

(* The sink sees the frames of a track in emission order unless a restart     *)
(* overlapped the writer of the previous run (then two goroutines call        *)
(* WriteFrame and either may be late).                                        *)
SinkOrder ==
  ~overlap => \A i, j \in DOMAIN sent :
                 i < j /\ sent[i].track = sent[j].track => sent[i].num < sent[j].num

Delivery == INSTANCE FrameDelivery WITH Sessions <- Gens, offered <- seen, out <- sent

(* The pipe delivers what FrameDelivery promises: at most once, nothing       *)
(* invented, in order within a writer session.                                *)
DeliverySpec == Delivery!Spec

(* The pipe as MediaHub sees it: Start takes effect when it succeeds, Stop    *)
(* when it has cancelled the writer.                                          *)
Serving == started /\ mu = "free"
Life == CASE cancelled = {} /\ Serving   -> "running"
          [] cancelled = {} /\ ~Serving  -> "bound"
          [] cancelled # {} /\ Serving   -> "revived"
          [] cancelled # {} /\ ~Serving  -> "stopped"

Lifecycle == INSTANCE PipeLifecycle WITH life <- Life, held <- handler

(* The pipe implements PipeLifecycle: in particular a failed Start leaves it  *)
(* bound, and only a Stop of a started pipe releases the callback.            *)
LifecycleSpec == Lifecycle!Spec

(* A writer whose context is done ends, even if frames keep its queue full.   *)
WriterEnds ==
  \A g \in Gens : (Running(g) /\ (ctxDone \/ g \in cancelled)) ~> writer[g] = "exited"

(* "The input side never blocks" (design.md 12.7): an emitter that entered    *)
(* the pipe leaves it, whatever the sink, the writer and Start are doing.     *)
EmitterNeverBlocked == \A t \in Tracks : (pc[t] # "idle") ~> (pc[t] = "idle")

(* A frame accepted into the queue is taken from it unless its run is ended.  *)
QueuedFrameServed ==
  \A g \in Gens : \A f \in Frames :
    (\E i \in DOMAIN queue[g] : queue[g][i] = f)
       ~> (Cancelled(g) \/ ~ \E i \in DOMAIN queue[g] : queue[g][i] = f)

(* What pipe.go says of AddFrameHandler's remove closure, "the pipe unbinds   *)
(* when it is stopped": after a Start and a Stop the source does not hold the *)
(* callback.  Refuted: when that Start failed, Stop returns before Unbind.    *)
StopUnbinds == gen > 0 /\ stopDone /\ stopper = "idle" => ~handler
=============================================================================
