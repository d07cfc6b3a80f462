------------------------------- MODULE MediaHub -------------------------------
(***************************************************************************)
(* media.MediaHub (src/server/internal/media/media_hub.go): the registries   *)
(* of sources, sinks and pipes, used by concurrent callers.                  *)
(*                                                                           *)
(* Every operation runs under h.mu and is one step, except StartInput,       *)
(* StartOutput and StartPipe: they look the object up under the lock and     *)
(* start it after releasing it, so they are two steps, Find... and Run...,   *)
(* with the object held by the caller in between.                            *)
(*                                                                           *)
(* Objects are numbered in the order they are allocated and never reused; 0  *)
(* is "no object".  A pipe object goes through the states that PipeLifecycle *)
(* gives, plus "stuck": marked started, with no writer, after a panic of     *)
(* sink.Configure.                                                           *)
(***************************************************************************)
EXTENDS Naturals, FiniteSets

CONSTANTS Inputs, Outputs,
          Fragile,   \* outputs whose Configure dereferences what Start creates (rtsp)
          Callers,   \* goroutines that may be inside the hub
          Faults,    \* which calls may fail: a subset of {"create", "src", "snk", "pipe"}
          MaxObjs    \* bound: objects of each kind allocated in one process

ASSUME HubAssumption == /\ Fragile \subseteq Outputs
                        /\ MaxObjs \in Nat

Objs == 1 .. MaxObjs
Keys == Inputs \X Outputs
PipeStates == {"new", "bound", "running", "stuck", "stopped", "revived"}
Kinds == {"none", "src", "snk", "pipe"}

VARIABLES
  sources,     \* h.sources
  sinks,       \* h.sinks
  pipes,       \* h.pipes, by <<input, output>>
  made,        \* made[k]: how many objects of kind k this process allocated
  srcOn,       \* sources started and not stopped
  snkOn,       \* sinks started and not stopped
  fragile,     \* sink objects made for a Fragile output
  srcOf,       \* srcOf[p]: the source pipe p is bound to
  snkOf,       \* snkOf[p]: the sink pipe p is bound to
  pstate,      \* pstate[p]
  held         \* held[c]: what caller c has looked up and not used yet

regVars == <<sources, sinks, pipes>>
objVars == <<made, srcOn, snkOn, fragile, srcOf, snkOf, pstate>>
hubVars == <<regVars, objVars, held>>

Nothing == <<"none", 0>>

HubTypeOK ==
  /\ sources \in [Inputs -> 0 .. MaxObjs]
  /\ sinks \in [Outputs -> 0 .. MaxObjs]
  /\ pipes \in [Keys -> 0 .. MaxObjs]
  /\ made \in [{"src", "snk", "pipe"} -> 0 .. MaxObjs]
  /\ srcOn \in SUBSET Objs
  /\ snkOn \in SUBSET Objs
  /\ fragile \in SUBSET Objs
  /\ srcOf \in [Objs -> 0 .. MaxObjs]
  /\ snkOf \in [Objs -> 0 .. MaxObjs]
  /\ pstate \in [Objs -> PipeStates]
  /\ held \in [Callers -> Kinds \X (0 .. MaxObjs)]
  /\ \A p \in Objs : pstate[p] = "new" <=> p > made["pipe"]

NoInput == [i \in Inputs |-> 0]
NoOutput == [o \in Outputs |-> 0]
NoPipe == [k \in Keys |-> 0]
NoneMade == [k \in {"src", "snk", "pipe"} |-> 0]
Unbound == [p \in Objs |-> 0]
AllNew == [p \in Objs |-> "new"]
NoneHeld == [c \in Callers |-> Nothing]

\* NewMediaHub.
HubInit ==
  /\ sources = NoInput /\ sinks = NoOutput /\ pipes = NoPipe
  /\ made = NoneMade
  /\ srcOn = {} /\ snkOn = {} /\ fragile = {}
  /\ srcOf = Unbound /\ snkOf = Unbound /\ pstate = AllNew
  /\ held = NoneHeld

-----------------------------------------------------------------------------
(* CreateInput, CreateOutput: return the registered object or make one.      *)

CreateInput(i) ==
  /\ made["src"] < MaxObjs
  /\ sources[i] = 0
  /\ made' = [made EXCEPT !["src"] = @ + 1]
  /\ sources' = [sources EXCEPT ![i] = made["src"] + 1]
  /\ UNCHANGED <<sinks, pipes, srcOn, snkOn, fragile, srcOf, snkOf, pstate>>

CreateOutput(o) ==
  /\ made["snk"] < MaxObjs
  /\ sinks[o] = 0
  /\ made' = [made EXCEPT !["snk"] = @ + 1]
  /\ sinks' = [sinks EXCEPT ![o] = made["snk"] + 1]
  /\ fragile' = IF o \in Fragile THEN fragile \cup {made["snk"] + 1} ELSE fragile
  /\ UNCHANGED <<sources, pipes, srcOn, snkOn, srcOf, snkOf, pstate>>

InputFound(i) == sources[i] # 0 /\ UNCHANGED <<regVars, objVars>>
OutputFound(o) == sinks[o] # 0 /\ UNCHANGED <<regVars, objVars>>
CreateFails == "create" \in Faults /\ UNCHANGED <<regVars, objVars>>

-----------------------------------------------------------------------------
(* Connect: bind a new pipe between the registered source and sink.          *)

CanConnect(i, o) == sources[i] # 0 /\ sinks[o] # 0

Connect(i, o) ==
  /\ CanConnect(i, o)
  /\ pipes[<<i, o>>] = 0
  /\ made["pipe"] < MaxObjs
  /\ LET p == made["pipe"] + 1
     IN  /\ made' = [made EXCEPT !["pipe"] = p]
         /\ pipes' = [pipes EXCEPT ![<<i, o>>] = p]
         /\ srcOf' = [srcOf EXCEPT ![p] = sources[i]]
         /\ snkOf' = [snkOf EXCEPT ![p] = sinks[o]]
         /\ pstate' = [pstate EXCEPT ![p] = "bound"]
  /\ UNCHANGED <<sources, sinks, srcOn, snkOn, fragile>>

AlreadyConnected(i, o) ==
  CanConnect(i, o) /\ pipes[<<i, o>>] # 0 /\ UNCHANGED <<regVars, objVars>>

-----------------------------------------------------------------------------
(* pipe.Stop: nothing on a pipe that is not started, see FramePipe.          *)
AfterStop(s) == IF s \in {"running", "stuck", "revived"} THEN "stopped" ELSE s

\* Stop the pipes registered under K and forget them.
DropPipes(K) ==
  /\ pstate' = [p \in Objs |-> IF \E k \in K : pipes[k] = p THEN AfterStop(pstate[p])
                               ELSE pstate[p]]
  /\ pipes' = [k \in Keys |-> IF k \in K THEN 0 ELSE pipes[k]]

Disconnect(i, o) ==
  /\ DropPipes({<<i, o>>})
  /\ UNCHANGED <<sources, sinks, made, srcOn, snkOn, fragile, srcOf, snkOf>>

KeysOfInput(i) == {i} \X Outputs
KeysOfOutput(o) == Inputs \X {o}

\* Fault: the input goes, its pipes stay.
RemoveInputOnly(i) ==
  /\ sources[i] # 0
  /\ srcOn' = srcOn \ {sources[i]}
  /\ sources' = [sources EXCEPT ![i] = 0]
  /\ UNCHANGED <<sinks, pipes, pstate, made, snkOn, fragile, srcOf, snkOf>>

RemoveInput(i) ==
  /\ sources[i] # 0
  /\ srcOn' = srcOn \ {sources[i]}
  /\ DropPipes(KeysOfInput(i))
  /\ sources' = [sources EXCEPT ![i] = 0]
  /\ UNCHANGED <<sinks, made, snkOn, fragile, srcOf, snkOf>>

RemoveOutput(o) ==
  /\ sinks[o] # 0
  /\ snkOn' = snkOn \ {sinks[o]}
  /\ DropPipes(KeysOfOutput(o))
  /\ sinks' = [sinks EXCEPT ![o] = 0]
  /\ UNCHANGED <<sources, made, srcOn, fragile, srcOf, snkOf>>

InputMissing(i) == sources[i] = 0 /\ UNCHANGED <<regVars, objVars>>
OutputMissing(o) == sinks[o] = 0 /\ UNCHANGED <<regVars, objVars>>

\* MediaHub.Stop: everything registered is stopped and forgotten.
StopAll ==
  /\ srcOn' = srcOn \ {sources[i] : i \in Inputs}
  /\ snkOn' = snkOn \ {sinks[o] : o \in Outputs}
  /\ DropPipes(Keys)
  /\ sources' = NoInput
  /\ sinks' = NoOutput
  /\ UNCHANGED <<made, fragile, srcOf, snkOf>>

-----------------------------------------------------------------------------
(* The look-up halves of StartInput, StartOutput and StartPipe (and the      *)
(* object that startInputOnly gets from CreateInput), then the start.        *)

Hold(c, kind, x) == held' = [held EXCEPT ![c] = <<kind, x>>]
Release(c) == held' = [held EXCEPT ![c] = Nothing]

FindSource(c, i) == sources[i] # 0 /\ Hold(c, "src", sources[i]) /\ UNCHANGED <<regVars, objVars>>
FindSink(c, o) == sinks[o] # 0 /\ Hold(c, "snk", sinks[o]) /\ UNCHANGED <<regVars, objVars>>
FindPipe(c, i, o) ==
  pipes[<<i, o>>] # 0 /\ Hold(c, "pipe", pipes[<<i, o>>]) /\ UNCHANGED <<regVars, objVars>>

\* CreateInput and CreateOutput for a caller that starts the object returned.
OpenInput(c, i) == (CreateInput(i) \/ InputFound(i)) /\ Hold(c, "src", sources'[i])
OpenOutput(c, o) == (CreateOutput(o) \/ OutputFound(o)) /\ Hold(c, "snk", sinks'[o])

RunSource(c) ==
  /\ held[c][1] = "src"
  /\ srcOn' = srcOn \cup {held[c][2]}
  /\ Release(c)
  /\ UNCHANGED <<regVars, made, snkOn, fragile, srcOf, snkOf, pstate>>

RunSink(c) ==
  /\ held[c][1] = "snk"
  /\ snkOn' = snkOn \cup {held[c][2]}
  /\ Release(c)
  /\ UNCHANGED <<regVars, made, srcOn, fragile, srcOf, snkOf, pstate>>

RunSourceFails(c) ==
  /\ held[c][1] = "src" /\ held[c][2] \notin srcOn /\ "src" \in Faults
  /\ Release(c) /\ UNCHANGED <<regVars, objVars>>

RunSinkFails(c) ==
  /\ held[c][1] = "snk" /\ held[c][2] \notin snkOn /\ "snk" \in Faults
  /\ Release(c) /\ UNCHANGED <<regVars, objVars>>

\* The first pipe.Start of a bound pipe, or a Start after its Stop.
NotStarted(p) == pstate[p] \in {"bound", "stopped"}

\* Configure dereferences a server that only sink.Start creates.
WillPanic(p) == snkOf[p] \in fragile /\ snkOf[p] \notin snkOn

\* Streams or Configure may report an error: an idle source may have no
\* streams, an idle sink may refuse, and the codecs may not fit.
MayFail(p) == "pipe" \in Faults \/ srcOf[p] \notin srcOn \/ snkOf[p] \notin snkOn

\* pipe.Start on a started pipe returns nil at once.
RunPipeAgain(c) ==
  /\ held[c][1] = "pipe" /\ ~NotStarted(held[c][2])
  /\ Release(c) /\ UNCHANGED <<regVars, objVars>>

RunPipe(c) ==
  LET p == held[c][2]
  IN  /\ held[c][1] = "pipe" /\ NotStarted(p) /\ ~WillPanic(p)
      /\ pstate' = [pstate EXCEPT ![p] = IF @ = "bound" THEN "running" ELSE "revived"]
      /\ Release(c)
      /\ UNCHANGED <<regVars, made, srcOn, snkOn, fragile, srcOf, snkOf>>

RunPipeFails(c) ==
  /\ held[c][1] = "pipe" /\ NotStarted(held[c][2]) /\ MayFail(held[c][2])
  /\ Release(c) /\ UNCHANGED <<regVars, objVars>>

\* The panic leaves p.started set and no writer.
RunPipePanics(c) ==
  LET p == held[c][2]
  IN  /\ held[c][1] = "pipe" /\ NotStarted(p) /\ WillPanic(p)
      /\ pstate' = [pstate EXCEPT ![p] = "stuck"]
      /\ Release(c)
      /\ UNCHANGED <<regVars, made, srcOn, snkOn, fragile, srcOf, snkOf>>

-----------------------------------------------------------------------------
(* The hub on its own: callers that use it in any order.  The process may    *)
(* end at any time and start again with an empty hub.                        *)

LockedOp ==
  \/ \E i \in Inputs : CreateInput(i) \/ RemoveInput(i)
  \/ \E o \in Outputs : CreateOutput(o) \/ RemoveOutput(o)
  \/ \E i \in Inputs, o \in Outputs : Connect(i, o) \/ Disconnect(i, o)
  \/ StopAll

OpenOp(c) == (\E i \in Inputs : OpenInput(c, i)) \/ (\E o \in Outputs : OpenOutput(c, o))

FindOp(c) ==
  \/ \E i \in Inputs : FindSource(c, i)
  \/ \E o \in Outputs : FindSink(c, o)
  \/ \E i \in Inputs, o \in Outputs : FindPipe(c, i, o)

RunOp(c) ==
  \/ RunSource(c) \/ RunSourceFails(c)
  \/ RunSink(c) \/ RunSinkFails(c)
  \/ RunPipe(c) \/ RunPipeAgain(c) \/ RunPipeFails(c) \/ RunPipePanics(c)

\* A caller that gives up with an object in hand: its handler returned early.
Forget(c) == Release(c) /\ UNCHANGED <<regVars, objVars>>

Restart ==
  /\ sources' = NoInput /\ sinks' = NoOutput /\ pipes' = NoPipe
  /\ made' = NoneMade
  /\ srcOn' = {} /\ snkOn' = {} /\ fragile' = {}
  /\ srcOf' = Unbound /\ snkOf' = Unbound /\ pstate' = AllNew
  /\ held' = NoneHeld

HubNext == \/ LockedOp /\ UNCHANGED held
           \/ \E c \in Callers : OpenOp(c) \/ FindOp(c) \/ RunOp(c) \/ Forget(c)
           \/ Restart

HubSpec == HubInit /\ [][HubNext]_hubVars

-----------------------------------------------------------------------------
(* Properties                                                                *)

Registered(p) == \E k \in Keys : pipes[k] = p

(* The registries agree: a registered pipe is bound to the very source and    *)
(* sink registered under its key and was never stopped, and no object is      *)
(* registered twice.  Otherwise frames would go to a sink that nobody can     *)
(* reach, or stop silently.                                                   *)
PipesBound ==
  \A i \in Inputs, o \in Outputs :
    LET p == pipes[<<i, o>>]
    IN  p # 0 => /\ sources[i] # 0 /\ srcOf[p] = sources[i]
                 /\ sinks[o] # 0 /\ snkOf[p] = sinks[o]
                 /\ pstate[p] \in {"bound", "running", "stuck"}
NoneTwice ==
  /\ \A i, j \in Inputs : sources[i] = sources[j] /\ sources[i] # 0 => i = j
  /\ \A o, q \in Outputs : sinks[o] = sinks[q] /\ sinks[o] # 0 => o = q
  /\ \A k, l \in Keys : pipes[k] = pipes[l] /\ pipes[k] # 0 => k = l

HubConsistent == PipesBound /\ NoneTwice

(* A pipe that carries frames is registered, so Disconnect can reach it.      *)
(* Refuted for concurrent callers: StartPipe starts what it looked up before  *)
(* a Disconnect.                                                              *)
NoZombiePipe == \A p \in Objs : pstate[p] = "running" => Registered(p)

(* A running source is registered, so RemoveInput can stop it.  Refuted for   *)
(* concurrent callers in the same way.                                        *)
NoZombieSource == \A s \in srcOn : \E i \in Inputs : sources[i] = s
=============================================================================
