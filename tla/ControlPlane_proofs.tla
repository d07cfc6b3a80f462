-------------------------- MODULE ControlPlane_proofs --------------------------
(***************************************************************************)
(* Proofs about MediaHub and ControlPlane, for any sets of inputs, outputs,  *)
(* pipes, clients and requests, any set of failing calls and any bounds.     *)
(*                                                                           *)
(* First the hub on its own; then that the service layer is one of its       *)
(* users: every step of a request, of Restore or of the process is an        *)
(* operation of the hub or leaves the hub alone, so the registries agree     *)
(* also below the services. Last, that Restore makes the rows and the engine *)
(* agree again after every start of the process.                             *)
(***************************************************************************)
EXTENDS ControlPlane, SequenceTheorems, WellFoundedInduction, TLAPS

(* What is registered was made by this process, so a new object is never one  *)
(* that is registered already.                                                *)
RegInv ==
  /\ \A i \in Inputs : sources[i] <= made["src"]
  /\ \A o \in Outputs : sinks[o] <= made["snk"]
  /\ \A k \in Keys : pipes[k] <= made["pipe"]

(* What a caller holds is an object.                                          *)
HeldInv == \A c \in Callers : held[c][1] # "none" => held[c][2] \in Objs

HubInv == HubTypeOK /\ RegInv /\ HeldInv /\ HubConsistent

LEMMA InitHub == HubInit => HubInv
  BY HubAssumption DEF HubInit, HubInv, HubTypeOK, RegInv, HeldInv, HubConsistent, PipesBound,
     NoneTwice, NoInput, NoOutput, NoPipe, NoneMade, Unbound, AllNew, NoneHeld, Nothing, Kinds, Keys, Objs,
     PipeStates

LEMMA RestartHub == Restart => HubInv'
  BY HubAssumption DEF Restart, HubInv, HubTypeOK, RegInv, HeldInv, HubConsistent, PipesBound,
     NoneTwice, NoInput, NoOutput, NoPipe, NoneMade, Unbound, AllNew, NoneHeld, Nothing, Kinds, Keys, Objs,
     PipeStates

(* The objects of a step that leaves the registries alone and neither moves a *)
(* pipe's ends nor takes a registered pipe out of service.                    *)
LEMMA QuietStep ==
  ASSUME HubInv, UNCHANGED <<regVars, made, fragile, srcOf, snkOf>>,
         srcOn' \in SUBSET Objs, snkOn' \in SUBSET Objs,
         held' \in [Callers -> Kinds \X (0 .. MaxObjs)], HeldInv',
         pstate' \in [Objs -> PipeStates],
         \A p \in Objs : pstate[p] = "new" <=> pstate'[p] = "new",
         \A p \in Objs : pstate[p] \in {"bound", "running", "stuck"}
                           => pstate'[p] \in {"bound", "running", "stuck"}
  PROVE  HubInv'
<1> USE DEF HubInv, regVars
<1>1. HubTypeOK'
  BY DEF HubTypeOK
<1>2. RegInv'
  BY DEF RegInv
<1>3. NoneTwice'
  BY DEF HubConsistent, NoneTwice
<1>4. PipesBound'
  <2> SUFFICES ASSUME NEW i \in Inputs, NEW o \in Outputs, pipes[<<i, o>>] # 0
               PROVE  LET p == pipes[<<i, o>>]
                      IN  /\ sources[i] # 0 /\ srcOf[p] = sources[i]
                          /\ sinks[o] # 0 /\ snkOf[p] = sinks[o]
                          /\ pstate'[p] \in {"bound", "running", "stuck"}
    BY DEF PipesBound
  <2>1. pipes[<<i, o>>] \in Objs
    BY DEF HubTypeOK, Keys, Objs
  <2> QED
    BY <2>1 DEF HubConsistent, PipesBound
<1> QED
  BY <1>1, <1>2, <1>3, <1>4 DEF HubConsistent

-----------------------------------------------------------------------------
(* The operations under the lock.  Each of them leaves held alone.           *)

LEMMA CreateInputStep ==
  ASSUME HubInv, NEW i \in Inputs, CreateInput(i),
         held' \in [Callers -> Kinds \X (0 .. MaxObjs)], HeldInv'
  PROVE  HubInv'
<1> USE DEF HubInv, CreateInput
<1> DEFINE s == made["src"] + 1
<1>1. s \in Objs /\ s # 0
  BY HubAssumption DEF HubTypeOK, Objs
<1>2. HubTypeOK'
  <2>1. made' \in [{"src", "snk", "pipe"} -> 0 .. MaxObjs] /\ made'["pipe"] = made["pipe"]
    BY <1>1 DEF HubTypeOK, Objs
  <2>2. sources' \in [Inputs -> 0 .. MaxObjs]
    BY <1>1 DEF HubTypeOK, Objs
  <2> QED
    BY <1>1, <2>1, <2>2 DEF HubTypeOK
<1>3. RegInv'
  BY HubAssumption DEF HubTypeOK, RegInv, Objs
<1>4. \A j \in Inputs : sources[j] # s
  BY HubAssumption DEF HubTypeOK, RegInv
<1>5. PipesBound'
  BY <1>1 DEF HubConsistent, PipesBound, HubTypeOK
<1>6. NoneTwice'
  BY <1>1, <1>4 DEF HubConsistent, NoneTwice, HubTypeOK
<1> QED
  BY <1>2, <1>3, <1>5, <1>6 DEF HubConsistent

LEMMA CreateOutputStep ==
  ASSUME HubInv, NEW o \in Outputs, CreateOutput(o),
         held' \in [Callers -> Kinds \X (0 .. MaxObjs)], HeldInv'
  PROVE  HubInv'
<1> USE DEF HubInv, CreateOutput
<1> DEFINE s == made["snk"] + 1
<1>1. s \in Objs /\ s # 0
  BY HubAssumption DEF HubTypeOK, Objs
<1>2. HubTypeOK'
  <2>1. made' \in [{"src", "snk", "pipe"} -> 0 .. MaxObjs] /\ made'["pipe"] = made["pipe"]
    BY <1>1 DEF HubTypeOK, Objs
  <2>2. sinks' \in [Outputs -> 0 .. MaxObjs]
    BY <1>1 DEF HubTypeOK, Objs
  <2>3. fragile' \in SUBSET Objs
    BY <1>1 DEF HubTypeOK
  <2> QED
    BY <1>1, <2>1, <2>2, <2>3 DEF HubTypeOK
<1>3. RegInv'
  BY HubAssumption DEF HubTypeOK, RegInv, Objs
<1>4. \A q \in Outputs : sinks[q] # s
  BY HubAssumption DEF HubTypeOK, RegInv
<1>5. PipesBound'
  BY <1>1 DEF HubConsistent, PipesBound, HubTypeOK
<1>6. NoneTwice'
  BY <1>1, <1>4 DEF HubConsistent, NoneTwice, HubTypeOK
<1> QED
  BY <1>2, <1>3, <1>5, <1>6 DEF HubConsistent

LEMMA ConnectStep ==
  ASSUME HubInv, NEW i \in Inputs, NEW o \in Outputs, Connect(i, o), UNCHANGED held
  PROVE  HubInv'
<1> USE DEF HubInv, Connect
<1> DEFINE p == made["pipe"] + 1
<1>1. p \in Objs /\ p # 0 /\ <<i, o>> \in Keys
  BY HubAssumption DEF HubTypeOK, Objs, Keys
<1>2. HubTypeOK'
  <2>1. made' \in [{"src", "snk", "pipe"} -> 0 .. MaxObjs] /\ made'["pipe"] = p
    BY <1>1 DEF HubTypeOK, Objs
  <2>2. pstate' \in [Objs -> PipeStates] /\ pstate' = [pstate EXCEPT ![p] = "bound"]
    BY DEF PipeStates, HubTypeOK
  <2>3. srcOf' \in [Objs -> 0 .. MaxObjs] /\ snkOf' \in [Objs -> 0 .. MaxObjs]
    BY DEF HubTypeOK
  <2>4. pipes' \in [Keys -> 0 .. MaxObjs]
    BY <1>1 DEF HubTypeOK, Objs
  <2>5. ASSUME NEW q \in Objs PROVE pstate'[q] = "new" <=> q > p
    <3>1. pstate[q] = "new" <=> q > made["pipe"]
      BY DEF HubTypeOK
    <3>2. pstate'[q] = IF q = p THEN "bound" ELSE pstate[q]
      BY <2>2 DEF HubTypeOK
    <3>3. made["pipe"] \in Nat /\ q \in Nat
      BY HubAssumption DEF Objs, HubTypeOK
    <3> QED
      BY <3>1, <3>2, <3>3
  <2> QED
    BY <2>1, <2>2, <2>3, <2>4, <2>5 DEF HubTypeOK
<1>3. RegInv'
  BY <1>1, HubAssumption DEF HubTypeOK, RegInv, Objs
<1>4. \A k \in Keys : pipes[k] # p
  BY HubAssumption DEF HubTypeOK, RegInv
<1>5. PipesBound'
  <2> SUFFICES ASSUME NEW j \in Inputs, NEW q \in Outputs, pipes'[<<j, q>>] # 0
               PROVE  LET e == pipes'[<<j, q>>]
                      IN  /\ sources[j] # 0 /\ srcOf'[e] = sources[j]
                          /\ sinks[q] # 0 /\ snkOf'[e] = sinks[q]
                          /\ pstate'[e] \in {"bound", "running", "stuck"}
    BY DEF PipesBound
  <2>1. CASE <<j, q>> = <<i, o>>
    BY <1>1, <2>1 DEF CanConnect, HubTypeOK
  <2>2. CASE <<j, q>> # <<i, o>>
    <3>1. <<j, q>> \in Keys /\ pipes'[<<j, q>>] = pipes[<<j, q>>]
      BY <1>1, <2>2 DEF HubTypeOK, Keys
    <3>2. pipes[<<j, q>>] \in Objs /\ pipes[<<j, q>>] # p
      BY <1>4, <3>1, HubAssumption DEF HubTypeOK, Objs
    <3> QED
      BY <1>1, <3>1, <3>2 DEF HubConsistent, PipesBound, HubTypeOK
  <2> QED
    BY <2>1, <2>2
<1>6. NoneTwice'
  BY <1>1, <1>4 DEF HubConsistent, NoneTwice, HubTypeOK
<1>7. HeldInv'
  BY DEF HeldInv
<1> QED
  BY <1>2, <1>3, <1>5, <1>6, <1>7 DEF HubConsistent
(* Disconnect, RemoveInput, RemoveOutput and StopAll: the pipes under the     *)
(* keys K are stopped and forgotten; inputs and outputs are forgotten only    *)
(* together with all their keys.                                              *)
LEMMA DropStep ==
  ASSUME HubInv, NEW K \in SUBSET Keys, DropPipes(K),
         UNCHANGED <<made, fragile, srcOf, snkOf, held>>,
         srcOn' \in SUBSET Objs, snkOn' \in SUBSET Objs,
         sources' \in [Inputs -> 0 .. MaxObjs], sinks' \in [Outputs -> 0 .. MaxObjs],
         \A i \in Inputs : \/ sources'[i] = sources[i]
                           \/ sources'[i] = 0 /\ \A o \in Outputs : <<i, o>> \in K,
         \A o \in Outputs : \/ sinks'[o] = sinks[o]
                            \/ sinks'[o] = 0 /\ \A i \in Inputs : <<i, o>> \in K
  PROVE  HubInv'
<1> USE DEF HubInv
<1>1. pipes' \in [Keys -> 0 .. MaxObjs] /\ \A k \in Keys : pipes'[k] = IF k \in K THEN 0 ELSE pipes[k]
  BY HubAssumption DEF HubTypeOK, DropPipes
<1>2. ASSUME NEW p \in Objs
      PROVE  pstate'[p] \in PipeStates /\ (pstate'[p] = "new" <=> pstate[p] = "new")
  BY DEF HubTypeOK, DropPipes, AfterStop, PipeStates
<1>3. pstate' \in [Objs -> PipeStates]
  BY <1>2 DEF DropPipes
<1>4. HubTypeOK'
  BY <1>1, <1>2, <1>3 DEF HubTypeOK
<1>5. RegInv'
  BY <1>1, HubAssumption DEF HubTypeOK, RegInv
<1>6. PipesBound'
  <2> SUFFICES ASSUME NEW i \in Inputs, NEW o \in Outputs, pipes'[<<i, o>>] # 0
               PROVE  LET p == pipes'[<<i, o>>]
                      IN  /\ sources'[i] # 0 /\ srcOf[p] = sources'[i]
                          /\ sinks'[o] # 0 /\ snkOf[p] = sinks'[o]
                          /\ pstate'[p] \in {"bound", "running", "stuck"}
    BY DEF PipesBound
  <2> DEFINE p == pipes[<<i, o>>]
  <2>1. <<i, o>> \in Keys /\ <<i, o>> \notin K /\ pipes'[<<i, o>>] = p /\ p # 0
    BY <1>1 DEF Keys
  <2>2. sources'[i] = sources[i] /\ sinks'[o] = sinks[o]
    BY <2>1
  <2>3. p \in Objs
    BY <2>1 DEF HubTypeOK, Objs
  <2>4. ~ \E k \in K : pipes[k] = p
    BY <2>1 DEF HubConsistent, NoneTwice
  <2>5. pstate'[p] = pstate[p]
    BY <2>3, <2>4 DEF DropPipes
  <2> QED
    BY <2>1, <2>2, <2>5 DEF HubConsistent, PipesBound
<1>7. NoneTwice'
  BY <1>1 DEF HubConsistent, NoneTwice
<1>8. HeldInv'
  BY DEF HeldInv
<1> QED
  BY <1>4, <1>5, <1>6, <1>7, <1>8 DEF HubConsistent

LEMMA RemoveStep ==
  ASSUME HubInv, UNCHANGED held,
         \/ \E i \in Inputs, o \in Outputs : Disconnect(i, o)
         \/ \E i \in Inputs : RemoveInput(i)
         \/ \E o \in Outputs : RemoveOutput(o)
         \/ StopAll
  PROVE  HubInv'
<1>1. CASE \E i \in Inputs, o \in Outputs : Disconnect(i, o)
  <2>1. PICK i \in Inputs, o \in Outputs : Disconnect(i, o)
    BY <1>1
  <2>2. {<<i, o>>} \in SUBSET Keys
    BY DEF Keys
  <2>4. /\ UNCHANGED <<made, fragile, srcOf, snkOf>>
        /\ srcOn' \in SUBSET Objs /\ snkOn' \in SUBSET Objs
        /\ sources' \in [Inputs -> 0 .. MaxObjs] /\ sinks' \in [Outputs -> 0 .. MaxObjs]
        /\ UNCHANGED <<sources, sinks>>
    BY <2>1 DEF Disconnect, HubInv, HubTypeOK
  <2>5. /\ \A j \in Inputs : \/ sources'[j] = sources[j]
                             \/ sources'[j] = 0 /\ \A q \in Outputs : <<j, q>> \in {<<i, o>>}
        /\ \A q \in Outputs : \/ sinks'[q] = sinks[q]
                              \/ sinks'[q] = 0 /\ \A j \in Inputs : <<j, q>> \in {<<i, o>>}
    BY <2>4
  <2>6. DropPipes({<<i, o>>}) /\ UNCHANGED <<made, fragile, srcOf, snkOf, held>>
    BY <2>1, <2>4 DEF Disconnect
  <2> QED
    BY <2>2, <2>4, <2>5, <2>6, DropStep
<1>2. CASE \E i \in Inputs : RemoveInput(i)
  <2>1. PICK i \in Inputs : RemoveInput(i)
    BY <1>2
  <2>2. KeysOfInput(i) \in SUBSET Keys /\ \A o \in Outputs : <<i, o>> \in KeysOfInput(i)
    BY DEF Keys, KeysOfInput
  <2>3. /\ sources' \in [Inputs -> 0 .. MaxObjs] /\ sources'[i] = 0
        /\ \A j \in Inputs : j # i => sources'[j] = sources[j]
    BY <2>1, HubAssumption DEF RemoveInput, HubInv, HubTypeOK
  <2>4. /\ UNCHANGED <<made, fragile, srcOf, snkOf>>
        /\ srcOn' \in SUBSET Objs /\ snkOn' \in SUBSET Objs
        /\ sinks' \in [Outputs -> 0 .. MaxObjs]
        /\ UNCHANGED sinks
    BY <2>1 DEF RemoveInput, HubInv, HubTypeOK
  <2>5. /\ \A j \in Inputs : \/ sources'[j] = sources[j]
                             \/ sources'[j] = 0 /\ \A q \in Outputs : <<j, q>> \in KeysOfInput(i)
        /\ \A q \in Outputs : \/ sinks'[q] = sinks[q]
                              \/ sinks'[q] = 0 /\ \A j \in Inputs : <<j, q>> \in KeysOfInput(i)
    BY <2>2, <2>3, <2>4
  <2>6. DropPipes(KeysOfInput(i)) /\ UNCHANGED <<made, fragile, srcOf, snkOf, held>>
    BY <2>1, <2>4 DEF RemoveInput
  <2> QED
    BY <2>2, <2>3, <2>4, <2>5, <2>6, DropStep
<1>3. CASE \E o \in Outputs : RemoveOutput(o)
  <2>1. PICK o \in Outputs : RemoveOutput(o)
    BY <1>3
  <2>2. KeysOfOutput(o) \in SUBSET Keys /\ \A i \in Inputs : <<i, o>> \in KeysOfOutput(o)
    BY DEF Keys, KeysOfOutput
  <2>3. /\ sinks' \in [Outputs -> 0 .. MaxObjs] /\ sinks'[o] = 0
        /\ \A q \in Outputs : q # o => sinks'[q] = sinks[q]
    BY <2>1, HubAssumption DEF RemoveOutput, HubInv, HubTypeOK
  <2>4. /\ UNCHANGED <<made, fragile, srcOf, snkOf>>
        /\ srcOn' \in SUBSET Objs /\ snkOn' \in SUBSET Objs
        /\ sources' \in [Inputs -> 0 .. MaxObjs]
        /\ UNCHANGED sources
    BY <2>1 DEF RemoveOutput, HubInv, HubTypeOK
  <2>5. /\ \A j \in Inputs : \/ sources'[j] = sources[j]
                             \/ sources'[j] = 0 /\ \A q \in Outputs : <<j, q>> \in KeysOfOutput(o)
        /\ \A q \in Outputs : \/ sinks'[q] = sinks[q]
                              \/ sinks'[q] = 0 /\ \A j \in Inputs : <<j, q>> \in KeysOfOutput(o)
    BY <2>2, <2>3, <2>4
  <2>6. DropPipes(KeysOfOutput(o)) /\ UNCHANGED <<made, fragile, srcOf, snkOf, held>>
    BY <2>1, <2>4 DEF RemoveOutput
  <2> QED
    BY <2>2, <2>3, <2>4, <2>5, <2>6, DropStep
<1>4. CASE StopAll
  <2>1. /\ sources' \in [Inputs -> 0 .. MaxObjs] /\ \A i \in Inputs : sources'[i] = 0
        /\ sinks' \in [Outputs -> 0 .. MaxObjs] /\ \A o \in Outputs : sinks'[o] = 0
    BY <1>4, HubAssumption DEF StopAll, NoInput, NoOutput
  <2>2. Keys \in SUBSET Keys /\ \A i \in Inputs, o \in Outputs : <<i, o>> \in Keys
    BY DEF Keys
  <2>4. /\ UNCHANGED <<made, fragile, srcOf, snkOf>>
        /\ srcOn' \in SUBSET Objs /\ snkOn' \in SUBSET Objs
    BY <1>4 DEF StopAll, HubInv, HubTypeOK
  <2> QED
    BY <1>4, <2>1, <2>2, <2>4, DropStep DEF StopAll
<1> QED
  BY <1>1, <1>2, <1>3, <1>4

-----------------------------------------------------------------------------
(* The calls that are two steps.                                             *)

LEMMA HoldStep ==
  ASSUME HubInv, UNCHANGED <<regVars, objVars>>, NEW c \in Callers,
         NEW kind \in Kinds, NEW x \in 0 .. MaxObjs,
         kind = "none" \/ x \in Objs, held' = [held EXCEPT ![c] = <<kind, x>>]
  PROVE  HubInv'
<1>1. held' \in [Callers -> Kinds \X (0 .. MaxObjs)]
  BY DEF HubInv, HubTypeOK
<1>2. HeldInv'
  BY DEF HubInv, HubTypeOK, HeldInv
<1> QED
  BY <1>1, <1>2, QuietStep DEF objVars, HubInv, HubTypeOK

(* A caller takes hold of an object, with or without making it first.         *)
LEMMA TakeHold ==
  ASSUME HubInv, NEW c \in Callers, NEW kind \in Kinds, NEW x \in Objs, Hold(c, kind, x)
  PROVE  held' \in [Callers -> Kinds \X (0 .. MaxObjs)] /\ HeldInv'
  BY DEF Hold, HubInv, HubTypeOK, HeldInv, Objs

LEMMA OpenStep ==
  ASSUME HubInv, NEW c \in Callers, OpenOp(c)
  PROVE  HubInv'
<1>1. "src" \in Kinds /\ "snk" \in Kinds
  BY DEF Kinds
<1>2. ASSUME NEW i \in Inputs, OpenInput(c, i) PROVE HubInv'
  <2>1. sources'[i] \in Objs /\ sources'[i] \in 0 .. MaxObjs
    BY <1>2, HubAssumption
    DEF OpenInput, CreateInput, InputFound, regVars, Objs, HubInv, HubTypeOK
  <2>2. CASE CreateInput(i)
    BY <1>1, <1>2, <2>1, <2>2, TakeHold, CreateInputStep DEF OpenInput
  <2>3. CASE InputFound(i)
    BY <1>1, <1>2, <2>1, <2>3, HoldStep DEF OpenInput, InputFound, Hold
  <2> QED
    BY <1>2, <2>2, <2>3 DEF OpenInput
<1>3. ASSUME NEW o \in Outputs, OpenOutput(c, o) PROVE HubInv'
  <2>1. sinks'[o] \in Objs /\ sinks'[o] \in 0 .. MaxObjs
    BY <1>3, HubAssumption
    DEF OpenOutput, CreateOutput, OutputFound, regVars, Objs, HubInv, HubTypeOK
  <2>2. CASE CreateOutput(o)
    BY <1>1, <1>3, <2>1, <2>2, TakeHold, CreateOutputStep DEF OpenOutput
  <2>3. CASE OutputFound(o)
    BY <1>1, <1>3, <2>1, <2>3, HoldStep DEF OpenOutput, OutputFound, Hold
  <2> QED
    BY <1>3, <2>2, <2>3 DEF OpenOutput
<1> QED
  BY <1>2, <1>3 DEF OpenOp

LEMMA FindStep ==
  ASSUME HubInv, NEW c \in Callers, FindOp(c) \/ Forget(c)
  PROVE  HubInv'
<1>1. "none" \in Kinds /\ "src" \in Kinds /\ "snk" \in Kinds /\ "pipe" \in Kinds
  BY DEF Kinds
<1>2. ASSUME NEW i \in Inputs, FindSource(c, i) PROVE HubInv'
  <2>1. sources[i] \in 0 .. MaxObjs /\ sources[i] \in Objs
    BY <1>2, HubAssumption DEF FindSource, Objs, HubInv, HubTypeOK
  <2> QED
    BY <1>1, <1>2, <2>1, HoldStep DEF FindSource, Hold
<1>3. ASSUME NEW o \in Outputs, FindSink(c, o) PROVE HubInv'
  <2>1. sinks[o] \in 0 .. MaxObjs /\ sinks[o] \in Objs
    BY <1>3, HubAssumption DEF FindSink, Objs, HubInv, HubTypeOK
  <2> QED
    BY <1>1, <1>3, <2>1, HoldStep DEF FindSink, Hold
<1>4. ASSUME NEW i \in Inputs, NEW o \in Outputs, FindPipe(c, i, o) PROVE HubInv'
  <2>1. pipes[<<i, o>>] \in 0 .. MaxObjs /\ pipes[<<i, o>>] \in Objs
    BY <1>4, HubAssumption DEF FindPipe, Objs, HubInv, HubTypeOK, Keys
  <2> QED
    BY <1>1, <1>4, <2>1, HoldStep DEF FindPipe, Hold
<1>5. ASSUME Forget(c) PROVE HubInv'
  <2>1. 0 \in 0 .. MaxObjs
    BY HubAssumption
  <2> QED
    BY <1>1, <1>5, <2>1, HoldStep DEF Forget, Release, Nothing
<1> QED
  BY <1>2, <1>3, <1>4, <1>5 DEF FindOp
LEMMA RunStep ==
  ASSUME HubInv, NEW c \in Callers, RunOp(c)
  PROVE  HubInv'
<1> DEFINE x == held[c][2]
<1>1. held[c][1] \in {"src", "snk", "pipe"} /\ x \in Objs /\ held' = [held EXCEPT ![c] = Nothing]
  BY DEF HubInv, HeldInv, RunOp, RunSource, RunSourceFails, RunSink, RunSinkFails, RunPipe,
     RunPipeAgain, RunPipeFails, RunPipePanics, Release
<1>2. held' \in [Callers -> Kinds \X (0 .. MaxObjs)] /\ HeldInv'
  <2>1. Nothing \in Kinds \X (0 .. MaxObjs) /\ Nothing[1] = "none"
    BY HubAssumption DEF Nothing, Kinds
  <2> QED
    BY <1>1, <2>1 DEF HubInv, HubTypeOK, HeldInv
<1>3. UNCHANGED <<regVars, made, fragile, srcOf, snkOf>>
  BY DEF RunOp, RunSource, RunSourceFails, RunSink, RunSinkFails, RunPipe,
     RunPipeAgain, RunPipeFails, RunPipePanics, objVars
<1>4. srcOn' \in SUBSET Objs /\ snkOn' \in SUBSET Objs
  BY <1>1 DEF HubInv, HubTypeOK, RunOp, RunSource, RunSourceFails, RunSink, RunSinkFails,
     RunPipe, RunPipeAgain, RunPipeFails, RunPipePanics, objVars
<1>5. \/ UNCHANGED pstate
      \/ /\ pstate[x] \in {"bound", "stopped"}
         /\ pstate' = [pstate EXCEPT ![x] = IF @ = "bound" THEN "running" ELSE "revived"]
      \/ /\ pstate[x] \in {"bound", "stopped"}
         /\ pstate' = [pstate EXCEPT ![x] = "stuck"]
  BY DEF RunOp, RunSource, RunSourceFails, RunSink, RunSinkFails, RunPipe, RunPipeAgain,
     RunPipeFails, RunPipePanics, NotStarted, objVars
<1>6. ASSUME NEW p \in Objs
      PROVE  /\ pstate'[p] \in PipeStates
             /\ pstate[p] = "new" <=> pstate'[p] = "new"
             /\ pstate[p] \in {"bound", "running", "stuck"}
                  => pstate'[p] \in {"bound", "running", "stuck"}
  BY <1>1, <1>5 DEF HubInv, HubTypeOK, PipeStates
<1>7. pstate' \in [Objs -> PipeStates]
  BY <1>1, <1>5, <1>6 DEF HubInv, HubTypeOK
<1> QED
  BY <1>2, <1>3, <1>4, <1>6, <1>7, QuietStep

-----------------------------------------------------------------------------
LEMMA StutterHub == HubInv /\ UNCHANGED hubVars => HubInv'
  BY DEF hubVars, regVars, objVars, HubInv, HubTypeOK, RegInv, HeldInv, HubConsistent, PipesBound,
     NoneTwice

LEMMA NextHub == HubInv /\ [HubNext]_hubVars => HubInv'
<1> SUFFICES ASSUME HubInv, HubNext PROVE HubInv'
  BY StutterHub
<1>1. CASE LockedOp /\ UNCHANGED held
  <2>1. held' \in [Callers -> Kinds \X (0 .. MaxObjs)] /\ HeldInv'
    BY <1>1 DEF HubInv, HubTypeOK, HeldInv
  <2> QED
    BY <1>1, <2>1, CreateInputStep, CreateOutputStep, ConnectStep, RemoveStep DEF LockedOp
<1>2. CASE \E c \in Callers : OpenOp(c) \/ FindOp(c) \/ RunOp(c) \/ Forget(c)
  BY <1>2, OpenStep, FindStep, RunStep
<1>3. CASE Restart
  BY <1>3, RestartHub
<1> QED
  BY <1>1, <1>2, <1>3 DEF HubNext

(* What the hub's maps and objects may hold, in every reachable state.        *)
THEOREM HubTypeCorrect == HubSpec => []HubTypeOK
<1>1. HubInv => HubTypeOK
  BY DEF HubInv
<1> QED
  BY InitHub, NextHub, <1>1, PTL DEF HubSpec

(* The registries of the hub agree with each other and with the bound pipes,  *)
(* however concurrent callers interleave and whichever calls fail.            *)
THEOREM RegistriesAgree == HubSpec => []HubConsistent
<1>1. HubInv => HubConsistent
  BY DEF HubInv
<1> QED
  BY InitHub, NextHub, <1>1, PTL DEF HubSpec
-----------------------------------------------------------------------------
(* The service layer.  An instruction works on what its name says: an input,  *)
(* an output, a pair of them, a pipe or the pipes and objects of a query.     *)
InOps == {"needIn", "createIn", "findIn", "runIn", "openIn", "runInOrFail", "insertIn", "removeIn",
          "dropIn", "orphanIn", "cascadeIn", "doneIn"}
OutOps == {"needOut", "createOut", "findOut", "runOut", "openOut", "runOutOrFail", "insertOut",
           "removeOut", "dropOut", "orphanOut", "cascadeOut", "doneOut", "checkOut"}
KeyOps == {"checkPair", "connect", "findPipe", "runPipe", "disconnect"}
PipeOps == {"insertPipe", "savePipe", "donePipe"}
QueryOps == {"restorePipes", "restoreIns", "restoreOuts"}
Triples == PipeIds \X Inputs \X Outputs

Instr ==
  UNION {[op : InOps, x : Inputs], [op : OutOps, x : Outputs], [op : KeyOps, x : Keys],
         [op : PipeOps, x : Triples], [op : {"dropPipe"}, x : PipeIds], [op : QueryOps, x : {0}],
         [op : {"setIn", "saveIn"}, x : Inputs, st : Status],
         [op : {"setOut", "saveOut"}, x : Outputs, st : Status],
         [op : {"setPipe"}, x : PipeIds, st : Status],
         [op : {"eachOut"}, x : SUBSET (PipeIds \X Outputs)],
         [op : {"eachIn"}, x : SUBSET (PipeIds \X Inputs)],
         [op : {"eachPipe"}, x : SUBSET Triples],
         [op : {"eachInput"}, x : SUBSET Inputs], [op : {"eachOutput"}, x : SUBSET Outputs]}

RowsTyped ==
  /\ inRow \in [Inputs -> {"none"} \cup Status]
  /\ outRow \in [Outputs -> {"none"} \cup Status]
  /\ pipeRow \in [PipeIds -> Rows \cup {NoRow}]

(* A look-up is always followed by the start of what it finds, which a failed *)
(* look-up skips.                                                             *)
Prog == {q \in Seq(Instr) : \A k \in 1 .. Len(q) : q[k].op \in {"findIn", "findOut"} => k < Len(q)}
ProgTyped == prog \in [Callers -> Prog]

PlaneTypeOK == HubTypeOK /\ RowsTyped /\ ProgTyped

(* What the programs are made of.                                             *)
LEMMA PlainInstr ==
  /\ \A op \in InOps, i \in Inputs : On(op, i) \in Instr
  /\ \A op \in OutOps, o \in Outputs : On(op, o) \in Instr
  /\ \A op \in KeyOps, i \in Inputs, o \in Outputs : For(op, i, o) \in Instr
  /\ \A op \in PipeOps, e \in Triples : On(op, e) \in Instr
  /\ \A p \in PipeIds : On("dropPipe", p) \in Instr
  /\ \A op \in QueryOps : On(op, 0) \in Instr
<1>1. \A op \in InOps, i \in Inputs : On(op, i) \in [op : InOps, x : Inputs]
  BY DEF On
<1>2. \A op \in OutOps, o \in Outputs : On(op, o) \in [op : OutOps, x : Outputs]
  BY DEF On
<1>3. \A op \in KeyOps, i \in Inputs, o \in Outputs : For(op, i, o) \in [op : KeyOps, x : Keys]
  BY DEF On, For, Keys
<1>4. \A op \in PipeOps, e \in Triples : On(op, e) \in [op : PipeOps, x : Triples]
  BY DEF On
<1>5. \A p \in PipeIds : On("dropPipe", p) \in [op : {"dropPipe"}, x : PipeIds]
  BY DEF On
<1>6. \A op \in QueryOps : On(op, 0) \in [op : QueryOps, x : {0}]
  BY DEF On
<1> QED
  BY <1>1, <1>2, <1>3, <1>4, <1>5, <1>6 DEF Instr

LEMMA StampedInstr ==
  /\ \A i \in Inputs, st \in Status : Set("setIn", i, st) \in Instr /\ Set("saveIn", i, st) \in Instr
  /\ \A o \in Outputs, st \in Status : Set("setOut", o, st) \in Instr /\ Set("saveOut", o, st) \in Instr
  /\ \A p \in PipeIds, st \in Status : Set("setPipe", p, st) \in Instr
<1>1. \A op \in {"setIn", "saveIn"}, i \in Inputs, st \in Status :
        Set(op, i, st) \in [op : {"setIn", "saveIn"}, x : Inputs, st : Status]
  BY DEF Set
<1>2. \A op \in {"setOut", "saveOut"}, o \in Outputs, st \in Status :
        Set(op, o, st) \in [op : {"setOut", "saveOut"}, x : Outputs, st : Status]
  BY DEF Set
<1>3. \A p \in PipeIds, st \in Status :
        Set("setPipe", p, st) \in [op : {"setPipe"}, x : PipeIds, st : Status]
  BY DEF Set
<1> QED
  BY <1>1, <1>2, <1>3 DEF Instr

LEMMA LoopInstr ==
  /\ \A X \in SUBSET (PipeIds \X Outputs) : On("eachOut", X) \in Instr
  /\ \A X \in SUBSET (PipeIds \X Inputs) : On("eachIn", X) \in Instr
  /\ \A X \in SUBSET Triples : On("eachPipe", X) \in Instr
  /\ \A X \in SUBSET Inputs : On("eachInput", X) \in Instr
  /\ \A X \in SUBSET Outputs : On("eachOutput", X) \in Instr
<1>1. \A X \in SUBSET (PipeIds \X Outputs) :
        On("eachOut", X) \in [op : {"eachOut"}, x : SUBSET (PipeIds \X Outputs)]
  BY DEF On
<1>2. \A X \in SUBSET (PipeIds \X Inputs) :
        On("eachIn", X) \in [op : {"eachIn"}, x : SUBSET (PipeIds \X Inputs)]
  BY DEF On
<1>3. \A X \in SUBSET Triples : On("eachPipe", X) \in [op : {"eachPipe"}, x : SUBSET Triples]
  BY DEF On
<1>4. \A X \in SUBSET Inputs : On("eachInput", X) \in [op : {"eachInput"}, x : SUBSET Inputs]
  BY DEF On
<1>5. \A X \in SUBSET Outputs : On("eachOutput", X) \in [op : {"eachOutput"}, x : SUBSET Outputs]
  BY DEF On
<1> QED
  BY <1>1, <1>2, <1>3, <1>4, <1>5 DEF Instr

LEMMA InstrArg ==
  ASSUME NEW a \in Instr
  PROVE  /\ a.op \in InOps \cup {"setIn", "saveIn"} => a.x \in Inputs
         /\ a.op \in OutOps \cup {"setOut", "saveOut"} => a.x \in Outputs
         /\ a.op \in KeyOps => a.x \in Keys
         /\ a.op \in PipeOps => a.x \in Triples
         /\ a.op \in {"dropPipe", "setPipe"} => a.x \in PipeIds
         /\ a.op \in {"setIn", "saveIn", "setOut", "saveOut", "setPipe"} => a.st \in Status
         /\ a.op = "eachOut" => a.x \in SUBSET (PipeIds \X Outputs)
         /\ a.op = "eachIn" => a.x \in SUBSET (PipeIds \X Inputs)
         /\ a.op = "eachPipe" => a.x \in SUBSET Triples
         /\ a.op = "eachInput" => a.x \in SUBSET Inputs
         /\ a.op = "eachOutput" => a.x \in SUBSET Outputs
<1> USE DEF InOps, OutOps, KeyOps, PipeOps, QueryOps
<1> HIDE DEF Keys, Triples, Status
<1>1. CASE a \in [op : InOps, x : Inputs]
  BY <1>1
<1>2. CASE a \in [op : OutOps, x : Outputs]
  BY <1>2
<1>3. CASE a \in [op : KeyOps, x : Keys]
  BY <1>3
<1>4. CASE a \in [op : PipeOps, x : Triples]
  BY <1>4
<1>5. CASE a \in [op : {"dropPipe"}, x : PipeIds]
  BY <1>5
<1>6. CASE a \in [op : QueryOps, x : {0}]
  BY <1>6
<1>7. CASE a \in [op : {"setIn", "saveIn"}, x : Inputs, st : Status]
  BY <1>7
<1>8. CASE a \in [op : {"setOut", "saveOut"}, x : Outputs, st : Status]
  BY <1>8
<1>9. CASE a \in [op : {"setPipe"}, x : PipeIds, st : Status]
  BY <1>9
<1>10. CASE a \in [op : {"eachOut"}, x : SUBSET (PipeIds \X Outputs)]
  BY <1>10
<1>11. CASE a \in [op : {"eachIn"}, x : SUBSET (PipeIds \X Inputs)]
  BY <1>11
<1>12. CASE a \in [op : {"eachPipe"}, x : SUBSET Triples]
  BY <1>12
<1>13. CASE a \in [op : {"eachInput"}, x : SUBSET Inputs] \/ a \in [op : {"eachOutput"}, x : SUBSET Outputs]
  BY <1>13
<1> QED
  BY <1>1, <1>2, <1>3, <1>4, <1>5, <1>6, <1>7, <1>8, <1>9, <1>10, <1>11, <1>12, <1>13 DEF Instr

(* A set of numbers has a least one.                                          *)
Less == {ss \in Nat \X Nat : ss[1] < ss[2]}
LEMMA Smallest ==
  ASSUME NEW S, S \subseteq Nat, S # {}
  PROVE  \E m \in S : \A n \in S : m <= n
<1>1. OpToRel(<, Nat) = Less
  BY DEF OpToRel, Less
<1>2. \E m \in S : \A n \in S : ~(<<n, m>> \in OpToRel(<, Nat))
  BY NatLessThanWellFounded, WFMin
<1>3. PICK m \in S : \A n \in S : <<n, m>> \notin Less
  BY <1>1, <1>2, Zenon
<1>4. ASSUME NEW n \in S PROVE m <= n
  <2>1. <<n, m>> \notin Less /\ n \in Nat /\ m \in Nat
    BY <1>3
  <2>2. n < m => <<n, m>> \in Less
    BY <2>1 DEF Less
  <2> QED
    BY <2>1, <2>2
<1> QED
  BY <1>4

(* Programs may be taken apart and put together.                              *)
LEMMA ProgTail ==
  ASSUME NEW q \in Prog, q # <<>>
  PROVE  q[1] \in Instr /\ Tail(q) \in Prog
<1>1. q \in Seq(Instr) /\ Len(q) \in Nat /\ Len(q) > 0
  BY EmptySeq DEF Prog
<1>2. /\ q[1] \in Instr /\ Tail(q) \in Seq(Instr) /\ Len(Tail(q)) = Len(q) - 1
      /\ \A k \in 1 .. Len(Tail(q)) : Tail(q)[k] = q[k + 1]
  BY <1>1, HeadTailProperties, ElementOfSeq
<1>3. ASSUME NEW k \in 1 .. Len(Tail(q)), Tail(q)[k].op \in {"findIn", "findOut"}
      PROVE  k < Len(Tail(q))
  <2>1. k + 1 \in 1 .. Len(q) /\ q[k + 1].op \in {"findIn", "findOut"}
    BY <1>1, <1>2, <1>3
  <2> QED
    BY <1>1, <1>2, <2>1 DEF Prog
<1> QED
  BY <1>2, <1>3 DEF Prog

LEMMA ProgConcat ==
  ASSUME NEW q \in Prog, NEW r \in Prog
  PROVE  q \o r \in Prog
<1>1. q \in Seq(Instr) /\ r \in Seq(Instr) /\ Len(q) \in Nat /\ Len(r) \in Nat
  BY LenProperties DEF Prog
<1>2. /\ q \o r \in Seq(Instr) /\ Len(q \o r) = Len(q) + Len(r)
      /\ \A k \in 1 .. Len(q) + Len(r) :
           (q \o r)[k] = IF k <= Len(q) THEN q[k] ELSE r[k - Len(q)]
  BY <1>1, ConcatProperties
<1>3. ASSUME NEW k \in 1 .. Len(q \o r), (q \o r)[k].op \in {"findIn", "findOut"}
      PROVE  k < Len(q \o r)
  <2>1. CASE k <= Len(q)
    <3>1. q[k].op \in {"findIn", "findOut"} /\ k \in 1 .. Len(q)
      BY <1>1, <1>2, <1>3, <2>1
    <3> QED
      BY <1>1, <1>2, <3>1 DEF Prog
  <2>2. CASE ~(k <= Len(q))
    <3>1. r[k - Len(q)].op \in {"findIn", "findOut"} /\ k - Len(q) \in 1 .. Len(r)
      BY <1>1, <1>2, <1>3, <2>2
    <3>2. k - Len(q) < Len(r)
      BY <3>1 DEF Prog
    <3> QED
      BY <1>1, <1>2, <3>2
  <2> QED
    BY <2>1, <2>2
<1> QED
  BY <1>2, <1>3 DEF Prog

LEMMA ProgRest ==
  ASSUME NEW q \in Prog, NEW m \in 1 .. Len(q)
  PROVE  SubSeq(q, m + 1, Len(q)) \in Prog
<1> DEFINE r == SubSeq(q, m + 1, Len(q))
<1>1. q \in Seq(Instr) /\ Len(q) \in Nat /\ m + 1 \in 1 .. Len(q) + 1
  BY LenProperties DEF Prog
<1>2. /\ r \in Seq(Instr) /\ Len(r) = Len(q) - m
      /\ \A k \in 1 .. Len(q) - m : r[k] = q[m + k]
  BY <1>1, SubSeqProperties
<1> HIDE DEF r
<1>3. ASSUME NEW k \in 1 .. Len(r), r[k].op \in {"findIn", "findOut"}
      PROVE  k < Len(r)
  <2>1. m + k \in 1 .. Len(q) /\ q[m + k].op \in {"findIn", "findOut"}
    BY <1>1, <1>2, <1>3
  <2> QED
    BY <1>1, <1>2, <2>1 DEF Prog
<1>4. r \in Prog
  BY <1>2, <1>3 DEF Prog
<1> QED
  BY <1>4 DEF r

(* The programs of the requests and of Restore, and what replaces an          *)
(* instruction, are such programs.                                            *)
LEMMA OneInstr ==
  ASSUME NEW a \in Instr, a.op \notin {"findIn", "findOut"}
  PROVE  <<a>> \in Prog
  BY DEF Prog

LEMMA TwoInstr ==
  ASSUME NEW a \in Instr, NEW b \in Instr, b.op \notin {"findIn", "findOut"}
  PROVE  <<a, b>> \in Prog
  BY DEF Prog

LEMMA ThreeInstr ==
  ASSUME NEW a \in Instr, NEW b \in Instr, NEW d \in Instr, d.op \notin {"findIn", "findOut"}
  PROVE  <<a, b, d>> \in Prog
  BY DEF Prog

LEMMA FourInstr ==
  ASSUME NEW a \in Instr, NEW b \in Instr, NEW d \in Instr, NEW e \in Instr,
         e.op \notin {"findIn", "findOut"}
  PROVE  <<a, b, d, e>> \in Prog
  BY DEF Prog

LEMMA NoInstr == <<>> \in Prog
  BY DEF Prog

LEMMA OnOp == /\ \A op, x : On(op, x).op = op
              /\ \A op, i, o : For(op, i, o).op = op
              /\ \A op, x, st : Set(op, x, st).op = op
  BY DEF On, For, Set

LEMMA StartPipeMade ==
  ASSUME NEW i \in Inputs, NEW o \in Outputs
  PROVE  StartPipeProg(i, o) \in Prog
<1> DEFINE q == StartPipeProg(i, o)
<1>1. /\ On("needIn", i) \in Instr /\ On("needOut", o) \in Instr /\ On("createIn", i) \in Instr
      /\ On("createOut", o) \in Instr /\ For("connect", i, o) \in Instr
      /\ On("findOut", o) \in Instr /\ On("runOut", o) \in Instr
      /\ On("findIn", i) \in Instr /\ On("runIn", i) \in Instr
      /\ For("findPipe", i, o) \in Instr /\ For("runPipe", i, o) \in Instr
  BY PlainInstr DEF InOps, OutOps, KeyOps
<1>2. q \in Seq(Instr) /\ Len(q) = 11 /\ q[11] = For("runPipe", i, o)
  BY <1>1 DEF StartPipeProg
<1>3. q[11].op = "runPipe"
  BY <1>2, OnOp
<1> HIDE DEF q
<1>4. \A k \in 1 .. Len(q) : q[k].op \in {"findIn", "findOut"} => k < Len(q)
  BY <1>2, <1>3
<1>5. q \in Prog
  BY <1>2, <1>4 DEF Prog
<1> QED
  BY <1>5 DEF q

LEMMA StartOnlyMade ==
  /\ \A i \in Inputs : StartInputProg(i) \in Prog
  /\ \A o \in Outputs : StartOutputProg(o) \in Prog
<1>1. "running" \in Status
  BY DEF Status
<1>2. ASSUME NEW i \in Inputs PROVE StartInputProg(i) \in Prog
  <2>1. /\ On("needIn", i) \in Instr /\ On("openIn", i) \in Instr
        /\ On("runInOrFail", i) \in Instr /\ Set("setIn", i, "running") \in Instr
    BY <1>1, PlainInstr, StampedInstr DEF InOps
  <2> QED
    BY <2>1, FourInstr, OnOp DEF StartInputProg
<1>3. ASSUME NEW o \in Outputs PROVE StartOutputProg(o) \in Prog
  <2>1. /\ On("needOut", o) \in Instr /\ On("openOut", o) \in Instr
        /\ On("runOutOrFail", o) \in Instr /\ Set("setOut", o, "running") \in Instr
    BY <1>1, PlainInstr, StampedInstr DEF OutOps
  <2> QED
    BY <2>1, FourInstr, OnOp DEF StartOutputProg
<1> QED
  BY <1>2, <1>3

LEMMA PairMade ==
  ASSUME NEW i \in Inputs, NEW o \in Outputs, NEW st \in Status
  PROVE  StatusProg(i, o, st) \in Prog /\ OrphanProg(i, o) \in Prog
<1>1. /\ Set("setIn", i, st) \in Instr /\ Set("setOut", o, st) \in Instr
      /\ On("orphanIn", i) \in Instr /\ On("orphanOut", o) \in Instr
  BY PlainInstr, StampedInstr DEF InOps, OutOps
<1> QED
  BY <1>1, TwoInstr, OnOp DEF StatusProg, OrphanProg

LEMMA RestoreMade == RestoreProg \in Prog
<1>1. On("restorePipes", 0) \in Instr /\ On("restoreIns", 0) \in Instr /\ On("restoreOuts", 0) \in Instr
  BY PlainInstr DEF QueryOps
<1> QED
  BY <1>1, ThreeInstr, OnOp DEF RestoreProg

(* An error keeps the program one: what is left starts behind the first mark. *)
LEMMA RescueMade ==
  ASSUME NEW a \in Instr, a.op \in Catches
  PROVE  Rescue(a) \in Prog
<1>1. "stopped" \in Status
  BY DEF Status
<1>2. CASE a.op = "donePipe"
  <2>1. a.x \in Triples
    BY <1>2, InstrArg DEF PipeOps
  <2>2. a.x[1] \in PipeIds /\ a.x[2] \in Inputs /\ a.x[3] \in Outputs
    BY <2>1 DEF Triples
  <2>3. <<Set("setPipe", a.x[1], "stopped")>> \in Prog
    BY <1>1, <2>2, StampedInstr, OneInstr, OnOp
  <2>4. OrphanProg(a.x[2], a.x[3]) \in Prog
    BY <1>1, <2>2, PairMade
  <2> QED
    BY <1>2, <2>3, <2>4, ProgConcat DEF Rescue
<1>3. CASE a.op = "doneIn"
  <2>1. a.x \in Inputs
    BY <1>3, InstrArg DEF InOps
  <2>2. Set("setIn", a.x, "stopped") \in Instr
    BY <1>1, <2>1, StampedInstr
  <2> QED
    BY <1>3, <2>2, OneInstr, OnOp DEF Rescue
<1>4. CASE a.op = "doneOut"
  <2>1. a.x \in Outputs
    BY <1>4, InstrArg DEF OutOps
  <2>2. Set("setOut", a.x, "stopped") \in Instr
    BY <1>1, <2>1, StampedInstr
  <2> QED
    BY <1>4, <2>2, OneInstr, OnOp DEF Rescue
<1> QED
  BY <1>2, <1>3, <1>4 DEF Catches

LEMMA ProgUnwind ==
  ASSUME NEW q \in Prog
  PROVE  Unwind(q) \in Prog
<1> DEFINE marks == {k \in DOMAIN q : q[k].op \in Catches}
           first == CHOOSE k \in marks : \A j \in marks : k <= j
<1>1. q \in Seq(Instr) /\ DOMAIN q = 1 .. Len(q) /\ Len(q) \in Nat
  BY LenProperties DEF Prog
<1>2. CASE marks = {}
  BY <1>2, NoInstr DEF Unwind
<1>3. CASE marks # {}
  <2>1. marks \subseteq Nat
    BY <1>1
  <2>2. \E k \in marks : \A j \in marks : k <= j
    BY <1>3, <2>1, Smallest
  <2>3. first \in marks
    BY <2>2
  <2>4. first \in 1 .. Len(q) /\ q[first].op \in Catches
    BY <1>1, <2>3
  <2>5. q[first] \in Instr
    BY <1>1, <2>4, ElementOfSeq
  <2>6. Rescue(q[first]) \in Prog /\ SubSeq(q, first + 1, Len(q)) \in Prog
    BY <2>4, <2>5, RescueMade, ProgRest
  <2>7. Unwind(q) = Rescue(q[first]) \o SubSeq(q, first + 1, Len(q))
    BY <1>3 DEF Unwind
  <2> QED
    BY <2>6, <2>7, ProgConcat
<1> QED
  BY <1>2, <1>3

-----------------------------------------------------------------------------
(* Every step of the service layer keeps rows and programs well-formed and is *)
(* an operation of the hub, or leaves the hub alone.                          *)
PlaneInv == HubInv /\ RowsTyped /\ ProgTyped

LEMMA AtHead ==
  ASSUME ProgTyped, NEW c \in Callers, NEW op, At(c, op)
  PROVE  /\ prog[c] \in Prog /\ prog[c] # <<>>
         /\ prog[c][1] \in Instr /\ prog[c][1].op = op /\ Tail(prog[c]) \in Prog
  BY ProgTail DEF ProgTyped, At

LEMMA BecomeTyped ==
  ASSUME ProgTyped, NEW c \in Callers, NEW op, At(c, op), NEW q \in Prog, Become(c, q)
  PROVE  ProgTyped'
<1>1. q \o Tail(prog[c]) \in Prog
  BY AtHead, ProgConcat
<1>2. prog' = [prog EXCEPT ![c] = q \o Tail(prog[c])]
  BY DEF Become
<1> QED
  BY <1>1, <1>2 DEF ProgTyped

LEMMA ContinueTyped ==
  ASSUME ProgTyped, NEW c \in Callers, NEW op, At(c, op), Continue(c)
  PROVE  ProgTyped'
  BY NoInstr, BecomeTyped DEF Continue

LEMMA FailTyped ==
  ASSUME ProgTyped, NEW c \in Callers, Fail(c)
  PROVE  ProgTyped'
<1>1. Unwind(prog[c]) \in Prog
  BY ProgUnwind DEF ProgTyped
<1>2. prog' = [prog EXCEPT ![c] = Unwind(prog[c])]
  BY DEF Fail
<1> QED
  BY <1>1, <1>2 DEF ProgTyped

LEMMA SkipTyped ==
  ASSUME ProgTyped, NEW c \in Callers, NEW op \in {"findIn", "findOut"}, At(c, op), SkipNext(c)
  PROVE  ProgTyped'
<1> DEFINE q == prog[c]
<1>1. q \in Prog /\ q # <<>> /\ q[1].op = op /\ Tail(q) \in Prog
  BY AtHead
<1>2. q \in Seq(Instr) /\ Len(q) \in Nat /\ Len(q) > 0
  BY <1>1, EmptySeq DEF Prog
<1>3. 1 < Len(q)
  BY <1>1, <1>2 DEF Prog
<1>4. PICK r : r = Tail(q)
  OBVIOUS
<1>5. r # <<>>
  <2>1. Len(r) = Len(q) - 1
    BY <1>1, <1>2, <1>4, HeadTailProperties
  <2> HIDE DEF q
  <2>2. Len(r) # 0
    BY <1>2, <1>3, <2>1
  <2> QED
    BY <2>2
<1>6. Tail(Tail(q)) \in Prog
  BY <1>1, <1>4, <1>5, ProgTail
<1>7. prog' = [prog EXCEPT ![c] = Tail(Tail(q))]
  BY DEF SkipNext
<1> HIDE DEF q
<1> QED
  BY <1>6, <1>7 DEF ProgTyped

LEMMA SameRowsTyped ==
  ASSUME RowsTyped, UNCHANGED rowVars
  PROVE  RowsTyped'
  BY DEF RowsTyped, rowVars

(* The operand of the instruction at the head of a program.                   *)
LEMMA ArgTyped ==
  ASSUME ProgTyped, NEW c \in Callers, NEW op, At(c, op)
  PROVE  /\ op \in InOps \cup {"setIn", "saveIn"} => Arg(c) \in Inputs
         /\ op \in OutOps \cup {"setOut", "saveOut"} => Arg(c) \in Outputs
         /\ op \in KeyOps => Arg(c) \in Keys /\ Arg(c)[1] \in Inputs /\ Arg(c)[2] \in Outputs
                             /\ Arg(c) = <<Arg(c)[1], Arg(c)[2]>>
         /\ op \in PipeOps => /\ Arg(c) \in Triples /\ Arg(c)[1] \in PipeIds
                              /\ Arg(c)[2] \in Inputs /\ Arg(c)[3] \in Outputs
         /\ op \in {"dropPipe", "setPipe"} => Arg(c) \in PipeIds
         /\ op \in {"setIn", "saveIn", "setOut", "saveOut", "setPipe"} => prog[c][1].st \in Status
         /\ op = "eachOut" => Arg(c) \in SUBSET (PipeIds \X Outputs)
         /\ op = "eachIn" => Arg(c) \in SUBSET (PipeIds \X Inputs)
         /\ op = "eachPipe" => Arg(c) \in SUBSET Triples
         /\ op = "eachInput" => Arg(c) \in SUBSET Inputs
         /\ op = "eachOutput" => Arg(c) \in SUBSET Outputs
<1> DEFINE a == prog[c][1]
<1>1. a \in Instr /\ a.op = op /\ Arg(c) = a.x
  BY AtHead DEF Arg
<1> HIDE DEF a
<1>2. op \in KeyOps => a.x \in Keys
  BY <1>1, InstrArg
<1>3. op \in KeyOps => a.x[1] \in Inputs /\ a.x[2] \in Outputs /\ a.x = <<a.x[1], a.x[2]>>
  BY <1>2 DEF Keys
<1>4. op \in PipeOps => a.x \in Triples
  BY <1>1, InstrArg
<1>5. op \in PipeOps => a.x[1] \in PipeIds /\ a.x[2] \in Inputs /\ a.x[3] \in Outputs
  BY <1>4 DEF Triples
<1>6. op \in {"setIn", "saveIn", "setOut", "saveOut", "setPipe"} => a.st \in Status
  BY <1>1, InstrArg
<1>7. /\ op \in InOps \cup {"setIn", "saveIn"} => a.x \in Inputs
      /\ op \in OutOps \cup {"setOut", "saveOut"} => a.x \in Outputs
      /\ op \in {"dropPipe", "setPipe"} => a.x \in PipeIds
  BY <1>1, InstrArg
<1>8. /\ op = "eachOut" => a.x \in SUBSET (PipeIds \X Outputs)
      /\ op = "eachIn" => a.x \in SUBSET (PipeIds \X Inputs)
      /\ op = "eachPipe" => a.x \in SUBSET Triples
      /\ op = "eachInput" => a.x \in SUBSET Inputs
      /\ op = "eachOutput" => a.x \in SUBSET Outputs
  BY <1>1, InstrArg
<1> QED
  BY <1>1, <1>2, <1>3, <1>4, <1>5, <1>6, <1>7, <1>8 DEF a

(* Requests.                                                                  *)
LEMMA IssueStep ==
  ASSUME PlaneInv, NEW c \in Callers, NEW kind, NEW q \in Prog, Issue(c, kind, q)
  PROVE  UNCHANGED hubVars /\ RowsTyped' /\ ProgTyped'
<1>1. UNCHANGED <<hubVars, rowVars>> /\ prog' = [prog EXCEPT ![c] = q]
  BY DEF Issue
<1>2. ProgTyped'
  BY <1>1 DEF PlaneInv, ProgTyped
<1> QED
  BY <1>1, <1>2, SameRowsTyped DEF PlaneInv

LEMMA AskPipeStep ==
  ASSUME PlaneInv, NEW c \in Callers, NEW p \in PipeIds,
         \/ \E i \in Inputs, o \in Outputs : AskCreatePipe(c, p, i, o) \/ AskUpdatePipe(c, p, i, o)
         \/ AskDeletePipe(c, p) \/ AskStartPipe(c, p) \/ AskStopPipe(c, p)
  PROVE  UNCHANGED hubVars /\ RowsTyped' /\ ProgTyped'
<1>1. ASSUME NEW i \in Inputs, NEW o \in Outputs
      PROVE  /\ <<On("needOut", o), For("checkPair", i, o), On("checkOut", o),
                  On("insertPipe", <<p, i, o>>)>> \in Prog
             /\ <<On("needIn", i), On("needOut", o), On("savePipe", <<p, i, o>>)>> \in Prog
             /\ <<For("disconnect", i, o), On("dropPipe", p)>> \in Prog
             /\ <<For("disconnect", i, o), Set("setPipe", p, "stopped")>> \in Prog
             /\ <<Set("setPipe", p, "running")>> \in Prog
  <2>1. <<p, i, o>> \in Triples
    BY DEF Triples
  <2>2. /\ On("needOut", o) \in Instr /\ For("checkPair", i, o) \in Instr /\ On("checkOut", o) \in Instr
        /\ On("needIn", i) \in Instr /\ For("disconnect", i, o) \in Instr /\ On("dropPipe", p) \in Instr
        /\ On("insertPipe", <<p, i, o>>) \in Instr /\ On("savePipe", <<p, i, o>>) \in Instr
    BY <2>1, PlainInstr DEF InOps, OutOps, KeyOps, PipeOps
  <2>3. Set("setPipe", p, "stopped") \in Instr /\ Set("setPipe", p, "running") \in Instr
    BY StampedInstr DEF Status
  <2>4. /\ On("insertPipe", <<p, i, o>>).op = "insertPipe" /\ On("savePipe", <<p, i, o>>).op = "savePipe"
        /\ On("dropPipe", p).op = "dropPipe" /\ Set("setPipe", p, "stopped").op = "setPipe"
        /\ Set("setPipe", p, "running").op = "setPipe"
    BY OnOp
  <2>5. <<On("needOut", o), For("checkPair", i, o), On("checkOut", o), On("insertPipe", <<p, i, o>>)>>
          \in Prog
    BY <2>2, <2>4, FourInstr
  <2>6. <<On("needIn", i), On("needOut", o), On("savePipe", <<p, i, o>>)>> \in Prog
    BY <2>2, <2>4, ThreeInstr
  <2>7. /\ <<For("disconnect", i, o), On("dropPipe", p)>> \in Prog
        /\ <<For("disconnect", i, o), Set("setPipe", p, "stopped")>> \in Prog
    BY <2>2, <2>3, <2>4, TwoInstr
  <2>8. <<Set("setPipe", p, "running")>> \in Prog
    BY <2>3, <2>4, OneInstr
  <2> QED
    BY <2>5, <2>6, <2>7, <2>8
<1>2. ASSUME Exists(p)
      PROVE  pipeRow[p].in \in Inputs /\ pipeRow[p].out \in Outputs
  <2>1. pipeRow[p] \in Rows
    BY <1>2 DEF PlaneInv, RowsTyped, Exists
  <2> QED
    BY <2>1 DEF Rows
<1>3. ASSUME NEW i \in Inputs, NEW o \in Outputs, AskCreatePipe(c, p, i, o) \/ AskUpdatePipe(c, p, i, o)
      PROVE  UNCHANGED hubVars /\ RowsTyped' /\ ProgTyped'
  BY <1>1, <1>3, IssueStep DEF AskCreatePipe, AskUpdatePipe
<1>4. CASE AskDeletePipe(c, p)
  BY <1>1, <1>2, <1>4, IssueStep DEF AskDeletePipe
<1>5. CASE AskStartPipe(c, p)
  <2> DEFINE i == pipeRow[p].in
             o == pipeRow[p].out
             q == StartPipeProg(i, o) \o StatusProg(i, o, "running") \o <<Set("setPipe", p, "running")>>
  <2>1. i \in Inputs /\ o \in Outputs /\ "running" \in Status
    BY <1>2, <1>5 DEF AskStartPipe, Status
  <2>2. StartPipeProg(i, o) \in Prog /\ StatusProg(i, o, "running") \in Prog
    BY <2>1, StartPipeMade, PairMade
  <2>3. <<Set("setPipe", p, "running")>> \in Prog
    BY <1>1, <2>1
  <2>4. StartPipeProg(i, o) \o StatusProg(i, o, "running") \in Prog
    BY <2>2, ProgConcat
  <2>5. q \in Prog
    BY <2>3, <2>4, ProgConcat
  <2>6. Issue(c, "startPipe", q)
    BY <1>5 DEF AskStartPipe
  <2> HIDE DEF q
  <2> QED
    BY <2>5, <2>6, IssueStep
<1>6. CASE AskStopPipe(c, p)
  <2> DEFINE i == pipeRow[p].in
             o == pipeRow[p].out
             q == <<For("disconnect", i, o), Set("setPipe", p, "stopped")>> \o OrphanProg(i, o)
  <2>1. i \in Inputs /\ o \in Outputs /\ "running" \in Status
    BY <1>2, <1>6 DEF AskStopPipe, Status
  <2>2. <<For("disconnect", i, o), Set("setPipe", p, "stopped")>> \in Prog /\ OrphanProg(i, o) \in Prog
    BY <1>1, <2>1, PairMade
  <2>3. q \in Prog
    BY <2>2, ProgConcat
  <2>4. Issue(c, "stopPipe", q)
    BY <1>6 DEF AskStopPipe
  <2> HIDE DEF q
  <2> QED
    BY <2>3, <2>4, IssueStep
<1> QED
  BY <1>3, <1>4, <1>5, <1>6

LEMMA AskInputStep ==
  ASSUME PlaneInv, NEW c \in Callers, NEW i \in Inputs,
         \/ AskCreateInput(c, i) \/ AskUpdateInput(c, i) \/ AskDeleteInput(c, i)
         \/ AskStartInput(c, i) \/ AskStopInput(c, i)
  PROVE  UNCHANGED hubVars /\ RowsTyped' /\ ProgTyped'
<1>1. /\ On("insertIn", i) \in Instr /\ On("removeIn", i) \in Instr /\ On("dropIn", i) \in Instr
      /\ On("cascadeIn", i) \in Instr
  BY PlainInstr DEF InOps
<1>2. Set("setIn", i, "stopped") \in Instr
  BY StampedInstr DEF Status
<1>3. CASE AskCreateInput(c, i)
  <2>1. <<On("insertIn", i)>> \in Prog
    BY <1>1, OneInstr, OnOp
  <2> QED
    BY <1>3, <2>1, IssueStep DEF AskCreateInput
<1>4. CASE AskUpdateInput(c, i)
  <2>1. inRow[i] \in Status
    BY <1>4 DEF AskUpdateInput, PlaneInv, RowsTyped
  <2>2. Set("saveIn", i, inRow[i]) \in Instr
    BY <2>1, StampedInstr
  <2>3. <<Set("saveIn", i, inRow[i])>> \in Prog
    BY <2>2, OneInstr, OnOp
  <2> QED
    BY <1>4, <2>3, IssueStep DEF AskUpdateInput
<1>5. CASE AskDeleteInput(c, i)
  <2>1. <<On("removeIn", i), On("dropIn", i)>> \in Prog
    BY <1>1, TwoInstr, OnOp
  <2> QED
    BY <1>5, <2>1, IssueStep DEF AskDeleteInput
<1>6. CASE AskStartInput(c, i)
  BY <1>6, StartOnlyMade, IssueStep DEF AskStartInput
<1>7. CASE AskStopInput(c, i)
  <2>1. <<On("removeIn", i), Set("setIn", i, "stopped"), On("cascadeIn", i)>> \in Prog
    BY <1>1, <1>2, ThreeInstr, OnOp
  <2> QED
    BY <1>7, <2>1, IssueStep DEF AskStopInput
<1> QED
  BY <1>3, <1>4, <1>5, <1>6, <1>7

LEMMA AskOutputStep ==
  ASSUME PlaneInv, NEW c \in Callers, NEW o \in Outputs,
         \/ AskCreateOutput(c, o) \/ AskUpdateOutput(c, o) \/ AskDeleteOutput(c, o)
         \/ AskStartOutput(c, o) \/ AskStopOutput(c, o)
  PROVE  UNCHANGED hubVars /\ RowsTyped' /\ ProgTyped'
<1>1. /\ On("insertOut", o) \in Instr /\ On("removeOut", o) \in Instr /\ On("dropOut", o) \in Instr
      /\ On("cascadeOut", o) \in Instr
  BY PlainInstr DEF OutOps
<1>2. Set("setOut", o, "stopped") \in Instr
  BY StampedInstr DEF Status
<1>3. CASE AskCreateOutput(c, o)
  <2>1. <<On("insertOut", o)>> \in Prog
    BY <1>1, OneInstr, OnOp
  <2> QED
    BY <1>3, <2>1, IssueStep DEF AskCreateOutput
<1>4. CASE AskUpdateOutput(c, o)
  <2>1. outRow[o] \in Status
    BY <1>4 DEF AskUpdateOutput, PlaneInv, RowsTyped
  <2>2. Set("saveOut", o, outRow[o]) \in Instr
    BY <2>1, StampedInstr
  <2>3. <<Set("saveOut", o, outRow[o])>> \in Prog
    BY <2>2, OneInstr, OnOp
  <2> QED
    BY <1>4, <2>3, IssueStep DEF AskUpdateOutput
<1>5. CASE AskDeleteOutput(c, o)
  <2>1. <<On("removeOut", o), On("dropOut", o)>> \in Prog
    BY <1>1, TwoInstr, OnOp
  <2> QED
    BY <1>5, <2>1, IssueStep DEF AskDeleteOutput
<1>6. CASE AskStartOutput(c, o)
  BY <1>6, StartOnlyMade, IssueStep DEF AskStartOutput
<1>7. CASE AskStopOutput(c, o)
  <2>1. <<On("removeOut", o), Set("setOut", o, "stopped"), On("cascadeOut", o)>> \in Prog
    BY <1>1, <1>2, ThreeInstr, OnOp
  <2> QED
    BY <1>7, <2>1, IssueStep DEF AskStopOutput
<1> QED
  BY <1>3, <1>4, <1>5, <1>6, <1>7

(* The steps that leave the hub alone.                                        *)
LEMMA NeedStep ==
  ASSUME PlaneInv, NEW c \in Callers, Need(c)
  PROVE  UNCHANGED hubVars /\ RowsTyped' /\ ProgTyped'
<1>1. UNCHANGED hubVars /\ UNCHANGED rowVars
  BY DEF Need, SameHub, SameRows
<1>2. (\E op : At(c, op) /\ Continue(c)) \/ Fail(c)
  BY DEF Need
<1>3. ProgTyped'
  BY <1>2, ContinueTyped, FailTyped DEF PlaneInv
<1> QED
  BY <1>1, <1>3, SameRowsTyped DEF PlaneInv

LEMMA OrphanStep ==
  ASSUME PlaneInv, NEW c \in Callers, Orphan(c)
  PROVE  UNCHANGED hubVars /\ RowsTyped' /\ ProgTyped'
<1>1. UNCHANGED hubVars /\ UNCHANGED rowVars
  BY DEF Orphan, SameHub, SameRows
<1>2. "stopped" \in Status
  BY DEF Status
<1>3. CASE At(c, "orphanIn") /\ Become(c, <<On("removeIn", Arg(c)), Set("setIn", Arg(c), "stopped")>>)
  <2>1. Arg(c) \in Inputs
    BY <1>3, ArgTyped DEF PlaneInv, InOps
  <2>2. On("removeIn", Arg(c)) \in Instr /\ Set("setIn", Arg(c), "stopped") \in Instr
    BY <1>2, <2>1, PlainInstr, StampedInstr DEF InOps
  <2>3. <<On("removeIn", Arg(c)), Set("setIn", Arg(c), "stopped")>> \in Prog
    BY <2>2, TwoInstr, OnOp
  <2> QED
    BY <1>1, <1>3, <2>3, BecomeTyped, SameRowsTyped DEF PlaneInv
<1>4. CASE At(c, "orphanOut") /\ Become(c, <<On("removeOut", Arg(c)), Set("setOut", Arg(c), "stopped")>>)
  <2>1. Arg(c) \in Outputs
    BY <1>4, ArgTyped DEF PlaneInv, OutOps
  <2>2. On("removeOut", Arg(c)) \in Instr /\ Set("setOut", Arg(c), "stopped") \in Instr
    BY <1>2, <2>1, PlainInstr, StampedInstr DEF OutOps
  <2>3. <<On("removeOut", Arg(c)), Set("setOut", Arg(c), "stopped")>> \in Prog
    BY <2>2, TwoInstr, OnOp
  <2> QED
    BY <1>1, <1>4, <2>3, BecomeTyped, SameRowsTyped DEF PlaneInv
<1>5. CASE \E op : At(c, op) /\ Continue(c)
  BY <1>1, <1>5, ContinueTyped, SameRowsTyped DEF PlaneInv
<1> QED
  BY <1>3, <1>4, <1>5 DEF Orphan

LEMMA ExistsTyped ==
  ASSUME RowsTyped, NEW p \in PipeIds, Exists(p)
  PROVE  pipeRow[p].in \in Inputs /\ pipeRow[p].out \in Outputs
<1>1. pipeRow[p] \in Rows
  BY DEF RowsTyped, Exists
<1> QED
  BY <1>1 DEF Rows

LEMMA QueryStep ==
  ASSUME PlaneInv, NEW c \in Callers, Query(c)
  PROVE  UNCHANGED hubVars /\ RowsTyped' /\ ProgTyped'
<1>1. UNCHANGED hubVars /\ UNCHANGED rowVars
  BY DEF Query, SameHub, SameRows
<1>2. \A p \in PipeIds : Exists(p) => pipeRow[p].in \in Inputs /\ pipeRow[p].out \in Outputs
  BY ExistsTyped DEF PlaneInv
<1> DEFINE outs == {<<p, pipeRow[p].out>> : p \in {q \in PipesOf(Arg(c)) : IsRunning(q)}}
           ins == {<<p, pipeRow[p].in>> : p \in {q \in PipesTo(Arg(c)) : IsRunning(q)}}
           all == {<<p, pipeRow[p].in, pipeRow[p].out>> : p \in {q \in PipeIds : Exists(q) /\ IsRunning(q)}}
           running == {i \in Inputs : inRow[i] = "running"}
           onOuts == {o \in Outputs : outRow[o] = "running"}
<1>3. /\ outs \in SUBSET (PipeIds \X Outputs) /\ ins \in SUBSET (PipeIds \X Inputs)
      /\ all \in SUBSET Triples /\ running \in SUBSET Inputs /\ onOuts \in SUBSET Outputs
  BY <1>2 DEF PipesOf, PipesTo, Triples
<1>4. \/ At(c, "cascadeIn") /\ Become(c, <<On("eachOut", outs)>>)
      \/ At(c, "cascadeOut") /\ Become(c, <<On("eachIn", ins)>>)
      \/ At(c, "restorePipes") /\ Become(c, <<On("eachPipe", all)>>)
      \/ At(c, "restoreIns") /\ Become(c, <<On("eachInput", running)>>)
      \/ At(c, "restoreOuts") /\ Become(c, <<On("eachOutput", onOuts)>>)
  BY DEF Query
<1> HIDE DEF outs, ins, all, running, onOuts
<1>5. /\ On("eachOut", outs) \in Instr /\ On("eachIn", ins) \in Instr /\ On("eachPipe", all) \in Instr
      /\ On("eachInput", running) \in Instr /\ On("eachOutput", onOuts) \in Instr
  BY <1>3, LoopInstr
<1>6. /\ <<On("eachOut", outs)>> \in Prog /\ <<On("eachIn", ins)>> \in Prog /\ <<On("eachPipe", all)>> \in Prog
      /\ <<On("eachInput", running)>> \in Prog /\ <<On("eachOutput", onOuts)>> \in Prog
  BY <1>5, OneInstr, OnOp
<1>7. ProgTyped'
  BY <1>4, <1>6, BecomeTyped DEF PlaneInv
<1> QED
  BY <1>1, <1>7, SameRowsTyped DEF PlaneInv

(* What a loop still has to visit stays of its kind.                          *)
LEMMA BodyMade ==
  ASSUME NEW op \in Loops, NEW e,
         op = "eachOut" => e \in PipeIds \X Outputs,
         op = "eachIn" => e \in PipeIds \X Inputs,
         op = "eachPipe" => e \in Triples,
         op = "eachInput" => e \in Inputs,
         op = "eachOutput" => e \in Outputs
  PROVE  Body(op, e) \in Prog
<1>1. "stopped" \in Status
  BY DEF Status
<1>2. CASE op = "eachOut"
  <2>1. e[1] \in PipeIds /\ e[2] \in Outputs
    BY <1>2
  <2>2. Set("setPipe", e[1], "stopped") \in Instr /\ On("orphanOut", e[2]) \in Instr
    BY <1>1, <2>1, PlainInstr, StampedInstr DEF OutOps
  <2>3. <<Set("setPipe", e[1], "stopped"), On("orphanOut", e[2])>> \in Prog
    BY <2>2, TwoInstr, OnOp
  <2> QED
    BY <1>2, <2>3 DEF Body
<1>3. CASE op = "eachIn"
  <2>1. e[1] \in PipeIds /\ e[2] \in Inputs
    BY <1>3
  <2>2. Set("setPipe", e[1], "stopped") \in Instr /\ On("orphanIn", e[2]) \in Instr
    BY <1>1, <2>1, PlainInstr, StampedInstr DEF InOps
  <2>3. <<Set("setPipe", e[1], "stopped"), On("orphanIn", e[2])>> \in Prog
    BY <2>2, TwoInstr, OnOp
  <2> QED
    BY <1>3, <2>3 DEF Body
<1>4. CASE op = "eachPipe"
  <2>1. e[2] \in Inputs /\ e[3] \in Outputs /\ e \in Triples
    BY <1>4 DEF Triples
  <2>2. StartPipeProg(e[2], e[3]) \in Prog
    BY <2>1, StartPipeMade
  <2>3. On("donePipe", e) \in Instr
    BY <2>1, PlainInstr DEF PipeOps
  <2>4. <<On("donePipe", e)>> \in Prog
    BY <2>3, OneInstr, OnOp
  <2> QED
    BY <1>4, <2>2, <2>4, ProgConcat DEF Body
<1>5. CASE op = "eachInput"
  <2>1. On("doneIn", e) \in Instr
    BY <1>5, PlainInstr DEF InOps
  <2>2. <<On("doneIn", e)>> \in Prog
    BY <2>1, OneInstr, OnOp
  <2>3. StartInputProg(e) \o <<On("doneIn", e)>> \in Prog
    BY <1>5, <2>2, StartOnlyMade, ProgConcat
  <2> QED
    BY <1>5, <2>3, NoInstr DEF Body
<1>6. CASE op = "eachOutput"
  <2>1. On("doneOut", e) \in Instr
    BY <1>6, PlainInstr DEF OutOps
  <2>2. <<On("doneOut", e)>> \in Prog
    BY <2>1, OneInstr, OnOp
  <2>3. StartOutputProg(e) \o <<On("doneOut", e)>> \in Prog
    BY <1>6, <2>2, StartOnlyMade, ProgConcat
  <2> QED
    BY <1>6, <2>3, NoInstr DEF Body
<1> QED
  BY <1>2, <1>3, <1>4, <1>5, <1>6 DEF Loops

LEMMA LoopStep ==
  ASSUME PlaneInv, NEW c \in Callers, Loop(c)
  PROVE  UNCHANGED hubVars /\ RowsTyped' /\ ProgTyped'
<1>1. UNCHANGED hubVars /\ UNCHANGED rowVars
  BY DEF Loop, SameHub, SameRows
<1>2. PICK op \in Loops : /\ At(c, op)
                          /\ \/ Continue(c)
                             \/ \E e \in Arg(c) : Become(c, Body(op, e) \o <<On(op, Arg(c) \ {e})>>)
  BY DEF Loop
<1>3. CASE Continue(c)
  BY <1>1, <1>2, <1>3, ContinueTyped, SameRowsTyped DEF PlaneInv
<1>4. ASSUME NEW e \in Arg(c), Become(c, Body(op, e) \o <<On(op, Arg(c) \ {e})>>)
      PROVE  ProgTyped'
  <2> DEFINE rest == Arg(c) \ {e}
  <2>1. /\ op = "eachOut" => Arg(c) \in SUBSET (PipeIds \X Outputs)
        /\ op = "eachIn" => Arg(c) \in SUBSET (PipeIds \X Inputs)
        /\ op = "eachPipe" => Arg(c) \in SUBSET Triples
        /\ op = "eachInput" => Arg(c) \in SUBSET Inputs
        /\ op = "eachOutput" => Arg(c) \in SUBSET Outputs
    BY <1>2, ArgTyped DEF PlaneInv
  <2>2. Body(op, e) \in Prog
    BY <2>1, BodyMade
  <2>3. /\ op = "eachOut" => rest \in SUBSET (PipeIds \X Outputs)
        /\ op = "eachIn" => rest \in SUBSET (PipeIds \X Inputs)
        /\ op = "eachPipe" => rest \in SUBSET Triples
        /\ op = "eachInput" => rest \in SUBSET Inputs
        /\ op = "eachOutput" => rest \in SUBSET Outputs
    BY <2>1
  <2> HIDE DEF rest
  <2>4. On(op, rest) \in Instr
    BY <2>3, LoopInstr DEF Loops
  <2>5. <<On(op, rest)>> \in Prog
    BY <2>4, OneInstr, OnOp DEF Loops
  <2>6. Body(op, e) \o <<On(op, rest)>> \in Prog
    BY <2>2, <2>5, ProgConcat
  <2> QED
    BY <1>2, <1>4, <2>6, BecomeTyped DEF PlaneInv, rest
<1> QED
  BY <1>1, <1>2, <1>3, <1>4, SameRowsTyped DEF PlaneInv

LEMMA DoneStep ==
  ASSUME PlaneInv, NEW c \in Callers, Done(c)
  PROVE  UNCHANGED hubVars /\ RowsTyped' /\ ProgTyped'
<1>1. UNCHANGED hubVars /\ UNCHANGED rowVars
  BY DEF Done, SameHub, SameRows
<1>2. CASE At(c, "donePipe") /\ Become(c, StatusProg(Arg(c)[2], Arg(c)[3], "running"))
  <2>1. Arg(c)[2] \in Inputs /\ Arg(c)[3] \in Outputs /\ "running" \in Status
    BY <1>2, ArgTyped DEF PlaneInv, PipeOps, Status
  <2>2. StatusProg(Arg(c)[2], Arg(c)[3], "running") \in Prog
    BY <2>1, PairMade
  <2> QED
    BY <1>1, <1>2, <2>2, BecomeTyped, SameRowsTyped DEF PlaneInv
<1>3. CASE \E op : At(c, op) /\ Continue(c)
  BY <1>1, <1>3, ContinueTyped, SameRowsTyped DEF PlaneInv
<1> QED
  BY <1>2, <1>3 DEF Done

(* The steps that write rows.                                                 *)
LEMMA UpdateStatusStep ==
  ASSUME PlaneInv, NEW c \in Callers, UpdateStatus(c)
  PROVE  UNCHANGED hubVars /\ RowsTyped' /\ ProgTyped'
<1>1. UNCHANGED hubVars
  BY DEF UpdateStatus, SameHub
<1>2. PICK op \in {"setIn", "setOut", "setPipe"} : At(c, op) /\ Continue(c)
  BY DEF UpdateStatus
<1>3. ProgTyped'
  BY <1>2, ContinueTyped DEF PlaneInv
<1> DEFINE x == Arg(c)
           st == prog[c][1].st
<1>4. st \in Status
  BY <1>2, ArgTyped DEF PlaneInv
<1> HIDE DEF st
<1>5. CASE /\ UNCHANGED <<outRow, pipeRow>>
           /\ inRow' = IF inRow[x] = "none" THEN inRow ELSE [inRow EXCEPT ![x] = st]
  BY <1>1, <1>3, <1>4, <1>5 DEF PlaneInv, RowsTyped
<1>6. CASE /\ UNCHANGED <<inRow, pipeRow>>
           /\ outRow' = IF outRow[x] = "none" THEN outRow ELSE [outRow EXCEPT ![x] = st]
  BY <1>1, <1>3, <1>4, <1>6 DEF PlaneInv, RowsTyped
<1>7. CASE /\ At(c, "setPipe") /\ UNCHANGED <<inRow, outRow>>
           /\ pipeRow' = IF Exists(x) THEN [pipeRow EXCEPT ![x].st = st] ELSE pipeRow
  <2>1. x \in PipeIds
    BY <1>7, ArgTyped DEF PlaneInv
  <2>2. pipeRow \in [PipeIds -> Rows \cup {NoRow}]
    BY DEF PlaneInv, RowsTyped
  <2>3. ASSUME Exists(x) PROVE [pipeRow[x] EXCEPT !.st = st] \in Rows
    <3>1. pipeRow[x] \in Rows
      BY <2>1, <2>2, <2>3 DEF Exists
    <3> QED
      BY <1>4, <3>1 DEF Rows
  <2>4. pipeRow' = IF Exists(x) THEN [pipeRow EXCEPT ![x] = [pipeRow[x] EXCEPT !.st = st]] ELSE pipeRow
    BY <1>7
  <2> HIDE DEF x
  <2>5. pipeRow' \in [PipeIds -> Rows \cup {NoRow}]
    BY <2>1, <2>2, <2>3, <2>4
  <2> QED
    BY <1>1, <1>3, <1>7, <2>5 DEF PlaneInv, RowsTyped
<1> QED
  BY <1>5, <1>6, <1>7 DEF UpdateStatus, st

LEMMA InsertOrSaveStep ==
  ASSUME PlaneInv, NEW c \in Callers, InsertOrSave(c)
  PROVE  UNCHANGED hubVars /\ RowsTyped' /\ ProgTyped'
<1>1. UNCHANGED hubVars /\ UNCHANGED pipeRow
  BY DEF InsertOrSave, SameHub
<1>2. PICK op \in {"insertIn", "saveIn", "insertOut", "saveOut"} : At(c, op) /\ Continue(c)
  BY DEF InsertOrSave
<1>3. ProgTyped'
  BY <1>2, ContinueTyped DEF PlaneInv
<1>4. "stopped" \in Status
  BY DEF Status
<1>5. \E st \in Status : \/ inRow' = [inRow EXCEPT ![Arg(c)] = st] /\ UNCHANGED outRow
                         \/ outRow' = [outRow EXCEPT ![Arg(c)] = st] /\ UNCHANGED inRow
  <2>1. CASE At(c, "insertIn") /\ inRow' = [inRow EXCEPT ![Arg(c)] = "stopped"] /\ UNCHANGED outRow
    BY <1>4, <2>1
  <2>2. CASE At(c, "saveIn") /\ inRow' = [inRow EXCEPT ![Arg(c)] = prog[c][1].st] /\ UNCHANGED outRow
    <3>1. prog[c][1].st \in Status
      BY <2>2, ArgTyped DEF PlaneInv
    <3> QED
      BY <2>2, <3>1
  <2>3. CASE At(c, "insertOut") /\ outRow' = [outRow EXCEPT ![Arg(c)] = "stopped"] /\ UNCHANGED inRow
    BY <1>4, <2>3
  <2>4. CASE At(c, "saveOut") /\ outRow' = [outRow EXCEPT ![Arg(c)] = prog[c][1].st] /\ UNCHANGED inRow
    <3>1. prog[c][1].st \in Status
      BY <2>4, ArgTyped DEF PlaneInv
    <3> QED
      BY <2>4, <3>1
  <2> QED
    BY <2>1, <2>2, <2>3, <2>4 DEF InsertOrSave
<1>6. RowsTyped'
  BY <1>1, <1>5 DEF PlaneInv, RowsTyped
<1> QED
  BY <1>1, <1>3, <1>6

LEMMA WritePipeStep ==
  ASSUME PlaneInv, NEW c \in Callers, WritePipe(c)
  PROVE  UNCHANGED hubVars /\ RowsTyped' /\ ProgTyped'
<1>1. UNCHANGED hubVars /\ UNCHANGED <<inRow, outRow>>
  BY DEF WritePipe, SameHub
<1> DEFINE x == Arg(c)
<1>2. PICK op \in {"insertPipe", "savePipe"} : At(c, op)
  BY DEF WritePipe
<1>3. x[2] \in Inputs /\ x[3] \in Outputs
  BY <1>2, ArgTyped DEF PlaneInv, PipeOps
<1>4. \/ /\ pipeRow' = [pipeRow EXCEPT ![x[1]] = [in |-> x[2], out |-> x[3], st |-> "stopped"]]
         /\ Continue(c)
      \/ UNCHANGED pipeRow /\ Fail(c)
  BY DEF WritePipe
<1>5. ProgTyped'
  BY <1>2, <1>4, ContinueTyped, FailTyped DEF PlaneInv
<1> HIDE DEF x
<1>6. [in |-> x[2], out |-> x[3], st |-> "stopped"] \in Rows
  BY <1>3 DEF Rows, Status
<1>7. RowsTyped'
  BY <1>1, <1>4, <1>6 DEF PlaneInv, RowsTyped
<1> QED
  BY <1>1, <1>5, <1>7

LEMMA DropRowStep ==
  ASSUME PlaneInv, NEW c \in Callers, Drop(c)
  PROVE  UNCHANGED hubVars /\ RowsTyped' /\ ProgTyped'
<1>1. UNCHANGED hubVars
  BY DEF Drop, SameHub
<1>2. PICK op \in {"dropIn", "dropOut", "dropPipe"} : At(c, op) /\ Continue(c)
  BY DEF Drop
<1>3. ProgTyped'
  BY <1>2, ContinueTyped DEF PlaneInv
<1>4. RowsTyped'
  BY DEF Drop, PlaneInv, RowsTyped
<1> QED
  BY <1>1, <1>3, <1>4

(* The steps that call the hub.                                               *)
LEMMA LockedStep ==
  ASSUME NEW c \in Callers, UNCHANGED held,
         \/ \E i \in Inputs : CreateInput(i) \/ RemoveInput(i) \/ InputFound(i) \/ InputMissing(i)
         \/ \E o \in Outputs : CreateOutput(o) \/ RemoveOutput(o) \/ OutputFound(o) \/ OutputMissing(o)
         \/ \E i \in Inputs, o \in Outputs : Connect(i, o) \/ AlreadyConnected(i, o) \/ Disconnect(i, o)
         \/ UNCHANGED <<regVars, objVars>>
  PROVE  [HubNext]_hubVars
<1>1. CASE UNCHANGED <<regVars, objVars>>
  BY <1>1 DEF hubVars
<1>2. CASE LockedOp
  BY <1>2 DEF HubNext
<1> QED
  BY <1>1, <1>2 DEF LockedOp, InputFound, InputMissing, OutputFound, OutputMissing, AlreadyConnected

LEMMA CreateStep ==
  ASSUME PlaneInv, NEW c \in Callers, Create(c)
  PROVE  [HubNext]_hubVars /\ RowsTyped' /\ ProgTyped'
<1>1. UNCHANGED rowVars /\ UNCHANGED held
  BY DEF Create, SameRows
<1>2. PICK op \in {"createIn", "createOut"} : At(c, op) /\ Continue(c)
  BY DEF Create
<1>3. \/ \E i \in Inputs : CreateInput(i) \/ InputFound(i)
      \/ \E o \in Outputs : CreateOutput(o) \/ OutputFound(o)
      \/ UNCHANGED <<regVars, objVars>>
  <2>1. At(c, "createIn") => Arg(c) \in Inputs
    BY ArgTyped DEF PlaneInv, InOps
  <2>2. At(c, "createOut") => Arg(c) \in Outputs
    BY ArgTyped DEF PlaneInv, OutOps
  <2> QED
    BY <2>1, <2>2 DEF Create, CreateFails
<1>4. [HubNext]_hubVars
  BY <1>1, <1>3, LockedStep
<1> QED
  BY <1>1, <1>2, <1>4, ContinueTyped, SameRowsTyped DEF PlaneInv

LEMMA ConnectPipeStep ==
  ASSUME PlaneInv, NEW c \in Callers, ConnectPipe(c)
  PROVE  [HubNext]_hubVars /\ RowsTyped' /\ ProgTyped'
<1>1. UNCHANGED rowVars /\ UNCHANGED held /\ At(c, "connect")
  BY DEF ConnectPipe, SameRows
<1>2. Arg(c)[1] \in Inputs /\ Arg(c)[2] \in Outputs
  BY <1>1, ArgTyped DEF PlaneInv, KeyOps
<1>3. \/ \E i \in Inputs, o \in Outputs : Connect(i, o) \/ AlreadyConnected(i, o)
      \/ UNCHANGED <<regVars, objVars>>
  BY <1>2 DEF ConnectPipe
<1>4. [HubNext]_hubVars
  BY <1>1, <1>3, LockedStep
<1>5. Continue(c) \/ Fail(c)
  BY DEF ConnectPipe
<1> QED
  BY <1>1, <1>4, <1>5, ContinueTyped, FailTyped, SameRowsTyped DEF PlaneInv

LEMMA RemoveCallStep ==
  ASSUME PlaneInv, NEW c \in Callers, Remove(c)
  PROVE  [HubNext]_hubVars /\ RowsTyped' /\ ProgTyped'
<1>1. UNCHANGED rowVars /\ UNCHANGED held
  BY DEF Remove, SameRows
<1>2. PICK op \in {"disconnect", "removeIn", "removeOut"} : At(c, op) /\ Continue(c)
  BY DEF Remove
<1>3. \/ \E i \in Inputs : RemoveInput(i) \/ InputMissing(i)
      \/ \E o \in Outputs : RemoveOutput(o) \/ OutputMissing(o)
      \/ \E i \in Inputs, o \in Outputs : Disconnect(i, o)
  <2>1. At(c, "disconnect") => Arg(c)[1] \in Inputs /\ Arg(c)[2] \in Outputs
    BY ArgTyped DEF PlaneInv, KeyOps
  <2>2. At(c, "removeIn") => Arg(c) \in Inputs
    BY ArgTyped DEF PlaneInv, InOps
  <2>3. At(c, "removeOut") => Arg(c) \in Outputs
    BY ArgTyped DEF PlaneInv, OutOps
  <2> QED
    BY <2>1, <2>2, <2>3 DEF Remove
<1>4. [HubNext]_hubVars
  BY <1>1, <1>3, LockedStep
<1> QED
  BY <1>1, <1>2, <1>4, ContinueTyped, SameRowsTyped DEF PlaneInv

LEMMA CallerStep ==
  ASSUME NEW c \in Callers, OpenOp(c) \/ FindOp(c) \/ RunOp(c)
  PROVE  [HubNext]_hubVars
  BY DEF HubNext

LEMMA FindCallStep ==
  ASSUME PlaneInv, NEW c \in Callers, Find(c)
  PROVE  [HubNext]_hubVars /\ RowsTyped' /\ ProgTyped'
<1>1. UNCHANGED rowVars
  BY DEF Find, SameRows
<1>2. FindOp(c) \/ UNCHANGED hubVars
  <2>1. At(c, "findPipe") => Arg(c)[1] \in Inputs /\ Arg(c)[2] \in Outputs
    BY ArgTyped DEF PlaneInv, KeyOps
  <2>2. At(c, "findIn") => Arg(c) \in Inputs
    BY ArgTyped DEF PlaneInv, InOps
  <2>3. At(c, "findOut") => Arg(c) \in Outputs
    BY ArgTyped DEF PlaneInv, OutOps
  <2> QED
    BY <2>1, <2>2, <2>3 DEF Find, FindOp, SameHub
<1>3. \/ \E op : At(c, op) /\ Continue(c)
      \/ Fail(c)
      \/ \E op \in {"findIn", "findOut"} : At(c, op) /\ SkipNext(c)
  BY DEF Find
<1>4. ProgTyped'
  BY <1>3, ContinueTyped, FailTyped, SkipTyped DEF PlaneInv
<1> QED
  BY <1>1, <1>2, <1>4, CallerStep, SameRowsTyped DEF PlaneInv

LEMMA OpenCallStep ==
  ASSUME PlaneInv, NEW c \in Callers, Open(c)
  PROVE  [HubNext]_hubVars /\ RowsTyped' /\ ProgTyped'
<1>1. UNCHANGED rowVars
  BY DEF Open, SameRows
<1>2. OpenOp(c) \/ UNCHANGED hubVars
  <2>1. At(c, "openIn") => Arg(c) \in Inputs
    BY ArgTyped DEF PlaneInv, InOps
  <2>2. At(c, "openOut") => Arg(c) \in Outputs
    BY ArgTyped DEF PlaneInv, OutOps
  <2> QED
    BY <2>1, <2>2 DEF Open, OpenOp, CreateFails, hubVars
<1>3. (\E op : At(c, op) /\ Continue(c)) \/ Fail(c)
  BY DEF Open
<1>4. ProgTyped'
  BY <1>3, ContinueTyped, FailTyped DEF PlaneInv
<1> QED
  BY <1>1, <1>2, <1>4, CallerStep, SameRowsTyped DEF PlaneInv

LEMMA RunCallStep ==
  ASSUME PlaneInv, NEW c \in Callers, Run(c) \/ RequestPanics(c)
  PROVE  [HubNext]_hubVars /\ RowsTyped' /\ ProgTyped'
<1>1. UNCHANGED rowVars
  BY DEF Run, RequestPanics, SameRows
<1>2. RunOp(c)
  BY DEF Run, RequestPanics, StartPipe, RunOp
<1>3. (\E op : At(c, op) /\ Continue(c)) \/ Fail(c) \/ prog' = [prog EXCEPT ![c] = <<>>]
  BY DEF Run, RequestPanics, StartPipe
<1>4. ProgTyped'
  <2>1. CASE prog' = [prog EXCEPT ![c] = <<>>]
    BY <2>1, NoInstr DEF PlaneInv, ProgTyped
  <2> QED
    BY <1>3, <2>1, ContinueTyped, FailTyped DEF PlaneInv
<1> QED
  BY <1>1, <1>2, <1>4, CallerStep, SameRowsTyped DEF PlaneInv

LEMMA ExecStep ==
  ASSUME PlaneInv, NEW c \in Callers, Exec(c)
  PROVE  [HubNext]_hubVars /\ RowsTyped' /\ ProgTyped'
  BY NeedStep, OrphanStep, QueryStep, LoopStep, DoneStep, UpdateStatusStep, InsertOrSaveStep,
     WritePipeStep, DropRowStep, CreateStep, ConnectPipeStep, RemoveCallStep, FindCallStep,
     OpenCallStep, RunCallStep
  DEF Exec

LEMMA RebootStep ==
  ASSUME PlaneInv, Reboot
  PROVE  [HubNext]_hubVars /\ RowsTyped' /\ ProgTyped'
<1>1. UNCHANGED rowVars /\ Restart
  BY DEF Reboot
<1>2. ProgTyped'
  BY RestoreMade, NoInstr DEF Reboot, ProgTyped
<1> QED
  BY <1>1, <1>2, SameRowsTyped DEF PlaneInv, HubNext

LEMMA NextPlane ==
  ASSUME PlaneInv, [Next]_vars
  PROVE  PlaneInv' /\ [HubNext]_hubVars
<1>1. [HubNext]_hubVars /\ RowsTyped' /\ ProgTyped'
  <2>1. ASSUME NEW c \in Clients, Ask(c) PROVE UNCHANGED hubVars /\ RowsTyped' /\ ProgTyped'
    <3>1. c \in Callers
      BY PlaneAssumption
    <3> QED
      BY <2>1, <3>1, AskPipeStep, AskInputStep, AskOutputStep DEF Ask
  <2>2. ASSUME NEW c \in Callers, Exec(c) PROVE [HubNext]_hubVars /\ RowsTyped' /\ ProgTyped'
    BY <2>2, ExecStep
  <2>3. CASE Crash \/ RestorePanics
    BY <2>3, RebootStep DEF Crash, RestorePanics
  <2>4. CASE UNCHANGED vars
    <3>1. UNCHANGED <<hubVars, rowVars, prog>>
      BY <2>4 DEF vars
    <3> QED
      BY <3>1, SameRowsTyped DEF PlaneInv, ProgTyped
  <2> QED
    BY <2>1, <2>2, <2>3, <2>4 DEF Next
<1>2. HubInv'
  BY <1>1, NextHub DEF PlaneInv
<1> QED
  BY <1>1, <1>2 DEF PlaneInv

LEMMA InitPlane == Init => PlaneInv
<1> SUFFICES ASSUME Init PROVE PlaneInv
  OBVIOUS
<1>1. HubInv
  BY InitHub DEF Init
<1>2. pipeRow \in [PipeIds -> [in : Inputs, out : Outputs, st : {"stopped"}] \cup {NoRow}]
  BY DEF Init
<1>3. [in : Inputs, out : Outputs, st : {"stopped"}] \subseteq Rows
  BY DEF Rows, Status
<1>4. RowsTyped
  BY <1>2, <1>3 DEF Init, RowsTyped, Status
<1>5. ProgTyped
  BY NoInstr DEF Init, ProgTyped
<1> QED
  BY <1>1, <1>4, <1>5 DEF PlaneInv

(* Rows, programs and the hub are well-formed in every reachable state: in    *)
(* particular a look-up in the hub is always followed by the start it serves. *)
THEOREM PlaneTypeCorrect == Spec => []PlaneTypeOK
<1>1. PlaneInv => PlaneTypeOK
  BY DEF PlaneInv, PlaneTypeOK, HubInv
<1> QED
  BY InitPlane, NextPlane, <1>1, PTL DEF Spec

(* The service layer uses the hub as the hub's own specification allows, so   *)
(* everything proved of the hub holds below the services: whatever requests   *)
(* and Restore do, in any order, and whichever calls fail.                    *)
THEOREM ImplementsHub == Spec => HubSpec
<1>1. Init => HubInit
  BY DEF Init
<1> QED
  BY InitPlane, NextPlane, <1>1, PTL DEF Spec, HubSpec

(* The registries of the hub agree under every use the services make of it,   *)
(* through crashes, panics and restarts.                                      *)
THEOREM ServicesKeepRegistries == Spec => []HubConsistent
  BY ImplementsHub, RegistriesAgree, PTL

-----------------------------------------------------------------------------
(***************************************************************************)
(* Restore makes rows and engine agree again, for any numbers of inputs,     *)
(* outputs and pipes and whatever the rows say.  BootInv holds whichever     *)
(* calls of the hub fail; that the rows of inputs and outputs are right too  *)
(* needs sources and sinks that start when told to (InTold, OutTold):        *)
(* startPipe only logs it when one does not.                                 *)
(***************************************************************************)

\* What is left of w and then rest, from the k-th instruction of w on.
After(w, rest, k) == SubSeq(w \o rest, k, Len(w \o rest))

\* The straight runs of instructions Restore goes through.
PipeItem(e) == StartPipeProg(e[2], e[3]) \o <<On("donePipe", e)>>
Recorded(e) == StatusProg(e[2], e[3], "running")
Rescued(e) == <<Set("setPipe", e[1], "stopped")>> \o OrphanProg(e[2], e[3])
DropIn(i) == <<On("removeIn", i), Set("setIn", i, "stopped")>>
DropOut(o) == <<On("removeOut", o), Set("setOut", o, "stopped")>>
InItem(i) == StartInputProg(i) \o <<On("doneIn", i)>>
OutItem(o) == StartOutputProg(o) \o <<On("doneOut", o)>>

\* What follows them.
PipesLeft(X) == <<On("eachPipe", X), On("restoreIns", 0), On("restoreOuts", 0)>>
InsLeft(X) == <<On("eachInput", X), On("restoreOuts", 0)>>
OutsLeft(X) == <<On("eachOutput", X)>>

-----------------------------------------------------------------------------
(* No two rows have the same input and output: the unique index.              *)
PairUnique ==
  \A p, q \in PipeIds : Exists(p) /\ Exists(q) /\ pipeRow[p].in = pipeRow[q].in
                          /\ pipeRow[p].out = pipeRow[q].out => p = q

Key(p) == <<pipeRow[p].in, pipeRow[p].out>>
InOn(i) == sources[i] \in srcOn
OutOn(o) == sinks[o] \in snkOn
PipeOn(i, o) == pipes[<<i, o>>] # 0 /\ pstate[pipes[<<i, o>>]] = "running"

(* startPipe only logs that a source or a sink does not start: it may not run *)
(* although its row says so where starts can fail.                            *)
InTold(i) == InOn(i) \/ "src" \in Faults
OutTold(o) == OutOn(o) \/ "snk" \in Faults

(* Nothing runs outside the registry, and no pipe runs without a row.         *)
NothingLoose ==
  /\ \A s \in srcOn : \E i \in Inputs : sources[i] = s
  /\ \A s \in snkOn : \E o \in Outputs : sinks[o] = s
  /\ \A x \in Objs : pstate[x] \notin {"stuck", "revived"}
  /\ \A x \in Objs : pstate[x] = "running" =>
        \E p \in PipeIds : Exists(p) /\ IsRunning(p) /\ pipes[Key(p)] = x

(* Y: the pipes whose rows say running and that are still to be started.      *)
Pending(Y) == \A e \in Y : Exists(e[1]) /\ pipeRow[e[1]] = [in |-> e[2], out |-> e[3], st |-> "running"]

(* Every other pipe whose row says running runs, between two that run and     *)
(* whose rows say so.                                                         *)
Settled(Y) ==
  \A p \in PipeIds : Exists(p) /\ IsRunning(p) /\ (\A e \in Y : e[1] # p) =>
     /\ PipeOn(pipeRow[p].in, pipeRow[p].out)
     /\ InTold(pipeRow[p].in) /\ inRow[pipeRow[p].in] = "running"
     /\ OutTold(pipeRow[p].out) /\ outRow[pipeRow[p].out] = "running"

(* What runs has a row that says so, or a pipe still to be started will see   *)
(* to it; except for I and O.                                                 *)
Accounted(Y, I, O) ==
  /\ \A i \in Inputs \ I : InOn(i) => inRow[i] = "running" \/ \E e \in Y : e[2] = i
  /\ \A o \in Outputs \ O : OutOn(o) => outRow[o] = "running" \/ \E e \in Y : e[3] = o

Sound(Y, I, O) == NothingLoose /\ Pending(Y) /\ Settled(Y) /\ Accounted(Y, I, O)

NotYet(X) == \A e \in X : ~PipeOn(e[2], e[3])

\* Inputs and outputs whose rows say running do, except for X.
InsOn(X) == \A i \in Inputs \ X : inRow[i] = "running" => InTold(i)
OutsOn(X) == \A o \in Outputs \ X : outRow[o] = "running" => OutTold(o)

-----------------------------------------------------------------------------
(* Where Restore is, and what holds there.                                    *)
BootProg == prog[Boot]

AtStart ==
  /\ BootProg = RestoreProg
  /\ srcOn = {} /\ snkOn = {} /\ \A x \in Objs : pstate[x] = "new"
  /\ \A k \in Keys : pipes[k] = 0

BetweenPipes(X) == BootProg = PipesLeft(X) /\ Sound(X, {}, {}) /\ NotYet(X)

\* Before the k-th instruction of startPipe for e.
ItemFacts(k, i, o) ==
  /\ k <= 11 => ~PipeOn(i, o)
  /\ k >= 2 => inRow[i] # "none"
  /\ k >= 3 => outRow[o] # "none"
  /\ k >= 6 => pipes[<<i, o>>] # 0
  /\ k = 7 => held[Boot] = <<"snk", sinks[o]>>
  /\ k >= 8 => OutTold(o)
  /\ k = 9 => held[Boot] = <<"src", sources[i]>>
  /\ k >= 10 => InTold(i)
  /\ k = 11 => held[Boot] = <<"pipe", pipes[<<i, o>>]>>
  /\ k >= 12 => PipeOn(i, o)

Starting(X, e, k) ==
  /\ BootProg = After(PipeItem(e), PipesLeft(X), k)
  /\ Sound(X \cup {e}, {}, {}) /\ NotYet(X) /\ e \notin X
  /\ ItemFacts(k, e[2], e[3])

\* After it, the rows of its input (k = 1) and of its output are set.
Recording(X, e, k) ==
  /\ BootProg = After(Recorded(e), PipesLeft(X), k)
  /\ Sound(X \cup {e}, {}, {}) /\ NotYet(X) /\ e \notin X
  /\ ItemFacts(12, e[2], e[3])
  /\ k = 2 => inRow[e[2]] = "running"

\* After a failure: the row of the pipe (k = 1), then its input (k = 2) and its
\* output (k = 3), unless other pipes use them.
Rescuing(X, e, k) ==
  /\ BootProg = After(Rescued(e), PipesLeft(X), k)
  /\ NotYet(X) /\ e \notin X
  /\ k = 1 => Sound(X \cup {e}, {}, {}) /\ ~PipeOn(e[2], e[3])
  /\ k = 2 => Sound(X, {e[2]}, {e[3]})
  /\ k = 3 => Sound(X, {}, {e[3]})

DroppingIn(X, e, k) ==
  /\ BootProg = After(DropIn(e[2]), After(Rescued(e), PipesLeft(X), 3), k)
  /\ NotYet(X) /\ e \notin X /\ Sound(X, {e[2]}, {e[3]}) /\ ~InUse(e[2])
  /\ k = 2 => sources[e[2]] = 0

DroppingOut(X, e, k) ==
  /\ BootProg = After(DropOut(e[3]), PipesLeft(X), k)
  /\ NotYet(X) /\ e \notin X /\ Sound(X, {}, {e[3]}) /\ ~OutInUse(e[3])
  /\ k = 2 => sinks[e[3]] = 0

PipesPhase ==
  \E X \in SUBSET Triples :
    \/ BetweenPipes(X)
    \/ \E e \in Triples :
         \/ \E k \in 1 .. 12 : Starting(X, e, k)
         \/ \E k \in 1 .. 2 : Recording(X, e, k)
         \/ \E k \in 1 .. 3 : Rescuing(X, e, k)
         \/ \E k \in 1 .. 2 : DroppingIn(X, e, k) \/ DroppingOut(X, e, k)

PipesDone == BootProg = <<On("restoreIns", 0), On("restoreOuts", 0)>> /\ Sound({}, {}, {})

BetweenIns(X) == BootProg = InsLeft(X) /\ Sound({}, {}, {}) /\ InsOn(X)

StartingIn(X, i, k) ==
  /\ BootProg = After(InItem(i), InsLeft(X), k)
  /\ Sound({}, IF k = 4 THEN {i} ELSE {}, {}) /\ ~InUse(i)
  /\ InsOn(X \cup {i})
  /\ k \in 2 .. 4 => inRow[i] # "none"
  /\ k = 3 => sources[i] # 0 /\ held[Boot] = <<"src", sources[i]>>
  /\ k >= 4 => InOn(i)

FailingIn(X, i) ==
  /\ BootProg = After(<<Set("setIn", i, "stopped")>>, InsLeft(X), 1)
  /\ Sound({}, {}, {}) /\ ~InUse(i) /\ InsOn(X \cup {i}) /\ ~InOn(i)

InsPhase ==
  \E X \in SUBSET Inputs :
    \/ BetweenIns(X)
    \/ \E i \in Inputs : FailingIn(X, i) \/ \E k \in 1 .. 5 : StartingIn(X, i, k)

InsDone == BootProg = <<On("restoreOuts", 0)>> /\ Sound({}, {}, {}) /\ InsOn({})

BetweenOuts(X) == BootProg = OutsLeft(X) /\ Sound({}, {}, {}) /\ InsOn({}) /\ OutsOn(X)

StartingOut(X, o, k) ==
  /\ BootProg = After(OutItem(o), OutsLeft(X), k)
  /\ Sound({}, {}, IF k = 4 THEN {o} ELSE {}) /\ ~OutInUse(o) /\ InsOn({})
  /\ OutsOn(X \cup {o})
  /\ k \in 2 .. 4 => outRow[o] # "none"
  /\ k = 3 => sinks[o] # 0 /\ held[Boot] = <<"snk", sinks[o]>>
  /\ k >= 4 => OutOn(o)

FailingOut(X, o) ==
  /\ BootProg = After(<<Set("setOut", o, "stopped")>>, OutsLeft(X), 1)
  /\ Sound({}, {}, {}) /\ ~OutInUse(o) /\ InsOn({}) /\ OutsOn(X \cup {o}) /\ ~OutOn(o)

OutsPhase ==
  \E X \in SUBSET Outputs :
    \/ BetweenOuts(X)
    \/ \E o \in Outputs : FailingOut(X, o) \/ \E k \in 1 .. 5 : StartingOut(X, o, k)

Agreed == BootProg = <<>> /\ Sound({}, {}, {}) /\ InsOn({}) /\ OutsOn({})

BootInv == AtStart \/ PipesPhase \/ PipesDone \/ InsPhase \/ InsDone \/ OutsPhase \/ Agreed

(* While nothing but Restore has run since the process started.               *)
HealInv ==
  /\ PairUnique
  /\ ~late => (\A c \in Callers \ {Boot} : Idle(c)) /\ BootInv

-----------------------------------------------------------------------------
(* Remaining programs, instruction by instruction.                           *)
LEMMA AfterParts ==
  ASSUME NEW w \in Seq(Instr), NEW rest \in Seq(Instr), NEW k \in 1 .. Len(w)
  PROVE  /\ After(w, rest, k) # <<>>
         /\ After(w, rest, k)[1] = w[k]
         /\ Tail(After(w, rest, k)) = After(w, rest, k + 1)
         /\ After(w, rest, k) \in Seq(Instr)
<1> DEFINE q == w \o rest
           n == Len(q)
<1>1. Len(w) \in Nat /\ Len(rest) \in Nat /\ q \in Seq(Instr) /\ n = Len(w) + Len(rest)
  BY LenProperties, ConcatProperties
<1>2. k \in 1 .. n /\ n \in k .. n /\ n \in Nat
  BY <1>1
<1>3. q[k] = w[k]
  BY <1>1, ConcatProperties
<1> HIDE DEF q
<1>4. Head(SubSeq(q, k, n)) = q[k] /\ Tail(SubSeq(q, k, n)) = SubSeq(q, k + 1, n)
  BY <1>1, <1>2, HeadTailOfSubSeq
<1>5. \A j \in k .. n : q[j] \in Instr
  BY <1>1, <1>2, ElementOfSeq
<1>6. SubSeq(q, k, n) \in Seq(Instr) /\ Len(SubSeq(q, k, n)) = n - k + 1
  BY <1>2, <1>5, SubSeqProperties
<1>7. SubSeq(q, k, n)[1] = q[k]
  <2>1. 1 \in 1 .. n - k + 1 /\ k + 1 - 1 = k
    BY <1>2
  <2> QED
    BY <1>2, <1>5, <2>1, SubSeqProperties
<1>8. SubSeq(q, k, n) # <<>>
  <2>1. PICK r : r = SubSeq(q, k, n)
    OBVIOUS
  <2>2. Len(r) # 0
    BY <1>2, <1>6, <2>1
  <2> QED
    BY <2>1, <2>2
<1> QED
  BY <1>3, <1>4, <1>6, <1>7, <1>8 DEF After, q

LEMMA AfterEnds ==
  ASSUME NEW w \in Seq(Instr), NEW rest \in Seq(Instr)
  PROVE  /\ w # <<>> => After(w, rest, 1) = w \o rest
         /\ After(w, rest, Len(w) + 1) = rest
<1> DEFINE q == w \o rest
           n == Len(q)
<1>1. /\ Len(w) \in Nat /\ Len(rest) \in Nat /\ q \in Seq(Instr) /\ n = Len(w) + Len(rest)
      /\ \A j \in 1 .. Len(w) + Len(rest) : q[j] = IF j <= Len(w) THEN w[j] ELSE rest[j - Len(w)]
  BY LenProperties, ConcatProperties
<1> HIDE DEF q
<1>2. \A m \in 1 .. n + 1 : /\ SubSeq(q, m, n) \in Seq(Instr)
                            /\ Len(SubSeq(q, m, n)) = n - m + 1
                            /\ \A j \in 1 .. n - m + 1 : SubSeq(q, m, n)[j] = q[m + j - 1]
  <2>1. TAKE m \in 1 .. n + 1
  <2>2. \A j \in m .. n : q[j] \in Instr
    BY <1>1, ElementOfSeq
  <2>3. m \in Int /\ n \in Int
    BY <1>1
  <2>4. /\ SubSeq(q, m, n) \in Seq(Instr)
        /\ Len(SubSeq(q, m, n)) = IF m <= n THEN n - m + 1 ELSE 0
        /\ \A j \in 1 .. n - m + 1 : SubSeq(q, m, n)[j] = q[m + j - 1]
    BY <2>2, <2>3, SubSeqProperties
  <2>5. (IF m <= n THEN n - m + 1 ELSE 0) = n - m + 1
    BY <1>1
  <2> QED
    BY <2>4, <2>5
<1>3. SubSeq(q, 1, n) = q
  <2>1. 1 \in 1 .. n + 1
    BY <1>1
  <2>2. Len(SubSeq(q, 1, n)) = n /\ SubSeq(q, 1, n) \in Seq(Instr)
    BY <1>1, <1>2, <2>1
  <2>3. \A j \in 1 .. n : SubSeq(q, 1, n)[j] = q[j]
    BY <1>1, <1>2, <2>1
  <2> QED
    BY <1>1, <2>2, <2>3, SeqEqual
<1>4. SubSeq(q, Len(w) + 1, n) = rest
  <2>1. Len(w) + 1 \in 1 .. n + 1
    BY <1>1
  <2>2. Len(SubSeq(q, Len(w) + 1, n)) = Len(rest) /\ SubSeq(q, Len(w) + 1, n) \in Seq(Instr)
    BY <1>1, <1>2, <2>1
  <2>3. \A j \in 1 .. Len(rest) : SubSeq(q, Len(w) + 1, n)[j] = rest[j]
    <3>1. TAKE j \in 1 .. Len(rest)
    <3>2. SubSeq(q, Len(w) + 1, n)[j] = q[Len(w) + j]
      BY <1>1, <1>2, <2>1
    <3> QED
      BY <1>1, <3>2
  <2> QED
    BY <2>2, <2>3, SeqEqual
<1> QED
  BY <1>3, <1>4 DEF After, q

(* An error goes on behind the next mark.                                     *)
LEMMA UnwindTo ==
  ASSUME NEW q \in Seq(Instr), NEW m \in 1 .. Len(q), q[m].op \in Catches,
         \A j \in 1 .. m - 1 : q[j].op \notin Catches
  PROVE  Unwind(q) = Rescue(q[m]) \o SubSeq(q, m + 1, Len(q))
<1> DEFINE marks == {k \in DOMAIN q : q[k].op \in Catches}
           first == CHOOSE k \in marks : \A j \in marks : k <= j
<1>1. DOMAIN q = 1 .. Len(q) /\ Len(q) \in Nat
  BY LenProperties
<1>2. m \in marks /\ marks \subseteq Nat
  BY <1>1
<1>3. \A j \in marks : m <= j
  BY <1>1
<1>4. first \in marks /\ \A j \in marks : first <= j
  BY <1>2, <1>3
<1>5. first = m
  BY <1>2, <1>3, <1>4
<1> QED
  BY <1>2, <1>5 DEF Unwind

LEMMA AfterUnwinds ==
  ASSUME NEW w \in Seq(Instr), NEW rest \in Seq(Instr), NEW k \in 1 .. Len(w),
         w[Len(w)].op \in Catches, \A j \in k .. Len(w) - 1 : w[j].op \notin Catches
  PROVE  Unwind(After(w, rest, k)) = Rescue(w[Len(w)]) \o rest
<1> DEFINE s == w \o rest
           n == Len(s)
           m == Len(w) - k + 1
<1>1. /\ Len(w) \in Nat /\ Len(rest) \in Nat /\ s \in Seq(Instr) /\ n = Len(w) + Len(rest)
      /\ \A j \in 1 .. Len(w) : s[j] = w[j]
  BY LenProperties, ConcatProperties
<1> HIDE DEF s
<1>2. \A j \in k .. n : s[j] \in Instr
  BY <1>1, ElementOfSeq
<1>3. PICK q : q = SubSeq(s, k, n)
  OBVIOUS
<1>4. /\ q \in Seq(Instr) /\ Len(q) = n - k + 1
      /\ \A j \in 1 .. n - k + 1 : q[j] = s[k + j - 1]
  <2>1. k \in Int /\ n \in Int /\ k <= n
    BY <1>1
  <2> QED
    BY <1>2, <1>3, <2>1, SubSeqProperties
<1>5. m \in 1 .. Len(q) /\ Len(q) \in Nat /\ m \in Nat
  BY <1>1, <1>4
<1>6. q[m] = w[Len(w)]
  <2>1. m \in 1 .. n - k + 1 /\ k + m - 1 = Len(w) /\ Len(w) \in 1 .. Len(w)
    BY <1>1
  <2>2. q[m] = s[Len(w)]
    BY <1>4, <2>1
  <2> QED
    BY <1>1, <2>1, <2>2
<1>7. \A j \in 1 .. m - 1 : q[j].op \notin Catches
  <2>1. TAKE j \in 1 .. m - 1
  <2>2. q[j] = s[k + j - 1] /\ k + j - 1 \in k .. Len(w) - 1 /\ k + j - 1 \in 1 .. Len(w)
    BY <1>1, <1>4
  <2> QED
    BY <1>1, <2>2
<1>8. SubSeq(q, m + 1, Len(q)) = rest
  <2>1. \A j \in m + 1 .. Len(q) : q[j] \in Instr
    BY <1>4, <1>5, ElementOfSeq
  <2>2. /\ SubSeq(q, m + 1, Len(q)) \in Seq(Instr)
        /\ Len(SubSeq(q, m + 1, Len(q))) = IF m + 1 <= Len(q) THEN Len(q) - m ELSE 0
        /\ \A j \in 1 .. Len(q) - m : SubSeq(q, m + 1, Len(q))[j] = q[m + j]
    <3>1. m + 1 \in Int /\ Len(q) \in Int /\ Len(q) - (m + 1) + 1 = Len(q) - m
      BY <1>5
    <3>2. \A j \in 1 .. Len(q) - m : m + 1 + j - 1 = m + j
      BY <1>5
    <3> QED
      BY <2>1, <3>1, <3>2, SubSeqProperties
  <2>3. Len(q) - m = Len(rest)
    BY <1>1, <1>4
  <2>4. \A j \in 1 .. Len(rest) : q[m + j] = rest[j]
    <3>1. TAKE j \in 1 .. Len(rest)
    <3>2. m + j \in 1 .. n - k + 1 /\ k + (m + j) - 1 = Len(w) + j
      BY <1>1
    <3>3. q[m + j] = s[Len(w) + j]
      BY <1>4, <3>2
    <3>4. s[Len(w) + j] = rest[j]
      <4>1. Len(w) + j \in 1 .. Len(w) + Len(rest) /\ ~(Len(w) + j <= Len(w)) /\ (Len(w) + j) - Len(w) = j
        BY <1>1
      <4> QED
        BY <4>1, ConcatProperties DEF s
    <3> QED
      BY <3>3, <3>4
  <2>5. Len(SubSeq(q, m + 1, Len(q))) = Len(rest)
    BY <1>1, <1>5, <2>2, <2>3
  <2>6. \A j \in 1 .. Len(rest) : SubSeq(q, m + 1, Len(q))[j] = rest[j]
    BY <2>2, <2>3, <2>4
  <2> QED
    BY <2>2, <2>5, <2>6, SeqEqual
<1>9. Unwind(q) = Rescue(q[m]) \o SubSeq(q, m + 1, Len(q))
  BY <1>4, <1>5, <1>6, <1>7, UnwindTo
<1> QED
  BY <1>3, <1>6, <1>8, <1>9 DEF After, s

-----------------------------------------------------------------------------
(* What an instruction does, read off its name.                              *)
Still == SameHub /\ SameRows

LEMMA ReadsDo ==
  ASSUME NEW c \in Callers, Exec(c)
  PROVE  /\ At(c, "needIn") => /\ Still
                               /\ inRow[Arg(c)] # "none" => Continue(c)
                               /\ inRow[Arg(c)] = "none" => Fail(c)
         /\ At(c, "needOut") => /\ Still
                                /\ outRow[Arg(c)] # "none" => Continue(c)
                                /\ outRow[Arg(c)] = "none" => Fail(c)
         /\ At(c, "orphanIn") =>
              /\ Still
              /\ InUse(Arg(c)) => Continue(c)
              /\ ~InUse(Arg(c)) => Become(c, DropIn(Arg(c)))
         /\ At(c, "orphanOut") =>
              /\ Still
              /\ OutInUse(Arg(c)) => Continue(c)
              /\ ~OutInUse(Arg(c)) => Become(c, DropOut(Arg(c)))
<1> USE DEF At, Exec, Need, Orphan, Query, Loop, Loops, Done, UpdateStatus, InsertOrSave, WritePipe, Drop,
            Create, ConnectPipe, Remove, Find, Open, Run, StartPipe, RequestPanics, DropIn, DropOut, Still
<1>1. At(c, "needIn") => Need(c) /\ ~At(c, "needOut") /\ ~At(c, "checkPair") /\ ~At(c, "checkOut")
  OBVIOUS
<1>2. At(c, "needOut") => Need(c) /\ ~At(c, "needIn") /\ ~At(c, "checkPair") /\ ~At(c, "checkOut")
  OBVIOUS
<1>3. At(c, "orphanIn") => Orphan(c) /\ ~At(c, "orphanOut")
  OBVIOUS
<1>4. At(c, "orphanOut") => Orphan(c) /\ ~At(c, "orphanIn")
  OBVIOUS
<1> HIDE DEF At, Exec
<1> QED
  BY <1>1, <1>2, <1>3, <1>4

LEMMA LoopsDo ==
  ASSUME NEW c \in Callers, Exec(c)
  PROVE  /\ At(c, "restorePipes") =>
              /\ Still
              /\ Become(c, <<On("eachPipe", {<<p, pipeRow[p].in, pipeRow[p].out>> :
                                              p \in {q \in PipeIds : Exists(q) /\ IsRunning(q)}})>>)
         /\ At(c, "restoreIns") =>
              Still /\ Become(c, <<On("eachInput", {i \in Inputs : inRow[i] = "running"})>>)
         /\ At(c, "restoreOuts") =>
              Still /\ Become(c, <<On("eachOutput", {o \in Outputs : outRow[o] = "running"})>>)
         /\ \A op \in Loops : At(c, op) =>
              /\ Still
              /\ \/ Arg(c) = {} /\ Continue(c)
                 \/ \E e \in Arg(c) : Become(c, Body(op, e) \o <<On(op, Arg(c) \ {e})>>)
         /\ At(c, "donePipe") => Still /\ Become(c, StatusProg(Arg(c)[2], Arg(c)[3], "running"))
         /\ At(c, "doneIn") \/ At(c, "doneOut") => Still /\ Continue(c)
<1> USE DEF At, Exec, Need, Orphan, Query, Loop, Loops, Done, UpdateStatus, InsertOrSave, WritePipe, Drop,
            Create, ConnectPipe, Remove, Find, Open, Run, StartPipe, RequestPanics, Still
<1>1. At(c, "restorePipes") => Query(c) /\ \A op : At(c, op) => op = "restorePipes"
  OBVIOUS
<1>2. At(c, "restoreIns") => Query(c) /\ \A op : At(c, op) => op = "restoreIns"
  OBVIOUS
<1>3. At(c, "restoreOuts") => Query(c) /\ \A op : At(c, op) => op = "restoreOuts"
  OBVIOUS
<1>4. \A op \in Loops : At(c, op) => Loop(c) /\ \A oq : At(c, oq) => oq = op
  OBVIOUS
<1>5. At(c, "donePipe") => Done(c) /\ \A op : At(c, op) => op = "donePipe"
  OBVIOUS
<1>6. At(c, "doneIn") \/ At(c, "doneOut") => Done(c) /\ \A op : At(c, op) => op \in {"doneIn", "doneOut"}
  OBVIOUS
<1> HIDE DEF At, Exec
<1>7. ASSUME NEW op \in Loops, At(c, op)
      PROVE  /\ Still
             /\ \/ Arg(c) = {} /\ Continue(c)
                \/ \E e \in Arg(c) : Become(c, Body(op, e) \o <<On(op, Arg(c) \ {e})>>)
  <2> HIDE DEF Loops
  <2> QED
    BY <1>4, <1>7
<1> QED
  BY <1>1, <1>2, <1>3, <1>5, <1>6, <1>7

LEMMA WritesDo ==
  ASSUME NEW c \in Callers, Exec(c)
  PROVE  /\ At(c, "setIn") =>
              /\ SameHub /\ UNCHANGED <<outRow, pipeRow>> /\ Continue(c)
              /\ inRow' = IF inRow[Arg(c)] = "none" THEN inRow
                          ELSE [inRow EXCEPT ![Arg(c)] = prog[c][1].st]
         /\ At(c, "setOut") =>
              /\ SameHub /\ UNCHANGED <<inRow, pipeRow>> /\ Continue(c)
              /\ outRow' = IF outRow[Arg(c)] = "none" THEN outRow
                           ELSE [outRow EXCEPT ![Arg(c)] = prog[c][1].st]
         /\ At(c, "setPipe") =>
              /\ SameHub /\ UNCHANGED <<inRow, outRow>> /\ Continue(c)
              /\ pipeRow' = IF Exists(Arg(c)) THEN [pipeRow EXCEPT ![Arg(c)].st = prog[c][1].st] ELSE pipeRow
<1> USE DEF At, Exec, Need, Orphan, Query, Loop, Loops, Done, UpdateStatus, InsertOrSave, WritePipe, Drop,
            Create, ConnectPipe, Remove, Find, Open, Run, StartPipe, RequestPanics
<1>1. ASSUME NEW op \in {"setIn", "setOut", "setPipe"}, At(c, op)
      PROVE  UpdateStatus(c) /\ \A oq : At(c, oq) => oq = op
  BY <1>1
<1> HIDE DEF At, Exec
<1> QED
  BY <1>1

LEMMA CallsDo ==
  ASSUME NEW c \in Callers, Exec(c)
  PROVE  /\ At(c, "createIn") =>
              /\ CreateInput(Arg(c)) \/ UNCHANGED <<regVars, objVars>>
              /\ Continue(c) /\ UNCHANGED held /\ SameRows
         /\ At(c, "createOut") =>
              /\ CreateOutput(Arg(c)) \/ UNCHANGED <<regVars, objVars>>
              /\ Continue(c) /\ UNCHANGED held /\ SameRows
         /\ At(c, "connect") =>
              /\ \/ Connect(Arg(c)[1], Arg(c)[2]) /\ Continue(c)
                 \/ /\ pipes[<<Arg(c)[1], Arg(c)[2]>>] # 0
                    /\ UNCHANGED <<regVars, objVars>> /\ Continue(c)
                 \/ /\ ~CanConnect(Arg(c)[1], Arg(c)[2])
                    /\ UNCHANGED <<regVars, objVars>> /\ Fail(c)
              /\ UNCHANGED held /\ SameRows
         /\ At(c, "removeIn") =>
              /\ RemoveInput(Arg(c)) \/ InputMissing(Arg(c))
              /\ Continue(c) /\ UNCHANGED held /\ SameRows
         /\ At(c, "removeOut") =>
              /\ RemoveOutput(Arg(c)) \/ OutputMissing(Arg(c))
              /\ Continue(c) /\ UNCHANGED held /\ SameRows
         /\ At(c, "disconnect") =>
              /\ Disconnect(Arg(c)[1], Arg(c)[2])
              /\ Continue(c) /\ UNCHANGED held /\ SameRows
<1> USE DEF At, Exec, Need, Orphan, Query, Loop, Loops, Done, UpdateStatus, InsertOrSave, WritePipe, Drop,
            Create, ConnectPipe, Remove, Find, Open, Run, StartPipe, RequestPanics
<1>1. ASSUME NEW op \in {"createIn", "createOut"}, At(c, op)
      PROVE  Create(c) /\ \A oq : At(c, oq) => oq = op
  BY <1>1
<1>2. At(c, "connect") => ConnectPipe(c)
  OBVIOUS
<1>3. ASSUME NEW op \in {"removeIn", "removeOut", "disconnect"}, At(c, op)
      PROVE  Remove(c) /\ \A oq : At(c, oq) => oq = op
  BY <1>3
<1> HIDE DEF At, Exec
<1> QED
  BY <1>1, <1>2, <1>3 DEF InputFound, OutputFound, CreateFails, AlreadyConnected

LEMMA FindsDo ==
  ASSUME NEW c \in Callers, Exec(c)
  PROVE  /\ At(c, "findIn") =>
              /\ sources[Arg(c)] # 0 => FindSource(c, Arg(c)) /\ Continue(c)
              /\ sources[Arg(c)] = 0 => SkipNext(c) /\ SameHub
              /\ SameRows
         /\ At(c, "findOut") =>
              /\ sinks[Arg(c)] # 0 => FindSink(c, Arg(c)) /\ Continue(c)
              /\ sinks[Arg(c)] = 0 => SkipNext(c) /\ SameHub
              /\ SameRows
         /\ At(c, "findPipe") =>
              /\ \/ FindPipe(c, Arg(c)[1], Arg(c)[2]) /\ Continue(c)
                 \/ pipes[Arg(c)] = 0 /\ Fail(c) /\ SameHub
              /\ SameRows
         /\ At(c, "openIn") =>
              /\ \/ OpenInput(c, Arg(c)) /\ Continue(c)
                 \/ sources[Arg(c)] = 0 /\ UNCHANGED hubVars /\ Fail(c)
              /\ SameRows
         /\ At(c, "openOut") =>
              /\ \/ OpenOutput(c, Arg(c)) /\ Continue(c)
                 \/ sinks[Arg(c)] = 0 /\ UNCHANGED hubVars /\ Fail(c)
              /\ SameRows
<1> USE DEF At, Exec, Need, Orphan, Query, Loop, Loops, Done, UpdateStatus, InsertOrSave, WritePipe, Drop,
            Create, ConnectPipe, Remove, Find, Open, Run, StartPipe, RequestPanics
<1>1. ASSUME NEW op \in {"findIn", "findOut", "findPipe"}, At(c, op)
      PROVE  Find(c) /\ \A oq : At(c, oq) => oq = op
  BY <1>1
<1>2. ASSUME NEW op \in {"openIn", "openOut"}, At(c, op)
      PROVE  Open(c) /\ \A oq : At(c, oq) => oq = op
  BY <1>2
<1> HIDE DEF At, Exec
<1> QED
  BY <1>1, <1>2 DEF CreateFails, hubVars, FindSource, FindSink

LEMMA RunsDo ==
  ASSUME NEW c \in Callers, Exec(c)
  PROVE  /\ At(c, "runIn") =>
              (RunSource(c) \/ RunSourceFails(c)) /\ Continue(c) /\ SameRows
         /\ At(c, "runOut") =>
              (RunSink(c) \/ RunSinkFails(c)) /\ Continue(c) /\ SameRows
         /\ At(c, "runInOrFail") =>
              /\ (RunSource(c) /\ Continue(c)) \/ (RunSourceFails(c) /\ Fail(c))
              /\ SameRows
         /\ At(c, "runOutOrFail") =>
              /\ (RunSink(c) /\ Continue(c)) \/ (RunSinkFails(c) /\ Fail(c))
              /\ SameRows
         /\ At(c, "runPipe") =>
              /\ \/ RunPipe(c) /\ Continue(c)
                 \/ RunPipeAgain(c) /\ Continue(c)
                 \/ RunPipeFails(c) /\ Fail(c)
                 \/ c # Boot /\ RunPipePanics(c) /\ prog' = [prog EXCEPT ![c] = <<>>]
              /\ SameRows
<1> USE DEF At, Exec, Need, Orphan, Query, Loop, Loops, Done, UpdateStatus, InsertOrSave, WritePipe, Drop,
            Create, ConnectPipe, Remove, Find, Open, Run, StartPipe, RequestPanics
<1>1. ASSUME NEW op \in {"runIn", "runOut", "runInOrFail", "runOutOrFail"}, At(c, op)
      PROVE  Run(c) /\ \A oq : At(c, oq) => oq = op
  BY <1>1
<1>2. ASSUME At(c, "runPipe")
      PROVE  (Run(c) \/ RequestPanics(c)) /\ \A oq : At(c, oq) => oq = "runPipe"
  BY <1>2
<1> HIDE DEF At, Exec
<1>3. At(c, "runPipe") =>
        /\ \/ RunPipe(c) /\ Continue(c)
           \/ RunPipeAgain(c) /\ Continue(c)
           \/ RunPipeFails(c) /\ Fail(c)
           \/ c # Boot /\ RunPipePanics(c) /\ prog' = [prog EXCEPT ![c] = <<>>]
        /\ SameRows
  BY <1>2
<1>4. At(c, "runIn") => (RunSource(c) \/ RunSourceFails(c)) /\ Continue(c) /\ SameRows
  BY <1>1
<1>5. At(c, "runOut") => (RunSink(c) \/ RunSinkFails(c)) /\ Continue(c) /\ SameRows
  BY <1>1
<1>6. At(c, "runInOrFail") =>
        ((RunSource(c) /\ Continue(c)) \/ (RunSourceFails(c) /\ Fail(c))) /\ SameRows
  BY <1>1
<1>7. At(c, "runOutOrFail") =>
        ((RunSink(c) /\ Continue(c)) \/ (RunSinkFails(c) /\ Fail(c))) /\ SameRows
  BY <1>1
<1> QED
  BY <1>3, <1>4, <1>5, <1>6, <1>7

-----------------------------------------------------------------------------
(* What a step changes of what runs.                                         *)
Steady == PlaneInv /\ PairUnique

SameIns == \A i \in Inputs : InOn(i)' <=> InOn(i)
SameOuts == \A o \in Outputs : OutOn(o)' <=> OutOn(o)
SamePipes == \A i \in Inputs, o \in Outputs : PipeOn(i, o)' <=> PipeOn(i, o)

LEMMA KeyTyped ==
  ASSUME Steady, NEW p \in PipeIds, Exists(p)
  PROVE  /\ pipeRow[p] \in Rows /\ pipeRow[p].in \in Inputs /\ pipeRow[p].out \in Outputs
         /\ pipeRow[p].st \in Status
         /\ Key(p) \in Keys /\ pipes[Key(p)] \in 0 .. MaxObjs
         /\ pipeRow[p] = [in |-> pipeRow[p].in, out |-> pipeRow[p].out, st |-> pipeRow[p].st]
<1>1. pipeRow[p] \in Rows
  BY DEF Steady, PlaneInv, RowsTyped, Exists
<1>2. /\ pipeRow[p].in \in Inputs /\ pipeRow[p].out \in Outputs /\ pipeRow[p].st \in Status
      /\ pipeRow[p] = [in |-> pipeRow[p].in, out |-> pipeRow[p].out, st |-> pipeRow[p].st]
  BY <1>1 DEF Rows
<1>3. Key(p) \in Keys
  BY <1>2 DEF Key, Keys
<1> QED
  BY <1>1, <1>2, <1>3 DEF Steady, PlaneInv, HubInv, HubTypeOK

LEMMA OnTyped ==
  ASSUME Steady
  PROVE  /\ \A i \in Inputs : sources[i] \in 0 .. MaxObjs /\ (InOn(i) => sources[i] \in Objs)
         /\ \A o \in Outputs : sinks[o] \in 0 .. MaxObjs /\ (OutOn(o) => sinks[o] \in Objs)
         /\ \A i \in Inputs, o \in Outputs :
              /\ <<i, o>> \in Keys /\ pipes[<<i, o>>] \in 0 .. MaxObjs
              /\ pipes[<<i, o>>] # 0 => pipes[<<i, o>>] \in Objs
         /\ 0 \notin Objs
  BY HubAssumption DEF Steady, PlaneInv, HubInv, HubTypeOK, InOn, OutOn, Objs, Keys

LEMMA OnAfterNothing ==
  ASSUME UNCHANGED <<regVars, srcOn, snkOn, pstate, pipeRow>>
  PROVE  SameIns /\ SameOuts /\ SamePipes /\ (NothingLoose => NothingLoose')
  BY DEF SameIns, SameOuts, SamePipes, InOn, OutOn, PipeOn, NothingLoose, regVars, Exists, IsRunning, Key

LEMMA OnAfterCreateInput ==
  ASSUME Steady, NothingLoose, UNCHANGED pipeRow, NEW i \in Inputs, CreateInput(i)
  PROVE  SameIns /\ SameOuts /\ SamePipes /\ NothingLoose' /\ sources'[i] # 0
<1> DEFINE s == made["src"] + 1
<1>1. UNCHANGED <<sinks, pipes, srcOn, snkOn, pstate>> /\ sources[i] = 0 /\ s \in Nat /\ s # 0
      /\ \A j \in Inputs : sources'[j] = IF j = i THEN s ELSE sources[j]
  BY HubAssumption DEF CreateInput, Steady, PlaneInv, HubInv, HubTypeOK
<1>2. \A j \in Inputs : sources[j] # s
  BY HubAssumption DEF Steady, PlaneInv, HubInv, HubTypeOK, RegInv
<1>3. s \notin srcOn /\ 0 \notin srcOn
  BY <1>2, OnTyped DEF NothingLoose, Steady, PlaneInv, HubInv, HubTypeOK
<1>4. SameIns
  BY <1>1, <1>3 DEF SameIns, InOn
<1>5. SameOuts /\ SamePipes
  BY <1>1 DEF SameOuts, OutOn, SamePipes, PipeOn
<1>6. \A z \in srcOn' : \E j \in Inputs : sources'[j] = z
  BY <1>1, <1>3 DEF NothingLoose
<1>7. NothingLoose'
  BY <1>1, <1>6 DEF NothingLoose, Exists, IsRunning, Key
<1> QED
  BY <1>1, <1>4, <1>5, <1>7

LEMMA OnAfterCreateOutput ==
  ASSUME Steady, NothingLoose, UNCHANGED pipeRow, NEW o \in Outputs, CreateOutput(o)
  PROVE  SameIns /\ SameOuts /\ SamePipes /\ NothingLoose' /\ sinks'[o] # 0
<1> DEFINE s == made["snk"] + 1
<1>1. UNCHANGED <<sources, pipes, srcOn, snkOn, pstate>> /\ sinks[o] = 0 /\ s \in Nat /\ s # 0
      /\ \A j \in Outputs : sinks'[j] = IF j = o THEN s ELSE sinks[j]
  BY HubAssumption DEF CreateOutput, Steady, PlaneInv, HubInv, HubTypeOK
<1>2. \A j \in Outputs : sinks[j] # s
  BY HubAssumption DEF Steady, PlaneInv, HubInv, HubTypeOK, RegInv
<1>3. s \notin snkOn /\ 0 \notin snkOn
  BY <1>2, OnTyped DEF NothingLoose, Steady, PlaneInv, HubInv, HubTypeOK
<1>4. SameOuts
  BY <1>1, <1>3 DEF SameOuts, OutOn
<1>5. SameIns /\ SamePipes
  BY <1>1 DEF SameIns, InOn, SamePipes, PipeOn
<1>6. \A z \in snkOn' : \E j \in Outputs : sinks'[j] = z
  BY <1>1, <1>3 DEF NothingLoose
<1>7. NothingLoose'
  BY <1>1, <1>6 DEF NothingLoose, Exists, IsRunning, Key
<1> QED
  BY <1>1, <1>4, <1>5, <1>7

LEMMA OnAfterConnect ==
  ASSUME Steady, NothingLoose, UNCHANGED pipeRow, NEW i \in Inputs, NEW o \in Outputs, Connect(i, o)
  PROVE  SameIns /\ SameOuts /\ SamePipes /\ NothingLoose' /\ pipes'[<<i, o>>] # 0
<1> DEFINE n == made["pipe"] + 1
<1>1. n \in Objs /\ n # 0 /\ <<i, o>> \in Keys /\ pipes[<<i, o>>] = 0
  BY HubAssumption DEF Connect, Steady, PlaneInv, HubInv, HubTypeOK, Objs, Keys
<1>2. \A k \in Keys : pipes'[k] = IF k = <<i, o>> THEN n ELSE pipes[k]
  BY DEF Connect, Steady, PlaneInv, HubInv, HubTypeOK
<1>3. \A x \in Objs : pstate'[x] = IF x = n THEN "bound" ELSE pstate[x]
  BY DEF Connect, Steady, PlaneInv, HubInv, HubTypeOK
<1>4. \A k \in Keys : pipes[k] # n
  BY HubAssumption DEF Steady, PlaneInv, HubInv, HubTypeOK, RegInv
<1>5. UNCHANGED <<sources, sinks, srcOn, snkOn>>
  BY DEF Connect
<1>6. SameIns /\ SameOuts
  BY <1>5 DEF SameIns, InOn, SameOuts, OutOn
<1>7. SamePipes
  <2> SUFFICES ASSUME NEW j \in Inputs, NEW q \in Outputs PROVE PipeOn(j, q)' <=> PipeOn(j, q)
    BY DEF SamePipes
  <2>1. CASE <<j, q>> = <<i, o>>
    BY <1>1, <1>2, <1>3, <2>1 DEF PipeOn
  <2>2. CASE <<j, q>> # <<i, o>>
    <3>1. <<j, q>> \in Keys /\ pipes'[<<j, q>>] = pipes[<<j, q>>] /\ pipes[<<j, q>>] # n
      BY <1>2, <1>4, <2>2, OnTyped
    <3>2. pipes[<<j, q>>] # 0 => pipes[<<j, q>>] \in Objs
      BY OnTyped
    <3> QED
      BY <1>3, <3>1, <3>2 DEF PipeOn
  <2> QED
    BY <2>1, <2>2
<1>8. NothingLoose'
  <2>1. ASSUME NEW x \in Objs, pstate'[x] = "running"
        PROVE  \E p \in PipeIds : Exists(p) /\ IsRunning(p) /\ pipes'[Key(p)] = x
    <3>1. x # n /\ pstate[x] = "running"
      BY <1>3, <2>1
    <3>2. PICK p \in PipeIds : Exists(p) /\ IsRunning(p) /\ pipes[Key(p)] = x
      BY <3>1 DEF NothingLoose
    <3>3. Key(p) \in Keys /\ x # 0
      BY <3>2, KeyTyped, OnTyped
    <3>4. pipes'[Key(p)] = x
      BY <1>1, <1>2, <3>2, <3>3
    <3> QED
      BY <3>2, <3>4
  <2>2. \A x \in Objs : pstate'[x] \notin {"stuck", "revived"}
    BY <1>3 DEF NothingLoose
  <2> QED
    BY <1>5, <2>1, <2>2 DEF NothingLoose, Exists, IsRunning, Key
<1> QED
  BY <1>1, <1>2, <1>6, <1>7, <1>8

LEMMA OnAfterRunSource ==
  ASSUME Steady, NothingLoose, UNCHANGED pipeRow, NEW c \in Callers, NEW i \in Inputs,
         RunSource(c), held[c] = <<"src", sources[i]>>, sources[i] # 0
  PROVE  /\ \A j \in Inputs : InOn(j)' <=> InOn(j) \/ j = i
         /\ SameOuts /\ SamePipes /\ NothingLoose' /\ UNCHANGED regVars
<1>1. UNCHANGED <<regVars, snkOn, pstate>> /\ srcOn' = srcOn \cup {sources[i]}
  BY DEF RunSource
<1>2. UNCHANGED <<sources, sinks, pipes>>
  BY <1>1 DEF regVars
<1>3. \A j \in Inputs : sources[j] = sources[i] => j = i
  BY DEF Steady, PlaneInv, HubInv, HubConsistent, NoneTwice
<1>4. \A j \in Inputs : InOn(j)' <=> InOn(j) \/ j = i
  BY <1>1, <1>2, <1>3 DEF InOn
<1>5. SameOuts /\ SamePipes
  BY <1>1, <1>2 DEF SameOuts, OutOn, SamePipes, PipeOn
<1>6. NothingLoose'
  BY <1>1, <1>2 DEF NothingLoose, Exists, IsRunning, Key
<1> QED
  BY <1>1, <1>4, <1>5, <1>6

LEMMA OnAfterRunSink ==
  ASSUME Steady, NothingLoose, UNCHANGED pipeRow, NEW c \in Callers, NEW o \in Outputs,
         RunSink(c), held[c] = <<"snk", sinks[o]>>, sinks[o] # 0
  PROVE  /\ \A j \in Outputs : OutOn(j)' <=> OutOn(j) \/ j = o
         /\ SameIns /\ SamePipes /\ NothingLoose' /\ UNCHANGED regVars
<1>1. UNCHANGED <<regVars, srcOn, pstate>> /\ snkOn' = snkOn \cup {sinks[o]}
  BY DEF RunSink
<1>2. UNCHANGED <<sources, sinks, pipes>>
  BY <1>1 DEF regVars
<1>3. \A j \in Outputs : sinks[j] = sinks[o] => j = o
  BY DEF Steady, PlaneInv, HubInv, HubConsistent, NoneTwice
<1>4. \A j \in Outputs : OutOn(j)' <=> OutOn(j) \/ j = o
  BY <1>1, <1>2, <1>3 DEF OutOn
<1>5. SameIns /\ SamePipes
  BY <1>1, <1>2 DEF SameIns, InOn, SamePipes, PipeOn
<1>6. NothingLoose'
  BY <1>1, <1>2 DEF NothingLoose, Exists, IsRunning, Key
<1> QED
  BY <1>1, <1>4, <1>5, <1>6

(* A registered pipe that does not run is bound, so it starts properly.       *)
LEMMA PipeWaits ==
  ASSUME Steady, NothingLoose, NEW i \in Inputs, NEW o \in Outputs, pipes[<<i, o>>] # 0, ~PipeOn(i, o)
  PROVE  pstate[pipes[<<i, o>>]] = "bound" /\ pipes[<<i, o>>] \in Objs
<1>1. pipes[<<i, o>>] \in Objs
  BY OnTyped
<1>2. pstate[pipes[<<i, o>>]] \in {"bound", "running", "stuck"}
  BY DEF Steady, PlaneInv, HubInv, HubConsistent, PipesBound
<1> QED
  BY <1>1, <1>2 DEF NothingLoose, PipeOn

LEMMA OnAfterRunPipe ==
  ASSUME Steady, NothingLoose, UNCHANGED pipeRow, NEW c \in Callers, NEW i \in Inputs, NEW o \in Outputs,
         RunPipe(c), held[c] = <<"pipe", pipes[<<i, o>>]>>, pipes[<<i, o>>] # 0, ~PipeOn(i, o),
         \E p \in PipeIds : Exists(p) /\ IsRunning(p) /\ Key(p) = <<i, o>>
  PROVE  /\ \A j \in Inputs, q \in Outputs : PipeOn(j, q)' <=> PipeOn(j, q) \/ <<j, q>> = <<i, o>>
         /\ SameIns /\ SameOuts /\ NothingLoose' /\ UNCHANGED regVars
<1> DEFINE x == pipes[<<i, o>>]
<1>1. UNCHANGED <<regVars, srcOn, snkOn>>
      /\ pstate' = [pstate EXCEPT ![x] = IF @ = "bound" THEN "running" ELSE "revived"]
  BY DEF RunPipe
<1>2. UNCHANGED <<sources, sinks, pipes>>
  BY <1>1 DEF regVars
<1>3. pstate[x] = "bound" /\ x \in Objs
  BY PipeWaits
<1>4. \A y \in Objs : pstate'[y] = IF y = x THEN "running" ELSE pstate[y]
  BY <1>1, <1>3 DEF Steady, PlaneInv, HubInv, HubTypeOK
<1>5. SameIns /\ SameOuts
  BY <1>1, <1>2 DEF SameIns, InOn, SameOuts, OutOn
<1>6. ASSUME NEW j \in Inputs, NEW q \in Outputs
      PROVE  PipeOn(j, q)' <=> PipeOn(j, q) \/ <<j, q>> = <<i, o>>
  <2>1. /\ <<j, q>> \in Keys /\ <<i, o>> \in Keys
        /\ pipes[<<j, q>>] # 0 => pipes[<<j, q>>] \in Objs
    BY OnTyped
  <2>2. pipes[<<j, q>>] = x => <<j, q>> = <<i, o>>
    BY <2>1 DEF Steady, PlaneInv, HubInv, HubConsistent, NoneTwice
  <2> QED
    BY <1>2, <1>3, <1>4, <2>1, <2>2 DEF PipeOn
<1>7. NothingLoose'
  <2>1. ASSUME NEW y \in Objs, pstate'[y] = "running"
        PROVE  \E p \in PipeIds : Exists(p) /\ IsRunning(p) /\ pipes[Key(p)] = y
    BY <1>4, <2>1 DEF NothingLoose
  <2>2. \A y \in Objs : pstate'[y] \notin {"stuck", "revived"}
    BY <1>4 DEF NothingLoose
  <2> QED
    BY <1>1, <1>2, <2>1, <2>2 DEF NothingLoose, Exists, IsRunning, Key
<1> QED
  BY <1>1, <1>5, <1>6, <1>7

(* Stopping the pipes under K and forgetting them.                            *)
LEMMA OnAfterDrop ==
  ASSUME Steady, NothingLoose, UNCHANGED pipeRow, NEW K \in SUBSET Keys, DropPipes(K)
  PROVE  /\ \A j \in Inputs, q \in Outputs : PipeOn(j, q)' <=> PipeOn(j, q) /\ <<j, q>> \notin K
         /\ \A y \in Objs : pstate'[y] \notin {"stuck", "revived"}
         /\ \A y \in Objs : pstate'[y] = "running" =>
              \E p \in PipeIds : Exists(p) /\ IsRunning(p) /\ pipes'[Key(p)] = y
<1>1. \A k \in Keys : pipes'[k] = IF k \in K THEN 0 ELSE pipes[k]
  BY DEF DropPipes
<1>2. \A y \in Objs : pstate'[y] = IF \E k \in K : pipes[k] = y THEN AfterStop(pstate[y]) ELSE pstate[y]
  BY DEF DropPipes
<1>3. \A y \in Objs : AfterStop(pstate[y]) # "running"
  BY DEF AfterStop
<1>4. ASSUME NEW j \in Inputs, NEW q \in Outputs
      PROVE  PipeOn(j, q)' <=> PipeOn(j, q) /\ <<j, q>> \notin K
  <2>1. /\ <<j, q>> \in Keys
        /\ pipes[<<j, q>>] # 0 => pipes[<<j, q>>] \in Objs
    BY OnTyped
  <2>2. CASE <<j, q>> \in K
    BY <1>1, <2>1, <2>2 DEF PipeOn
  <2>3. CASE <<j, q>> \notin K /\ pipes[<<j, q>>] # 0
    <3>1. ~ \E k \in K : pipes[k] = pipes[<<j, q>>]
      BY <2>1, <2>3 DEF Steady, PlaneInv, HubInv, HubConsistent, NoneTwice
    <3> QED
      BY <1>1, <1>2, <2>1, <2>3, <3>1 DEF PipeOn
  <2>4. CASE <<j, q>> \notin K /\ pipes[<<j, q>>] = 0
    BY <1>1, <2>1, <2>4 DEF PipeOn
  <2> QED
    BY <2>2, <2>3, <2>4
<1>5. \A y \in Objs : pstate'[y] \notin {"stuck", "revived"}
  BY <1>2 DEF NothingLoose, AfterStop
<1>6. ASSUME NEW y \in Objs, pstate'[y] = "running"
      PROVE  \E p \in PipeIds : Exists(p) /\ IsRunning(p) /\ pipes'[Key(p)] = y
  <2>1. pstate[y] = "running" /\ ~ \E k \in K : pipes[k] = y
    BY <1>2, <1>3, <1>6
  <2>2. PICK p \in PipeIds : Exists(p) /\ IsRunning(p) /\ pipes[Key(p)] = y
    BY <2>1 DEF NothingLoose
  <2>3. Key(p) \in Keys /\ Key(p) \notin K
    BY <2>1, <2>2, KeyTyped
  <2>4. pipes'[Key(p)] = y
    BY <1>1, <2>2, <2>3
  <2> QED
    BY <2>2, <2>4
<1> QED
  BY <1>4, <1>5, <1>6

LEMMA OnAfterRemoveInput ==
  ASSUME Steady, NothingLoose, UNCHANGED pipeRow, NEW i \in Inputs, RemoveInput(i) \/ InputMissing(i)
  PROVE  /\ \A j \in Inputs : InOn(j)' <=> InOn(j) /\ j # i
         /\ \A j \in Inputs, q \in Outputs : PipeOn(j, q)' <=> PipeOn(j, q) /\ j # i
         /\ SameOuts /\ NothingLoose' /\ sources'[i] = 0
<1>1. CASE RemoveInput(i)
  <2>1. /\ srcOn' = srcOn \ {sources[i]} /\ UNCHANGED <<sinks, snkOn>>
        /\ \A j \in Inputs : sources'[j] = IF j = i THEN 0 ELSE sources[j]
    BY <1>1 DEF RemoveInput, Steady, PlaneInv, HubInv, HubTypeOK
  <2>2. KeysOfInput(i) \in SUBSET Keys /\ DropPipes(KeysOfInput(i))
        /\ \A j \in Inputs, q \in Outputs : <<j, q>> \in KeysOfInput(i) <=> j = i
    BY <1>1 DEF RemoveInput, KeysOfInput, Keys
  <2>3. \A j \in Inputs : sources[j] = sources[i] /\ sources[i] # 0 => j = i
    BY DEF Steady, PlaneInv, HubInv, HubConsistent, NoneTwice
  <2>4. 0 \notin srcOn /\ sources[i] # 0
    BY <1>1, OnTyped DEF RemoveInput, Steady, PlaneInv, HubInv, HubTypeOK
  <2>5. \A j \in Inputs : InOn(j)' <=> InOn(j) /\ j # i
    BY <2>1, <2>3, <2>4 DEF InOn
  <2>6. SameOuts
    BY <2>1 DEF SameOuts, OutOn
  <2>7. \A s \in srcOn' : \E j \in Inputs : sources'[j] = s
    <3>1. TAKE s \in srcOn'
    <3>2. s \in srcOn /\ s # sources[i]
      BY <2>1
    <3>3. PICK j \in Inputs : sources[j] = s
      BY <3>2 DEF NothingLoose
    <3> QED
      BY <2>1, <3>2, <3>3
  <2>8. /\ \A j \in Inputs, q \in Outputs : PipeOn(j, q)' <=> PipeOn(j, q) /\ <<j, q>> \notin KeysOfInput(i)
        /\ \A y \in Objs : pstate'[y] \notin {"stuck", "revived"}
        /\ \A y \in Objs : pstate'[y] = "running" =>
             \E p \in PipeIds : Exists(p) /\ IsRunning(p) /\ pipes'[Key(p)] = y
    BY <2>2, OnAfterDrop
  <2>9. NothingLoose'
    BY <2>1, <2>7, <2>8 DEF NothingLoose, Exists, IsRunning, Key
  <2>10. \A j \in Inputs, q \in Outputs : PipeOn(j, q)' <=> PipeOn(j, q) /\ j # i
    BY <2>2, <2>8
  <2> QED
    BY <2>1, <2>5, <2>6, <2>9, <2>10
<1>2. CASE InputMissing(i)
  <2>1. UNCHANGED <<regVars, srcOn, snkOn, pstate, pipeRow>> /\ sources[i] = 0 /\ sources'[i] = 0
    BY <1>2 DEF InputMissing, objVars, regVars
  <2>2. \A q \in Outputs : pipes[<<i, q>>] = 0
    BY <2>1 DEF Steady, PlaneInv, HubInv, HubConsistent, PipesBound
  <2>3. ~InOn(i) /\ \A q \in Outputs : ~PipeOn(i, q)
    BY <2>1, <2>2, OnTyped DEF PipeOn
  <2> QED
    BY <2>1, <2>3, OnAfterNothing DEF SameIns, SamePipes
<1> QED
  BY <1>1, <1>2

LEMMA OnAfterRemoveOutput ==
  ASSUME Steady, NothingLoose, UNCHANGED pipeRow, NEW o \in Outputs, RemoveOutput(o) \/ OutputMissing(o)
  PROVE  /\ \A j \in Outputs : OutOn(j)' <=> OutOn(j) /\ j # o
         /\ \A j \in Inputs, q \in Outputs : PipeOn(j, q)' <=> PipeOn(j, q) /\ q # o
         /\ SameIns /\ NothingLoose' /\ sinks'[o] = 0
<1>1. CASE RemoveOutput(o)
  <2>1. /\ snkOn' = snkOn \ {sinks[o]} /\ UNCHANGED <<sources, srcOn>>
        /\ \A j \in Outputs : sinks'[j] = IF j = o THEN 0 ELSE sinks[j]
    BY <1>1 DEF RemoveOutput, Steady, PlaneInv, HubInv, HubTypeOK
  <2>2. KeysOfOutput(o) \in SUBSET Keys /\ DropPipes(KeysOfOutput(o))
        /\ \A j \in Inputs, q \in Outputs : <<j, q>> \in KeysOfOutput(o) <=> q = o
    BY <1>1 DEF RemoveOutput, KeysOfOutput, Keys
  <2>3. \A j \in Outputs : sinks[j] = sinks[o] /\ sinks[o] # 0 => j = o
    BY DEF Steady, PlaneInv, HubInv, HubConsistent, NoneTwice
  <2>4. 0 \notin snkOn /\ sinks[o] # 0
    BY <1>1, OnTyped DEF RemoveOutput, Steady, PlaneInv, HubInv, HubTypeOK
  <2>5. \A j \in Outputs : OutOn(j)' <=> OutOn(j) /\ j # o
    BY <2>1, <2>3, <2>4 DEF OutOn
  <2>6. SameIns
    BY <2>1 DEF SameIns, InOn
  <2>7. \A s \in snkOn' : \E j \in Outputs : sinks'[j] = s
    <3>1. TAKE s \in snkOn'
    <3>2. s \in snkOn /\ s # sinks[o]
      BY <2>1
    <3>3. PICK j \in Outputs : sinks[j] = s
      BY <3>2 DEF NothingLoose
    <3> QED
      BY <2>1, <3>2, <3>3
  <2>8. /\ \A j \in Inputs, q \in Outputs : PipeOn(j, q)' <=> PipeOn(j, q) /\ <<j, q>> \notin KeysOfOutput(o)
        /\ \A y \in Objs : pstate'[y] \notin {"stuck", "revived"}
        /\ \A y \in Objs : pstate'[y] = "running" =>
             \E p \in PipeIds : Exists(p) /\ IsRunning(p) /\ pipes'[Key(p)] = y
    BY <2>2, OnAfterDrop
  <2>9. NothingLoose'
    BY <2>1, <2>7, <2>8 DEF NothingLoose, Exists, IsRunning, Key
  <2>10. \A j \in Inputs, q \in Outputs : PipeOn(j, q)' <=> PipeOn(j, q) /\ q # o
    BY <2>2, <2>8
  <2> QED
    BY <2>1, <2>5, <2>6, <2>9, <2>10
<1>2. CASE OutputMissing(o)
  <2>1. UNCHANGED <<regVars, srcOn, snkOn, pstate, pipeRow>> /\ sinks[o] = 0 /\ sinks'[o] = 0
    BY <1>2 DEF OutputMissing, objVars, regVars
  <2>2. \A j \in Inputs : pipes[<<j, o>>] = 0
    BY <2>1 DEF Steady, PlaneInv, HubInv, HubConsistent, PipesBound
  <2>3. ~OutOn(o) /\ \A j \in Inputs : ~PipeOn(j, o)
    BY <2>1, <2>2, OnTyped DEF PipeOn
  <2> QED
    BY <2>1, <2>3, OnAfterNothing DEF SameOuts, SamePipes
<1> QED
  BY <1>1, <1>2

(* A pipe that runs has a row that says so, and only one.                     *)
LEMMA RunningRow ==
  ASSUME Steady, NothingLoose, NEW i \in Inputs, NEW o \in Outputs, PipeOn(i, o)
  PROVE  \E p \in PipeIds : Exists(p) /\ IsRunning(p) /\ pipeRow[p].in = i /\ pipeRow[p].out = o
<1> DEFINE x == pipes[<<i, o>>]
<1>1. x \in Objs /\ pstate[x] = "running" /\ <<i, o>> \in Keys /\ x # 0
  BY OnTyped DEF PipeOn
<1>2. PICK p \in PipeIds : Exists(p) /\ IsRunning(p) /\ pipes[Key(p)] = x
  BY <1>1 DEF NothingLoose
<1>3. Key(p) \in Keys
  BY <1>2, KeyTyped
<1>4. Key(p) = <<i, o>>
  BY <1>1, <1>2, <1>3 DEF Steady, PlaneInv, HubInv, HubConsistent, NoneTwice
<1>5. pipeRow[p].in = i /\ pipeRow[p].out = o
  BY <1>4 DEF Key
<1> QED
  BY <1>2, <1>5

-----------------------------------------------------------------------------
(* Moving through a program.                                                 *)
LEMMA HeadIs ==
  ASSUME NEW c \in Callers, NEW w \in Seq(Instr), NEW rest \in Seq(Instr), NEW k \in 1 .. Len(w),
         prog[c] = After(w, rest, k)
  PROVE  /\ prog[c] # <<>> /\ prog[c][1] = w[k] /\ Arg(c) = w[k].x
         /\ \A op : At(c, op) <=> w[k].op = op
<1>1. After(w, rest, k) # <<>> /\ After(w, rest, k)[1] = w[k]
  BY AfterParts
<1>2. prog[c] # <<>> /\ prog[c][1] = w[k]
  BY <1>1
<1> QED
  BY <1>2 DEF At, Arg

LEMMA GoOn ==
  ASSUME ProgTyped, NEW c \in Callers, NEW w \in Seq(Instr), NEW rest \in Seq(Instr), NEW k \in 1 .. Len(w),
         prog[c] = After(w, rest, k), Continue(c)
  PROVE  prog'[c] = After(w, rest, k + 1)
<1> DEFINE q == After(w, rest, k)
           t == After(w, rest, k + 1)
<1>1. Tail(q) = t /\ q # <<>> /\ q \in Seq(Instr)
  BY AfterParts
<1>2. prog'[c] = <<>> \o Tail(q)
  BY DEF Continue, Become, ProgTyped
<1> HIDE DEF q, t
<1>3. Tail(q) \in Seq(Instr)
  BY <1>1, HeadTailProperties
<1>4. <<>> \o Tail(q) = Tail(q)
  BY <1>3, ConcatEmptySeq
<1>5. prog'[c] = t
  BY <1>1, <1>2, <1>4
<1> QED
  BY <1>5 DEF t

LEMMA GoInto ==
  ASSUME ProgTyped, NEW c \in Callers, NEW w \in Seq(Instr), NEW rest \in Seq(Instr), NEW k \in 1 .. Len(w),
         prog[c] = After(w, rest, k), NEW v \in Seq(Instr), v # <<>>, Become(c, v)
  PROVE  prog'[c] = After(v, After(w, rest, k + 1), 1) /\ After(w, rest, k + 1) \in Seq(Instr)
<1> DEFINE q == After(w, rest, k)
           t == After(w, rest, k + 1)
<1>1. Tail(q) = t /\ q # <<>> /\ q \in Seq(Instr)
  BY AfterParts
<1>2. prog'[c] = v \o Tail(q)
  BY DEF Become, ProgTyped
<1> HIDE DEF q, t
<1>3. t \in Seq(Instr)
  BY <1>1, HeadTailProperties
<1>4. After(v, t, 1) = v \o t
  BY <1>3, AfterEnds
<1>5. prog'[c] = After(v, t, 1)
  BY <1>1, <1>2, <1>4
<1> QED
  BY <1>3, <1>5 DEF t

LEMMA GiveUp ==
  ASSUME ProgTyped, NEW c \in Callers, NEW w \in Seq(Instr), NEW rest \in Seq(Instr), NEW k \in 1 .. Len(w),
         prog[c] = After(w, rest, k), Fail(c),
         w[Len(w)].op \in Catches, \A j \in k .. Len(w) - 1 : w[j].op \notin Catches
  PROVE  prog'[c] = Rescue(w[Len(w)]) \o rest
<1>1. prog'[c] = Unwind(prog[c])
  BY DEF Fail, ProgTyped
<1> QED
  BY <1>1, AfterUnwinds

(* The straight runs, spelled out.                                            *)
LEMMA PipeItemIs ==
  ASSUME NEW e \in Triples
  PROVE  /\ PipeItem(e) \in Seq(Instr) /\ Len(PipeItem(e)) = 12 /\ PipeItem(e) # <<>>
         /\ PipeItem(e)[1] = On("needIn", e[2]) /\ PipeItem(e)[2] = On("needOut", e[3])
         /\ PipeItem(e)[3] = On("createIn", e[2]) /\ PipeItem(e)[4] = On("createOut", e[3])
         /\ PipeItem(e)[5] = For("connect", e[2], e[3]) /\ PipeItem(e)[6] = On("findOut", e[3])
         /\ PipeItem(e)[7] = On("runOut", e[3]) /\ PipeItem(e)[8] = On("findIn", e[2])
         /\ PipeItem(e)[9] = On("runIn", e[2]) /\ PipeItem(e)[10] = For("findPipe", e[2], e[3])
         /\ PipeItem(e)[11] = For("runPipe", e[2], e[3]) /\ PipeItem(e)[12] = On("donePipe", e)
<1> DEFINE i == e[2]
           o == e[3]
           v == StartPipeProg(i, o)
           d == <<On("donePipe", e)>>
<1>1. i \in Inputs /\ o \in Outputs
  BY DEF Triples
<1>2. v \in Seq(Instr) /\ d \in Seq(Instr)
  <2>1. On("donePipe", e) \in Instr
    BY PlainInstr DEF PipeOps
  <2> QED
    BY <1>1, <2>1, StartPipeMade DEF Prog
<1>3. /\ Len(v) = 11 /\ Len(d) = 1 /\ d[1] = On("donePipe", e)
      /\ v[1] = On("needIn", i) /\ v[2] = On("needOut", o) /\ v[3] = On("createIn", i)
      /\ v[4] = On("createOut", o) /\ v[5] = For("connect", i, o) /\ v[6] = On("findOut", o)
      /\ v[7] = On("runOut", o) /\ v[8] = On("findIn", i) /\ v[9] = On("runIn", i)
      /\ v[10] = For("findPipe", i, o) /\ v[11] = For("runPipe", i, o)
  BY DEF StartPipeProg
<1> HIDE DEF v, d
<1>4. PICK r : r = v \o d
  OBVIOUS
<1>5. /\ r \in Seq(Instr) /\ Len(r) = 12
      /\ \A j \in 1 .. 12 : r[j] = IF j <= 11 THEN v[j] ELSE d[j - 11]
  <2>1. /\ r \in Seq(Instr) /\ Len(r) = Len(v) + Len(d)
        /\ \A j \in 1 .. Len(v) + Len(d) : r[j] = IF j <= Len(v) THEN v[j] ELSE d[j - Len(v)]
    BY <1>2, <1>4, ConcatProperties
  <2>2. Len(v) + Len(d) = 12 /\ Len(v) = 11
    BY <1>3
  <2> QED
    BY <2>1, <2>2
<1>6. r[12] = d[1]
  BY <1>5
<1>7. \A j \in 1 .. 11 : r[j] = v[j]
  BY <1>5
<1>8. r[1] = v[1] /\ r[2] = v[2] /\ r[3] = v[3] /\ r[4] = v[4] /\ r[5] = v[5] /\ r[6] = v[6] /\ r[7] = v[7] /\ r[8] = v[8] /\ r[9] = v[9] /\ r[10] = v[10] /\ r[11] = v[11]
  BY <1>7
<1>9. PipeItem(e) = r
  BY <1>4 DEF PipeItem, v, d
<1>10. r # <<>>
  <2>1. r \in Seq(Instr) /\ Len(r) # 0
    BY <1>5
  <2> QED
    BY <2>1, EmptySeq
<1> QED
  BY <1>3, <1>5, <1>6, <1>8, <1>9, <1>10

LEMMA ShortItemsAre ==
  ASSUME NEW e \in Triples
  PROVE  /\ Recorded(e) \in Seq(Instr) /\ Len(Recorded(e)) = 2
         /\ Recorded(e)[1] = Set("setIn", e[2], "running") /\ Recorded(e)[2] = Set("setOut", e[3], "running")
         /\ Rescued(e) \in Seq(Instr) /\ Len(Rescued(e)) = 3
         /\ Rescued(e)[1] = Set("setPipe", e[1], "stopped")
         /\ Rescued(e)[2] = On("orphanIn", e[2]) /\ Rescued(e)[3] = On("orphanOut", e[3])
<1>1. e[1] \in PipeIds /\ e[2] \in Inputs /\ e[3] \in Outputs
  BY DEF Triples
<1>2. /\ Set("setIn", e[2], "running") \in Instr /\ Set("setOut", e[3], "running") \in Instr
      /\ Set("setPipe", e[1], "stopped") \in Instr
  BY <1>1, StampedInstr DEF Status
<1>3. On("orphanIn", e[2]) \in Instr /\ On("orphanOut", e[3]) \in Instr
  BY <1>1, PlainInstr DEF InOps, OutOps
<1>4. /\ Recorded(e) \in Seq(Instr) /\ Len(Recorded(e)) = 2
      /\ Recorded(e)[1] = Set("setIn", e[2], "running") /\ Recorded(e)[2] = Set("setOut", e[3], "running")
  BY <1>2 DEF Recorded, StatusProg
<1> DEFINE v == <<Set("setPipe", e[1], "stopped")>>
           d == OrphanProg(e[2], e[3])
<1>5. /\ v \in Seq(Instr) /\ d \in Seq(Instr) /\ Len(v) = 1 /\ Len(d) = 2
      /\ v[1] = Set("setPipe", e[1], "stopped")
      /\ d[1] = On("orphanIn", e[2]) /\ d[2] = On("orphanOut", e[3])
  BY <1>2, <1>3 DEF OrphanProg
<1> HIDE DEF v, d
<1>6. /\ v \o d \in Seq(Instr) /\ Len(v \o d) = 3
      /\ \A j \in 1 .. 3 : (v \o d)[j] = IF j <= 1 THEN v[j] ELSE d[j - 1]
  BY <1>5, ConcatProperties
<1>7. (v \o d)[1] = v[1] /\ (v \o d)[2] = d[1] /\ (v \o d)[3] = d[2]
  BY <1>6
<1>8. Rescued(e) = v \o d
  BY DEF Rescued, v, d
<1> QED
  BY <1>4, <1>5, <1>6, <1>7, <1>8

LEMMA DropsAre ==
  /\ \A i \in Inputs : /\ DropIn(i) \in Seq(Instr) /\ Len(DropIn(i)) = 2
                       /\ DropIn(i)[1] = On("removeIn", i)
                       /\ DropIn(i)[2] = Set("setIn", i, "stopped")
  /\ \A o \in Outputs : /\ DropOut(o) \in Seq(Instr) /\ Len(DropOut(o)) = 2
                        /\ DropOut(o)[1] = On("removeOut", o)
                        /\ DropOut(o)[2] = Set("setOut", o, "stopped")
<1>1. ASSUME NEW i \in Inputs
      PROVE  On("removeIn", i) \in Instr /\ Set("setIn", i, "stopped") \in Instr
  BY PlainInstr, StampedInstr DEF InOps, Status
<1>2. ASSUME NEW o \in Outputs
      PROVE  On("removeOut", o) \in Instr /\ Set("setOut", o, "stopped") \in Instr
  BY PlainInstr, StampedInstr DEF OutOps, Status
<1> QED
  BY <1>1, <1>2 DEF DropIn, DropOut

LEMMA InItemIs ==
  ASSUME NEW i \in Inputs
  PROVE  /\ InItem(i) \in Seq(Instr) /\ Len(InItem(i)) = 5 /\ InItem(i) # <<>>
         /\ InItem(i)[1] = On("needIn", i) /\ InItem(i)[2] = On("openIn", i)
         /\ InItem(i)[3] = On("runInOrFail", i) /\ InItem(i)[4] = Set("setIn", i, "running")
         /\ InItem(i)[5] = On("doneIn", i)
<1> DEFINE v == StartInputProg(i)
           d == <<On("doneIn", i)>>
<1>1. On("doneIn", i) \in Instr
  BY PlainInstr DEF InOps
<1>2. v \in Seq(Instr) /\ d \in Seq(Instr)
  BY <1>1, StartOnlyMade DEF Prog
<1>3. /\ Len(v) = 4 /\ Len(d) = 1 /\ d[1] = On("doneIn", i)
      /\ v[1] = On("needIn", i) /\ v[2] = On("openIn", i) /\ v[3] = On("runInOrFail", i)
      /\ v[4] = Set("setIn", i, "running")
  BY DEF StartInputProg
<1> HIDE DEF v, d
<1>4. PICK r : r = v \o d
  OBVIOUS
<1>5. /\ r \in Seq(Instr) /\ Len(r) = 5
      /\ \A j \in 1 .. 5 : r[j] = IF j <= 4 THEN v[j] ELSE d[j - 4]
  <2>1. /\ r \in Seq(Instr) /\ Len(r) = Len(v) + Len(d)
        /\ \A j \in 1 .. Len(v) + Len(d) : r[j] = IF j <= Len(v) THEN v[j] ELSE d[j - Len(v)]
    BY <1>2, <1>4, ConcatProperties
  <2>2. Len(v) + Len(d) = 5 /\ Len(v) = 4
    BY <1>3
  <2> QED
    BY <2>1, <2>2
<1>6. r[5] = d[1]
  BY <1>5
<1>7. \A j \in 1 .. 4 : r[j] = v[j]
  BY <1>5
<1>8. r[1] = v[1] /\ r[2] = v[2] /\ r[3] = v[3] /\ r[4] = v[4]
  BY <1>7
<1>9. InItem(i) = r
  BY <1>4 DEF InItem, v, d
<1>10. r # <<>>
  <2>1. r \in Seq(Instr) /\ Len(r) # 0
    BY <1>5
  <2> QED
    BY <2>1, EmptySeq
<1> QED
  BY <1>3, <1>5, <1>6, <1>8, <1>9, <1>10

LEMMA OutItemIs ==
  ASSUME NEW o \in Outputs
  PROVE  /\ OutItem(o) \in Seq(Instr) /\ Len(OutItem(o)) = 5 /\ OutItem(o) # <<>>
         /\ OutItem(o)[1] = On("needOut", o) /\ OutItem(o)[2] = On("openOut", o)
         /\ OutItem(o)[3] = On("runOutOrFail", o) /\ OutItem(o)[4] = Set("setOut", o, "running")
         /\ OutItem(o)[5] = On("doneOut", o)
<1> DEFINE v == StartOutputProg(o)
           d == <<On("doneOut", o)>>
<1>1. On("doneOut", o) \in Instr
  BY PlainInstr DEF OutOps
<1>2. v \in Seq(Instr) /\ d \in Seq(Instr)
  BY <1>1, StartOnlyMade DEF Prog
<1>3. /\ Len(v) = 4 /\ Len(d) = 1 /\ d[1] = On("doneOut", o)
      /\ v[1] = On("needOut", o) /\ v[2] = On("openOut", o) /\ v[3] = On("runOutOrFail", o)
      /\ v[4] = Set("setOut", o, "running")
  BY DEF StartOutputProg
<1> HIDE DEF v, d
<1>4. PICK r : r = v \o d
  OBVIOUS
<1>5. /\ r \in Seq(Instr) /\ Len(r) = 5
      /\ \A j \in 1 .. 5 : r[j] = IF j <= 4 THEN v[j] ELSE d[j - 4]
  <2>1. /\ r \in Seq(Instr) /\ Len(r) = Len(v) + Len(d)
        /\ \A j \in 1 .. Len(v) + Len(d) : r[j] = IF j <= Len(v) THEN v[j] ELSE d[j - Len(v)]
    BY <1>2, <1>4, ConcatProperties
  <2>2. Len(v) + Len(d) = 5 /\ Len(v) = 4
    BY <1>3
  <2> QED
    BY <2>1, <2>2
<1>6. r[5] = d[1]
  BY <1>5
<1>7. \A j \in 1 .. 4 : r[j] = v[j]
  BY <1>5
<1>8. r[1] = v[1] /\ r[2] = v[2] /\ r[3] = v[3] /\ r[4] = v[4]
  BY <1>7
<1>9. OutItem(o) = r
  BY <1>4 DEF OutItem, v, d
<1>10. r # <<>>
  <2>1. r \in Seq(Instr) /\ Len(r) # 0
    BY <1>5
  <2> QED
    BY <2>1, EmptySeq
<1> QED
  BY <1>3, <1>5, <1>6, <1>8, <1>9, <1>10

LEMMA LeftTyped ==
  /\ \A X \in SUBSET Triples : PipesLeft(X) \in Seq(Instr) /\ PipesLeft(X) # <<>>
  /\ \A X \in SUBSET Inputs : InsLeft(X) \in Seq(Instr) /\ InsLeft(X) # <<>>
  /\ \A X \in SUBSET Outputs : OutsLeft(X) \in Seq(Instr) /\ OutsLeft(X) # <<>>
<1>1. On("restoreIns", 0) \in Instr /\ On("restoreOuts", 0) \in Instr
  BY PlainInstr DEF QueryOps
<1>2. ASSUME NEW X \in SUBSET Triples PROVE PipesLeft(X) \in Seq(Instr) /\ PipesLeft(X) # <<>>
  <2>1. On("eachPipe", X) \in Instr
    BY LoopInstr
  <2> QED
    BY <1>1, <2>1 DEF PipesLeft
<1>3. ASSUME NEW X \in SUBSET Inputs PROVE InsLeft(X) \in Seq(Instr) /\ InsLeft(X) # <<>>
  <2>1. On("eachInput", X) \in Instr
    BY LoopInstr
  <2> QED
    BY <1>1, <2>1 DEF InsLeft
<1>4. ASSUME NEW X \in SUBSET Outputs PROVE OutsLeft(X) \in Seq(Instr) /\ OutsLeft(X) # <<>>
  <2>1. On("eachOutput", X) \in Instr
    BY LoopInstr
  <2> QED
    BY <2>1 DEF OutsLeft
<1> QED
  BY <1>2, <1>3, <1>4

-----------------------------------------------------------------------------
(* How Sound survives a step.                                                *)

(* Something more runs, and is accounted for.                                 *)
LEMMA SoundGrows ==
  ASSUME Steady, UNCHANGED rowVars, NothingLoose', NEW Y, NEW I, NEW O, Sound(Y, I, O),
         \A j \in Inputs : InOn(j) => InOn(j)',
         \A j \in Outputs : OutOn(j) => OutOn(j)',
         \A j \in Inputs, q \in Outputs : PipeOn(j, q) => PipeOn(j, q)',
         \A j \in Inputs \ I : InOn(j)' => InOn(j) \/ \E e \in Y : e[2] = j,
         \A j \in Outputs \ O : OutOn(j)' => OutOn(j) \/ \E e \in Y : e[3] = j
  PROVE  Sound(Y, I, O)'
<1>1. inRow' = inRow /\ outRow' = outRow /\ pipeRow' = pipeRow
  BY DEF rowVars
<1>2. Pending(Y)'
  BY <1>1 DEF Sound, Pending, Exists
<1>3. Settled(Y)'
  <2> SUFFICES ASSUME NEW p \in PipeIds, Exists(p), IsRunning(p), \A e \in Y : e[1] # p
               PROVE  /\ PipeOn(pipeRow[p].in, pipeRow[p].out)'
                      /\ InTold(pipeRow[p].in)' /\ inRow[pipeRow[p].in] = "running"
                      /\ OutTold(pipeRow[p].out)' /\ outRow[pipeRow[p].out] = "running"
    BY <1>1 DEF Settled, Exists, IsRunning
  <2>1. /\ PipeOn(pipeRow[p].in, pipeRow[p].out)
        /\ InTold(pipeRow[p].in) /\ inRow[pipeRow[p].in] = "running"
        /\ OutTold(pipeRow[p].out) /\ outRow[pipeRow[p].out] = "running"
    BY DEF Sound, Settled
  <2>2. pipeRow[p].in \in Inputs /\ pipeRow[p].out \in Outputs
    BY KeyTyped
  <2> QED
    BY <1>1, <2>1, <2>2 DEF InOn, OutOn, PipeOn, InTold, OutTold
<1>4. Accounted(Y, I, O)'
  BY <1>1 DEF Sound, Accounted
<1> QED
  BY <1>2, <1>3, <1>4 DEF Sound

(* An input that no pipe in use needs is stopped, with the pipes on it.       *)
LEMMA SoundWithoutInput ==
  ASSUME Steady, UNCHANGED rowVars, NothingLoose', NEW Y, NEW O, NEW i \in Inputs, Sound(Y, {i}, O), ~InUse(i),
         \A j \in Inputs : InOn(j)' <=> InOn(j) /\ j # i,
         \A j \in Outputs : OutOn(j)' <=> OutOn(j),
         \A j \in Inputs, q \in Outputs : PipeOn(j, q)' <=> PipeOn(j, q) /\ j # i
  PROVE  Sound(Y, {i}, O)'
<1>1. inRow' = inRow /\ outRow' = outRow /\ pipeRow' = pipeRow
  BY DEF rowVars
<1>2. Pending(Y)'
  BY <1>1 DEF Sound, Pending, Exists
<1>3. Settled(Y)'
  <2> SUFFICES ASSUME NEW p \in PipeIds, Exists(p), IsRunning(p), \A e \in Y : e[1] # p
               PROVE  /\ PipeOn(pipeRow[p].in, pipeRow[p].out)'
                      /\ InTold(pipeRow[p].in)' /\ inRow[pipeRow[p].in] = "running"
                      /\ OutTold(pipeRow[p].out)' /\ outRow[pipeRow[p].out] = "running"
    BY <1>1 DEF Settled, Exists, IsRunning
  <2>1. /\ PipeOn(pipeRow[p].in, pipeRow[p].out)
        /\ InTold(pipeRow[p].in) /\ inRow[pipeRow[p].in] = "running"
        /\ OutTold(pipeRow[p].out) /\ outRow[pipeRow[p].out] = "running"
    BY DEF Sound, Settled
  <2>2. pipeRow[p].in \in Inputs /\ pipeRow[p].out \in Outputs
    BY KeyTyped
  <2>3. pipeRow[p].in # i
    BY DEF InUse, PipesOf
  <2> QED
    BY <1>1, <2>1, <2>2, <2>3 DEF InOn, OutOn, PipeOn, InTold, OutTold
<1>4. Accounted(Y, {i}, O)'
  BY <1>1 DEF Sound, Accounted
<1> QED
  BY <1>2, <1>3, <1>4 DEF Sound

LEMMA SoundWithoutOutput ==
  ASSUME Steady, UNCHANGED rowVars, NothingLoose', NEW Y, NEW I, NEW o \in Outputs, Sound(Y, I, {o}), ~OutInUse(o),
         \A j \in Inputs : InOn(j)' <=> InOn(j),
         \A j \in Outputs : OutOn(j)' <=> OutOn(j) /\ j # o,
         \A j \in Inputs, q \in Outputs : PipeOn(j, q)' <=> PipeOn(j, q) /\ q # o
  PROVE  Sound(Y, I, {o})'
<1>1. inRow' = inRow /\ outRow' = outRow /\ pipeRow' = pipeRow
  BY DEF rowVars
<1>2. Pending(Y)'
  BY <1>1 DEF Sound, Pending, Exists
<1>3. Settled(Y)'
  <2> SUFFICES ASSUME NEW p \in PipeIds, Exists(p), IsRunning(p), \A e \in Y : e[1] # p
               PROVE  /\ PipeOn(pipeRow[p].in, pipeRow[p].out)'
                      /\ InTold(pipeRow[p].in)' /\ inRow[pipeRow[p].in] = "running"
                      /\ OutTold(pipeRow[p].out)' /\ outRow[pipeRow[p].out] = "running"
    BY <1>1 DEF Settled, Exists, IsRunning
  <2>1. /\ PipeOn(pipeRow[p].in, pipeRow[p].out)
        /\ InTold(pipeRow[p].in) /\ inRow[pipeRow[p].in] = "running"
        /\ OutTold(pipeRow[p].out) /\ outRow[pipeRow[p].out] = "running"
    BY DEF Sound, Settled
  <2>2. pipeRow[p].in \in Inputs /\ pipeRow[p].out \in Outputs
    BY KeyTyped
  <2>3. pipeRow[p].out # o
    BY DEF OutInUse, PipesTo
  <2> QED
    BY <1>1, <2>1, <2>2, <2>3 DEF InOn, OutOn, PipeOn, InTold, OutTold
<1>4. Accounted(Y, I, {o})'
  BY <1>1 DEF Sound, Accounted
<1> QED
  BY <1>2, <1>3, <1>4 DEF Sound

(* A hub that stays as it is while a row changes.                             *)
LEMMA HubStays ==
  ASSUME SameHub
  PROVE  /\ SameIns /\ SameOuts /\ SamePipes
         /\ UNCHANGED <<sources, sinks, pipes, srcOn, snkOn, pstate, held>>
  BY DEF SameHub, hubVars, regVars, objVars, SameIns, SameOuts, SamePipes, InOn, OutOn, PipeOn

(* The row of an input is set: running, or stopped when it does not run and   *)
(* no pipe needs it.                                                          *)
LEMMA SoundSetIn ==
  ASSUME Steady, SameHub, UNCHANGED <<outRow, pipeRow>>, NEW Y, NEW I, NEW O, NEW i \in Inputs, NEW st \in Status,
         inRow' = IF inRow[i] = "none" THEN inRow ELSE [inRow EXCEPT ![i] = st],
         st = "stopped" => ~InOn(i) /\ ~InUse(i) /\ \A e \in Y : e[2] # i,
         Sound(Y, I, O)
  PROVE  /\ Sound(Y, I, O)'
         /\ st = "stopped" => Sound(Y, I \ {i}, O)'
         /\ st = "running" /\ inRow[i] # "none" => inRow'[i] = "running" /\ Sound(Y, I \ {i}, O)'
<1>1. /\ UNCHANGED <<sources, sinks, pipes, srcOn, snkOn, pstate, held>>
      /\ outRow' = outRow /\ pipeRow' = pipeRow
  BY HubStays
<1>2. /\ \A j \in Inputs : j # i => inRow'[j] = inRow[j]
      /\ inRow[i] # "none" => inRow'[i] = st
      /\ inRow[i] = "none" => inRow'[i] = "none"
  BY DEF Steady, PlaneInv, RowsTyped
<1>3. NothingLoose' /\ Pending(Y)'
  BY <1>1 DEF Sound, NothingLoose, Pending, Exists, IsRunning, Key
<1>4. Settled(Y)'
  <2> SUFFICES ASSUME NEW p \in PipeIds, Exists(p), IsRunning(p), \A e \in Y : e[1] # p
               PROVE  /\ PipeOn(pipeRow[p].in, pipeRow[p].out)'
                      /\ InTold(pipeRow[p].in)' /\ inRow'[pipeRow[p].in] = "running"
                      /\ OutTold(pipeRow[p].out)' /\ outRow[pipeRow[p].out] = "running"
    BY <1>1 DEF Settled, Exists, IsRunning
  <2>1. /\ PipeOn(pipeRow[p].in, pipeRow[p].out)
        /\ InTold(pipeRow[p].in) /\ inRow[pipeRow[p].in] = "running"
        /\ OutTold(pipeRow[p].out) /\ outRow[pipeRow[p].out] = "running"
    BY DEF Sound, Settled
  <2>2. pipeRow[p].in \in Inputs /\ pipeRow[p].out \in Outputs
    BY KeyTyped
  <2>3. inRow'[pipeRow[p].in] = "running"
    <3>1. CASE pipeRow[p].in # i
      BY <1>2, <2>1, <2>2, <3>1
    <3>2. CASE pipeRow[p].in = i
      <4>1. st = "running" /\ inRow[i] # "none"
        BY <2>1, <3>2 DEF Status, InUse, PipesOf
      <4> QED
        BY <1>2, <3>2, <4>1
    <3> QED
      BY <3>1, <3>2
  <2> QED
    BY <1>1, <2>1, <2>3 DEF InOn, OutOn, PipeOn, InTold, OutTold
<1>5. \A j \in Inputs : InOn(j) /\ inRow[j] = "running" => inRow'[j] = "running"
  BY <1>2 DEF Status
<1>6. (\A j \in Inputs : InOn(j)' <=> InOn(j)) /\ (\A j \in Outputs : OutOn(j)' <=> OutOn(j))
  BY <1>1 DEF InOn, OutOn
<1>7. Accounted(Y, I, O)'
  BY <1>1, <1>5, <1>6 DEF Sound, Accounted
<1>8. st = "stopped" \/ (st = "running" /\ inRow[i] # "none") => Accounted(Y, I \ {i}, O)'
  <2> SUFFICES ASSUME st = "stopped" \/ (st = "running" /\ inRow[i] # "none"),
                      NEW j \in Inputs \ (I \ {i}), InOn(j)
               PROVE  inRow'[j] = "running" \/ \E e \in Y : e[2] = j
    BY <1>1, <1>6, <1>7 DEF Accounted
  <2>1. CASE j = i
    BY <1>2, <2>1
  <2>2. CASE j # i
    BY <1>5, <2>2 DEF Sound, Accounted
  <2> QED
    BY <2>1, <2>2
<1> QED
  BY <1>2, <1>3, <1>4, <1>7, <1>8 DEF Sound

LEMMA SoundSetOut ==
  ASSUME Steady, SameHub, UNCHANGED <<inRow, pipeRow>>, NEW Y, NEW I, NEW O, NEW o \in Outputs, NEW st \in Status,
         outRow' = IF outRow[o] = "none" THEN outRow ELSE [outRow EXCEPT ![o] = st],
         st = "stopped" => ~OutOn(o) /\ ~OutInUse(o) /\ \A e \in Y : e[3] # o,
         Sound(Y, I, O)
  PROVE  /\ Sound(Y, I, O)'
         /\ st = "stopped" => Sound(Y, I, O \ {o})'
         /\ st = "running" /\ outRow[o] # "none" => outRow'[o] = "running" /\ Sound(Y, I, O \ {o})'
<1>1. /\ UNCHANGED <<sources, sinks, pipes, srcOn, snkOn, pstate, held>>
      /\ inRow' = inRow /\ pipeRow' = pipeRow
  BY HubStays
<1>2. /\ \A j \in Outputs : j # o => outRow'[j] = outRow[j]
      /\ outRow[o] # "none" => outRow'[o] = st
      /\ outRow[o] = "none" => outRow'[o] = "none"
  BY DEF Steady, PlaneInv, RowsTyped
<1>3. NothingLoose' /\ Pending(Y)'
  BY <1>1 DEF Sound, NothingLoose, Pending, Exists, IsRunning, Key
<1>4. Settled(Y)'
  <2> SUFFICES ASSUME NEW p \in PipeIds, Exists(p), IsRunning(p), \A e \in Y : e[1] # p
               PROVE  /\ PipeOn(pipeRow[p].in, pipeRow[p].out)'
                      /\ InTold(pipeRow[p].in)' /\ inRow[pipeRow[p].in] = "running"
                      /\ OutTold(pipeRow[p].out)' /\ outRow'[pipeRow[p].out] = "running"
    BY <1>1 DEF Settled, Exists, IsRunning
  <2>1. /\ PipeOn(pipeRow[p].in, pipeRow[p].out)
        /\ InTold(pipeRow[p].in) /\ inRow[pipeRow[p].in] = "running"
        /\ OutTold(pipeRow[p].out) /\ outRow[pipeRow[p].out] = "running"
    BY DEF Sound, Settled
  <2>2. pipeRow[p].in \in Inputs /\ pipeRow[p].out \in Outputs
    BY KeyTyped
  <2>3. outRow'[pipeRow[p].out] = "running"
    <3>1. CASE pipeRow[p].out # o
      BY <1>2, <2>1, <2>2, <3>1
    <3>2. CASE pipeRow[p].out = o
      <4>1. st = "running" /\ outRow[o] # "none"
        BY <2>1, <3>2 DEF Status, OutInUse, PipesTo
      <4> QED
        BY <1>2, <3>2, <4>1
    <3> QED
      BY <3>1, <3>2
  <2> QED
    BY <1>1, <2>1, <2>3 DEF InOn, OutOn, PipeOn, InTold, OutTold
<1>5. \A j \in Outputs : OutOn(j) /\ outRow[j] = "running" => outRow'[j] = "running"
  BY <1>2 DEF Status
<1>6. (\A j \in Inputs : InOn(j)' <=> InOn(j)) /\ (\A j \in Outputs : OutOn(j)' <=> OutOn(j))
  BY <1>1 DEF InOn, OutOn
<1>7. Accounted(Y, I, O)'
  BY <1>1, <1>5, <1>6 DEF Sound, Accounted
<1>8. st = "stopped" \/ (st = "running" /\ outRow[o] # "none") => Accounted(Y, I, O \ {o})'
  <2> SUFFICES ASSUME st = "stopped" \/ (st = "running" /\ outRow[o] # "none"),
                      NEW j \in Outputs \ (O \ {o}), OutOn(j)
               PROVE  outRow'[j] = "running" \/ \E e \in Y : e[3] = j
    BY <1>1, <1>6, <1>7 DEF Accounted
  <2>1. CASE j = o
    BY <1>2, <2>1
  <2>2. CASE j # o
    BY <1>5, <2>2 DEF Sound, Accounted
  <2> QED
    BY <2>1, <2>2
<1> QED
  BY <1>2, <1>3, <1>4, <1>7, <1>8 DEF Sound

(* Two pipes still to be started are two rows with different keys.            *)
LEMMA PendingApart ==
  ASSUME Steady, NEW Y \in SUBSET Triples, Pending(Y), NEW e \in Y, NEW f \in Y, e # f
  PROVE  e[1] # f[1] /\ <<e[2], e[3]>> # <<f[2], f[3]>>
<1>1. /\ Exists(e[1]) /\ pipeRow[e[1]] = [in |-> e[2], out |-> e[3], st |-> "running"]
      /\ Exists(f[1]) /\ pipeRow[f[1]] = [in |-> f[2], out |-> f[3], st |-> "running"]
  BY DEF Pending
<1>2. /\ e[1] \in PipeIds /\ f[1] \in PipeIds
      /\ e = <<e[1], e[2], e[3]>> /\ f = <<f[1], f[2], f[3]>>
  BY DEF Triples
<1>3. <<e[2], e[3]>> = <<f[2], f[3]>> => e[1] = f[1]
  BY <1>1, <1>2 DEF Steady, PairUnique
<1>4. e[1] = f[1] => e[2] = f[2] /\ e[3] = f[3]
  BY <1>1
<1> QED
  BY <1>2, <1>3, <1>4

(* The row of a pipe that could not be started says stopped.                  *)
LEMMA SoundGivenUp ==
  ASSUME Steady, SameHub, UNCHANGED <<inRow, outRow>>, NEW X \in SUBSET Triples, NEW e \in Triples, e \notin X,
         pipeRow' = IF Exists(e[1]) THEN [pipeRow EXCEPT ![e[1]].st = "stopped"] ELSE pipeRow,
         Sound(X \cup {e}, {}, {}), ~PipeOn(e[2], e[3])
  PROVE  Sound(X, {e[2]}, {e[3]})'
<1> DEFINE Y == X \cup {e}
<1>1. /\ UNCHANGED <<sources, sinks, pipes, srcOn, snkOn, pstate, held>>
      /\ inRow' = inRow /\ outRow' = outRow
  BY HubStays
<1>2. /\ e[1] \in PipeIds /\ Exists(e[1])
      /\ pipeRow[e[1]].in = e[2] /\ pipeRow[e[1]].out = e[3]
  <2>1. e \in Y /\ Pending(Y) /\ e[1] \in PipeIds
    BY DEF Triples, Sound
  <2>2. Exists(e[1]) /\ pipeRow[e[1]] = [in |-> e[2], out |-> e[3], st |-> "running"]
    BY <2>1 DEF Pending
  <2> QED
    BY <2>1, <2>2
<1>3. /\ pipeRow'[e[1]].st = "stopped"
      /\ \A p \in PipeIds : p # e[1] => pipeRow'[p] = pipeRow[p]
  BY <1>2, KeyTyped DEF Steady, PlaneInv, RowsTyped, Rows
<1>4. \A f \in X : f[1] \in PipeIds /\ f[1] # e[1]
  <2>1. TAKE f \in X
  <2>2. Y \in SUBSET Triples /\ e \in Y /\ f \in Y /\ e # f /\ Pending(Y)
    BY DEF Sound
  <2>3. f[1] # e[1]
    BY <2>2, PendingApart
  <2> QED
    BY <2>3 DEF Triples
<1>5. Pending(X)'
  <2> SUFFICES ASSUME NEW f \in X
               PROVE  pipeRow'[f[1]] # NoRow /\ pipeRow'[f[1]] = [in |-> f[2], out |-> f[3], st |-> "running"]
    BY DEF Pending, Exists
  <2>1. Exists(f[1]) /\ pipeRow[f[1]] = [in |-> f[2], out |-> f[3], st |-> "running"]
    BY DEF Sound, Pending
  <2> QED
    BY <1>3, <1>4, <2>1 DEF Exists
<1>6. \A p \in PipeIds : Exists(p)' /\ IsRunning(p)' => p # e[1] /\ Exists(p) /\ IsRunning(p)
  BY <1>3 DEF Exists, IsRunning
<1>7. Settled(X)'
  <2> SUFFICES ASSUME NEW p \in PipeIds, Exists(p)', IsRunning(p)', \A f \in X : f[1] # p
               PROVE  /\ pipes'[Key(p)'] # 0 /\ pstate'[pipes'[Key(p)']] = "running"
                      /\ (sources'[pipeRow'[p].in] \in srcOn' \/ "src" \in Faults) /\ inRow'[pipeRow'[p].in] = "running"
                      /\ (sinks'[pipeRow'[p].out] \in snkOn' \/ "snk" \in Faults) /\ outRow'[pipeRow'[p].out] = "running"
    BY DEF Settled, PipeOn, InOn, OutOn, Key, InTold, OutTold
  <2>1. p # e[1] /\ Exists(p) /\ IsRunning(p) /\ pipeRow'[p] = pipeRow[p]
    BY <1>3, <1>6
  <2>2. \A f \in Y : f[1] # p
    BY <2>1
  <2>3. /\ PipeOn(pipeRow[p].in, pipeRow[p].out)
        /\ InTold(pipeRow[p].in) /\ inRow[pipeRow[p].in] = "running"
        /\ OutTold(pipeRow[p].out) /\ outRow[pipeRow[p].out] = "running"
    BY <2>1, <2>2 DEF Sound, Settled
  <2>4. Key(p)' = <<pipeRow[p].in, pipeRow[p].out>>
    BY <2>1 DEF Key
  <2> QED
    BY <1>1, <2>1, <2>3, <2>4 DEF InOn, OutOn, PipeOn, InTold, OutTold
<1>8. NothingLoose'
  <2>1. ASSUME NEW x \in Objs, pstate[x] = "running"
        PROVE  \E p \in PipeIds : Exists(p)' /\ IsRunning(p)' /\ pipes[<<pipeRow'[p].in, pipeRow'[p].out>>] = x
    <3>1. PICK p \in PipeIds : Exists(p) /\ IsRunning(p) /\ pipes[Key(p)] = x
      BY <2>1 DEF Sound, NothingLoose
    <3>2. x # 0
      BY OnTyped
    <3>3. p # e[1]
      BY <1>2, <2>1, <3>1, <3>2 DEF Key, PipeOn
    <3> QED
      BY <1>3, <3>1, <3>3 DEF Key, Exists, IsRunning
  <2> QED
    BY <1>1, <2>1 DEF Sound, NothingLoose, Exists, IsRunning, Key
<1>9. Accounted(X, {e[2]}, {e[3]})'
  BY <1>1 DEF Sound, Accounted, InOn, OutOn
<1> QED
  BY <1>5, <1>7, <1>8, <1>9 DEF Sound

(* A pipe that was started is settled, after the step that completes it.     *)
LEMMA SoundSettled ==
  ASSUME NEW X \in SUBSET Triples, NEW e \in Triples, Sound(X \cup {e}, {}, {})',
         PipeOn(e[2], e[3])', InTold(e[2])', OutTold(e[3])', inRow'[e[2]] = "running", outRow'[e[3]] = "running"
  PROVE  Sound(X, {}, {})'
<1>1. pipeRow'[e[1]].in = e[2] /\ pipeRow'[e[1]].out = e[3]
  <2>1. pipeRow'[e[1]] = [in |-> e[2], out |-> e[3], st |-> "running"]
    BY DEF Sound, Pending
  <2> QED
    BY <2>1
<1>2. Settled(X)'
  <2> SUFFICES ASSUME NEW p \in PipeIds, Exists(p)', IsRunning(p)', \A f \in X : f[1] # p
               PROVE  /\ pipes'[Key(p)'] # 0 /\ pstate'[pipes'[Key(p)']] = "running"
                      /\ (sources'[pipeRow'[p].in] \in srcOn' \/ "src" \in Faults) /\ inRow'[pipeRow'[p].in] = "running"
                      /\ (sinks'[pipeRow'[p].out] \in snkOn' \/ "snk" \in Faults) /\ outRow'[pipeRow'[p].out] = "running"
    BY DEF Settled, PipeOn, InOn, OutOn, Key, InTold, OutTold
  <2>1. CASE p = e[1]
    BY <1>1, <2>1 DEF PipeOn, InOn, OutOn, Key, InTold, OutTold
  <2>2. CASE p # e[1]
    <3>1. \A f \in X \cup {e} : f[1] # p
      BY <2>2
    <3> QED
      BY <3>1 DEF Sound, Settled, PipeOn, InOn, OutOn, Key, InTold, OutTold
  <2> QED
    BY <2>1, <2>2
<1>3. Accounted(X, {}, {})'
  BY DEF Sound, Accounted
<1>4. Pending(X)'
  BY DEF Sound, Pending
<1> QED
  BY <1>2, <1>3, <1>4 DEF Sound

-----------------------------------------------------------------------------
(* Restore starts a pipe.                                                    *)
LEMMA BootCalls == Boot \in Callers
  BY PlaneAssumption

\* HeadIs, of Boot
LEMMA BootHead ==
  ASSUME NEW w \in Seq(Instr), NEW rest \in Seq(Instr), NEW k \in 1 .. Len(w),
         prog[Boot] = After(w, rest, k)
  PROVE  prog[Boot][1] = w[k] /\ Arg(Boot) = w[k].x /\ At(Boot, w[k].op)
<1>1. prog[Boot] # <<>> /\ prog[Boot][1] = w[k]
  BY AfterParts
<1> QED
  BY <1>1 DEF At, Arg

LEMMA PipeItemOps ==
  ASSUME NEW e \in Triples
  PROVE  /\ PipeItem(e)[1].op = "needIn" /\ PipeItem(e)[1].x = e[2]
         /\ PipeItem(e)[2].op = "needOut" /\ PipeItem(e)[2].x = e[3]
         /\ PipeItem(e)[3].op = "createIn" /\ PipeItem(e)[3].x = e[2]
         /\ PipeItem(e)[4].op = "createOut" /\ PipeItem(e)[4].x = e[3]
         /\ PipeItem(e)[5].op = "connect" /\ PipeItem(e)[5].x = <<e[2], e[3]>>
         /\ PipeItem(e)[6].op = "findOut" /\ PipeItem(e)[6].x = e[3]
         /\ PipeItem(e)[7].op = "runOut" /\ PipeItem(e)[7].x = e[3]
         /\ PipeItem(e)[8].op = "findIn" /\ PipeItem(e)[8].x = e[2]
         /\ PipeItem(e)[9].op = "runIn" /\ PipeItem(e)[9].x = e[2]
         /\ PipeItem(e)[10].op = "findPipe" /\ PipeItem(e)[10].x = <<e[2], e[3]>>
         /\ PipeItem(e)[11].op = "runPipe" /\ PipeItem(e)[11].x = <<e[2], e[3]>>
         /\ PipeItem(e)[12].op = "donePipe" /\ PipeItem(e)[12].x = e
<1>1. /\ \A op, x : On(op, x).op = op /\ On(op, x).x = x
      /\ \A op, i, o : For(op, i, o).op = op /\ For(op, i, o).x = <<i, o>>
  BY DEF On, For
<1> DEFINE w == PipeItem(e)
<1>2. /\ w[1] = On("needIn", e[2]) /\ w[2] = On("needOut", e[3])
      /\ w[3] = On("createIn", e[2]) /\ w[4] = On("createOut", e[3])
  BY PipeItemIs
<1>3. /\ w[5] = For("connect", e[2], e[3]) /\ w[6] = On("findOut", e[3])
      /\ w[7] = On("runOut", e[3]) /\ w[8] = On("findIn", e[2])
  BY PipeItemIs
<1>4. /\ w[9] = On("runIn", e[2]) /\ w[10] = For("findPipe", e[2], e[3])
      /\ w[11] = For("runPipe", e[2], e[3]) /\ w[12] = On("donePipe", e)
  BY PipeItemIs
<1> HIDE DEF w
<1>5. /\ w[1].op = "needIn" /\ w[1].x = e[2] /\ w[2].op = "needOut" /\ w[2].x = e[3]
      /\ w[3].op = "createIn" /\ w[3].x = e[2] /\ w[4].op = "createOut" /\ w[4].x = e[3]
  BY <1>1, <1>2
<1>6. /\ w[5].op = "connect" /\ w[5].x = <<e[2], e[3]>> /\ w[6].op = "findOut" /\ w[6].x = e[3]
      /\ w[7].op = "runOut" /\ w[7].x = e[3] /\ w[8].op = "findIn" /\ w[8].x = e[2]
  BY <1>1, <1>3
<1>7. /\ w[9].op = "runIn" /\ w[9].x = e[2] /\ w[10].op = "findPipe" /\ w[10].x = <<e[2], e[3]>>
      /\ w[11].op = "runPipe" /\ w[11].x = <<e[2], e[3]>> /\ w[12].op = "donePipe" /\ w[12].x = e
  BY <1>1, <1>4
<1> QED
  BY <1>5, <1>6, <1>7 DEF w

LEMMA PipeItemHead ==
  ASSUME NEW X \in SUBSET Triples, NEW e \in Triples, NEW k \in 1 .. 12, Starting(X, e, k)
  PROVE  At(Boot, PipeItem(e)[k].op) /\ Arg(Boot) = PipeItem(e)[k].x
<1>1. PipeItem(e) \in Seq(Instr) /\ k \in 1 .. Len(PipeItem(e)) /\ PipesLeft(X) \in Seq(Instr)
  BY PipeItemIs, LeftTyped
<1>2. prog[Boot] = After(PipeItem(e), PipesLeft(X), k)
  BY DEF Starting, BootProg
<1> QED
  BY <1>1, <1>2, BootCalls, HeadIs

LEMMA StartingGoesOn ==
  ASSUME Steady, NEW X \in SUBSET Triples, NEW e \in Triples, NEW k \in 1 .. 11, Starting(X, e, k),
         Continue(Boot), Sound(X \cup {e}, {}, {})', NotYet(X)', ItemFacts(k + 1, e[2], e[3])'
  PROVE  PipesPhase'
<1>1. PipeItem(e) \in Seq(Instr) /\ k \in 1 .. Len(PipeItem(e)) /\ PipesLeft(X) \in Seq(Instr)
  BY PipeItemIs, LeftTyped
<1>2. prog[Boot] = After(PipeItem(e), PipesLeft(X), k) /\ e \notin X
  BY DEF Starting, BootProg
<1>3. prog'[Boot] = After(PipeItem(e), PipesLeft(X), k + 1)
  BY <1>1, <1>2, BootCalls, GoOn DEF Steady, PlaneInv
<1>4. k + 1 \in 1 .. 12 /\ Starting(X, e, k + 1)'
  BY <1>2, <1>3 DEF Starting, BootProg
<1> QED
  BY <1>4 DEF PipesPhase

LEMMA StartingFails ==
  ASSUME Steady, NEW X \in SUBSET Triples, NEW e \in Triples, NEW k \in 1 .. 11, Starting(X, e, k),
         Fail(Boot), UNCHANGED <<rowVars, regVars, objVars>>
  PROVE  PipesPhase'
<1>1. PipeItem(e) \in Seq(Instr) /\ k \in 1 .. Len(PipeItem(e)) /\ PipesLeft(X) \in Seq(Instr)
  BY PipeItemIs, LeftTyped
<1>2. prog[Boot] = After(PipeItem(e), PipesLeft(X), k) /\ e \notin X
      /\ Sound(X \cup {e}, {}, {}) /\ NotYet(X) /\ ~PipeOn(e[2], e[3])
  BY DEF Starting, BootProg, ItemFacts
<1>3. \A j \in 1 .. 11 : PipeItem(e)[j].op \notin Catches
  <2>1. TAKE j \in 1 .. 11
  <2>2. j \in {1, 2, 3, 4, 5, 6, 7, 8, 9, 10, 11}
    OBVIOUS
  <2> QED
    BY <2>2, PipeItemOps DEF Catches
<1>4. Len(PipeItem(e)) = 12 /\ PipeItem(e)[12] = On("donePipe", e)
  BY PipeItemIs
<1>5. PipeItem(e)[12].op \in Catches /\ Rescue(PipeItem(e)[12]) = Rescued(e)
  BY <1>4 DEF On, Catches, Rescue, Rescued
<1>6. \A j \in k .. 11 : PipeItem(e)[j].op \notin Catches
  BY <1>3
<1>7. prog'[Boot] = Rescue(PipeItem(e)[12]) \o PipesLeft(X)
  <2> HIDE DEF Rescue, Fail, Catches
  <2>1. PipeItem(e)[Len(PipeItem(e))].op \in Catches /\ \A j \in k .. Len(PipeItem(e)) - 1 : PipeItem(e)[j].op \notin Catches
    BY <1>4, <1>5, <1>6
  <2>2. prog'[Boot] = Rescue(PipeItem(e)[Len(PipeItem(e))]) \o PipesLeft(X)
    BY <1>1, <1>2, <2>1, BootCalls, GiveUp DEF Steady, PlaneInv
  <2> QED
    BY <1>4, <2>2
<1>8. prog'[Boot] = After(Rescued(e), PipesLeft(X), 1)
  <2>1. Rescued(e) \in Seq(Instr) /\ Rescued(e) # <<>>
    BY ShortItemsAre
  <2> QED
    BY <1>1, <1>5, <1>7, <2>1, AfterEnds
<1>9. SameIns /\ SameOuts /\ SamePipes /\ NothingLoose' /\ UNCHANGED rowVars
  BY <1>2, OnAfterNothing DEF rowVars, objVars, Sound
<1>10. Sound(X \cup {e}, {}, {})'
  BY <1>2, <1>9, SoundGrows DEF SameIns, SameOuts, SamePipes
<1>11. NotYet(X)' /\ ~PipeOn(e[2], e[3])'
  BY <1>2, <1>9 DEF NotYet, SamePipes, Triples
<1>12. Rescuing(X, e, 1)'
  BY <1>2, <1>8, <1>10, <1>11 DEF Rescuing, BootProg
<1> QED
  BY <1>12 DEF PipesPhase

(* What holds before each of its instructions, put together.                 *)
LEMMA StartingFacts ==
  ASSUME Steady, NEW X \in SUBSET Triples, NEW e \in Triples, NEW k \in 1 .. 12, Starting(X, e, k)
  PROVE  /\ e[2] \in Inputs /\ e[3] \in Outputs /\ e \notin X /\ NothingLoose
         /\ Sound(X \cup {e}, {}, {}) /\ NotYet(X) /\ ItemFacts(k, e[2], e[3])
         /\ \E p \in PipeIds : Exists(p) /\ IsRunning(p) /\ Key(p) = <<e[2], e[3]>>
<1>1. /\ e[1] \in PipeIds /\ e[2] \in Inputs /\ e[3] \in Outputs
      /\ Sound(X \cup {e}, {}, {}) /\ NotYet(X) /\ ItemFacts(k, e[2], e[3]) /\ e \notin X
  BY DEF Triples, Starting
<1>2. Exists(e[1]) /\ pipeRow[e[1]] = [in |-> e[2], out |-> e[3], st |-> "running"]
  BY <1>1 DEF Sound, Pending
<1>3. IsRunning(e[1]) /\ Key(e[1]) = <<e[2], e[3]>>
  BY <1>2 DEF IsRunning, Key
<1> QED
  BY <1>1, <1>2, <1>3 DEF Sound

(* A step that starts no pipe, and no input or output but those of the item.  *)
LEMMA StartingKeeps ==
  ASSUME Steady, NEW X \in SUBSET Triples, NEW e \in Triples, NEW k \in 1 .. 12, Starting(X, e, k),
         UNCHANGED rowVars, NothingLoose', SamePipes,
         \A j \in Inputs : InOn(j) => InOn(j)',
         \A j \in Outputs : OutOn(j) => OutOn(j)',
         \A j \in Inputs : InOn(j)' => InOn(j) \/ j = e[2],
         \A j \in Outputs : OutOn(j)' => OutOn(j) \/ j = e[3]
  PROVE  Sound(X \cup {e}, {}, {})' /\ NotYet(X)' /\ (k <= 11 => ~PipeOn(e[2], e[3])')
<1>1. e[2] \in Inputs /\ e[3] \in Outputs /\ Sound(X \cup {e}, {}, {}) /\ NotYet(X)
      /\ (k <= 11 => ~PipeOn(e[2], e[3]))
  BY StartingFacts DEF ItemFacts
<1>2. \A j \in Inputs \ {} : InOn(j)' => InOn(j) \/ \E f \in X \cup {e} : f[2] = j
  OBVIOUS
<1>3. \A j \in Outputs \ {} : OutOn(j)' => OutOn(j) \/ \E f \in X \cup {e} : f[3] = j
  OBVIOUS
<1>4. Sound(X \cup {e}, {}, {})'
  BY <1>1, <1>2, <1>3, SoundGrows DEF SamePipes
<1>5. NotYet(X)' /\ (k <= 11 => ~PipeOn(e[2], e[3])')
  BY <1>1 DEF NotYet, SamePipes, Triples
<1> QED
  BY <1>4, <1>5

LEMMA StartingReads ==
  ASSUME Steady, Exec(Boot), NEW X \in SUBSET Triples, NEW e \in Triples, NEW k \in 1 .. 2, Starting(X, e, k)
  PROVE  PipesPhase'
<1> DEFINE i == e[2]
           o == e[3]
<1>1. k \in 1 .. 11 /\ k \in 1 .. 12
  OBVIOUS
<1>2. /\ k = 1 => At(Boot, "needIn") /\ Arg(Boot) = i
      /\ k = 2 => At(Boot, "needOut") /\ Arg(Boot) = o
  <2>1. At(Boot, PipeItem(e)[k].op) /\ Arg(Boot) = PipeItem(e)[k].x
    BY <1>1, PipeItemHead
  <2> QED
    BY <2>1, PipeItemOps
<1>3. /\ Still
      /\ k = 1 => (inRow[i] # "none" /\ Continue(Boot)) \/ Fail(Boot)
      /\ k = 2 => (outRow[o] # "none" /\ Continue(Boot)) \/ Fail(Boot)
  BY <1>1, <1>2, BootCalls, ReadsDo
<1>4. UNCHANGED <<rowVars, regVars, objVars>> /\ UNCHANGED <<inRow, outRow>>
  BY <1>3 DEF Still, SameHub, SameRows, hubVars, rowVars
<1>5. ItemFacts(k, i, o) /\ NothingLoose
  BY <1>1, StartingFacts
<1>6. /\ SameIns /\ SameOuts /\ SamePipes /\ NothingLoose'
  BY <1>4, <1>5, OnAfterNothing DEF rowVars, objVars
<1>7. Sound(X \cup {e}, {}, {})' /\ NotYet(X)' /\ ~PipeOn(i, o)'
  BY <1>1, <1>4, <1>6, StartingKeeps DEF SameIns, SameOuts
<1>8. CASE Fail(Boot)
  BY <1>1, <1>4, <1>8, StartingFails
<1>9. CASE Continue(Boot) /\ (k = 1 => inRow[i] # "none") /\ (k = 2 => outRow[o] # "none")
  <2>1. ItemFacts(k + 1, i, o)'
    <3>1. (k >= 2 => inRow[i] # "none") /\ (k = 1 => inRow[i] # "none")
      BY <1>5, <1>9 DEF ItemFacts
    <3>2. inRow'[i] # "none" /\ (k + 1 >= 3 => outRow'[o] # "none")
      BY <1>4, <1>9, <3>1
    <3> QED
      BY <1>7, <3>2 DEF ItemFacts
  <2> QED
    BY <1>1, <1>7, <1>9, <2>1, StartingGoesOn
<1> QED
  BY <1>3, <1>8, <1>9

LEMMA StartingCreates ==
  ASSUME Steady, Exec(Boot), NEW X \in SUBSET Triples, NEW e \in Triples, NEW k \in 3 .. 4, Starting(X, e, k)
  PROVE  PipesPhase'
<1> DEFINE i == e[2]
           o == e[3]
<1>1. k \in 1 .. 11 /\ k \in 1 .. 12
  OBVIOUS
<1>2. /\ k = 3 => At(Boot, "createIn") /\ Arg(Boot) = i
      /\ k = 4 => At(Boot, "createOut") /\ Arg(Boot) = o
  <2>1. At(Boot, PipeItem(e)[k].op) /\ Arg(Boot) = PipeItem(e)[k].x
    BY <1>1, PipeItemHead
  <2> QED
    BY <2>1, PipeItemOps
<1>3. /\ k = 3 => CreateInput(i) \/ UNCHANGED <<regVars, objVars>>
      /\ k = 4 => CreateOutput(o) \/ UNCHANGED <<regVars, objVars>>
      /\ Continue(Boot) /\ SameRows
  <2>1. CASE k = 3
    <3>1. At(Boot, "createIn") /\ Arg(Boot) = i
      BY <1>2, <2>1
    <3>2. (CreateInput(Arg(Boot)) \/ UNCHANGED <<regVars, objVars>>) /\ Continue(Boot) /\ SameRows
      BY <3>1, BootCalls, CallsDo
    <3> QED
      BY <2>1, <3>1, <3>2
  <2>2. CASE k = 4
    <3>1. At(Boot, "createOut") /\ Arg(Boot) = o
      BY <1>2, <2>2
    <3>2. (CreateOutput(Arg(Boot)) \/ UNCHANGED <<regVars, objVars>>) /\ Continue(Boot) /\ SameRows
      BY <3>1, BootCalls, CallsDo
    <3> QED
      BY <2>2, <3>1, <3>2
  <2> QED
    BY <2>1, <2>2
<1>4. i \in Inputs /\ o \in Outputs /\ ItemFacts(k, i, o) /\ NothingLoose
  BY <1>1, StartingFacts
<1>5. UNCHANGED rowVars /\ UNCHANGED <<inRow, outRow, pipeRow>>
  BY <1>3 DEF SameRows, rowVars
<1>6. SameIns /\ SameOuts /\ SamePipes /\ NothingLoose'
  <2>1. CASE UNCHANGED <<regVars, objVars>>
    BY <1>4, <1>5, <2>1, OnAfterNothing DEF objVars
  <2>2. CASE CreateInput(i)
    BY <1>4, <1>5, <2>2, OnAfterCreateInput
  <2>3. CASE CreateOutput(o)
    BY <1>4, <1>5, <2>3, OnAfterCreateOutput
  <2> QED
    BY <1>3, <2>1, <2>2, <2>3
<1>7. Sound(X \cup {e}, {}, {})' /\ NotYet(X)' /\ ~PipeOn(i, o)'
  BY <1>1, <1>5, <1>6, StartingKeeps DEF SameIns, SameOuts
<1>8. ItemFacts(k + 1, i, o)'
  <2>1. inRow'[i] # "none" /\ outRow'[o] # "none"
    BY <1>4, <1>5 DEF ItemFacts
  <2> QED
    BY <1>7, <2>1 DEF ItemFacts
<1> QED
  BY <1>1, <1>3, <1>7, <1>8, StartingGoesOn

LEMMA StartingConnects ==
  ASSUME Steady, Exec(Boot), NEW X \in SUBSET Triples, NEW e \in Triples, Starting(X, e, 5)
  PROVE  PipesPhase'
<1> DEFINE i == e[2]
           o == e[3]
<1>1. 5 \in 1 .. 11 /\ 5 \in 1 .. 12
  OBVIOUS
<1>2. At(Boot, "connect") /\ Arg(Boot) = <<i, o>>
  <2>1. At(Boot, PipeItem(e)[5].op) /\ Arg(Boot) = PipeItem(e)[5].x
    BY <1>1, PipeItemHead
  <2> QED
    BY <2>1, PipeItemOps
<1>3. /\ \/ Connect(i, o) /\ Continue(Boot)
         \/ pipes[<<i, o>>] # 0 /\ UNCHANGED <<regVars, objVars>> /\ Continue(Boot)
         \/ UNCHANGED <<regVars, objVars>> /\ Fail(Boot)
      /\ SameRows
  BY <1>2, BootCalls, CallsDo
<1>4. i \in Inputs /\ o \in Outputs /\ ItemFacts(5, i, o) /\ NothingLoose
  BY <1>1, StartingFacts
<1>5. UNCHANGED rowVars /\ UNCHANGED <<inRow, outRow, pipeRow>>
  BY <1>3 DEF SameRows, rowVars
<1>6. CASE UNCHANGED <<regVars, objVars>> /\ Fail(Boot)
  BY <1>1, <1>5, <1>6, StartingFails
<1>7. CASE Continue(Boot) /\ (Connect(i, o) \/ (pipes[<<i, o>>] # 0 /\ UNCHANGED <<regVars, objVars>>))
  <2>1. SameIns /\ SameOuts /\ SamePipes /\ NothingLoose' /\ pipes'[<<i, o>>] # 0
    <3>1. CASE Connect(i, o)
      BY <1>4, <1>5, <3>1, OnAfterConnect
    <3>2. CASE pipes[<<i, o>>] # 0 /\ UNCHANGED <<regVars, objVars>>
      BY <1>4, <1>5, <3>2, OnAfterNothing DEF objVars, regVars
    <3> QED
      BY <1>7, <3>1, <3>2
  <2>2. Sound(X \cup {e}, {}, {})' /\ NotYet(X)' /\ ~PipeOn(i, o)'
    BY <1>1, <1>5, <2>1, StartingKeeps DEF SameIns, SameOuts
  <2>3. ItemFacts(5 + 1, i, o)'
    BY <1>4, <1>5, <2>1, <2>2 DEF ItemFacts
  <2> QED
    BY <1>1, <1>7, <2>2, <2>3, StartingGoesOn
<1> QED
  BY <1>3, <1>6, <1>7

LEMMA StartingFindsOut ==
  ASSUME Steady, Exec(Boot), NEW X \in SUBSET Triples, NEW e \in Triples, Starting(X, e, 6)
  PROVE  PipesPhase'
<1> DEFINE i == e[2]
           o == e[3]
<1>1. 6 \in 1 .. 11 /\ 6 \in 1 .. 12
  OBVIOUS
<1>2. At(Boot, "findOut") /\ Arg(Boot) = o
  <2>1. At(Boot, PipeItem(e)[6].op) /\ Arg(Boot) = PipeItem(e)[6].x
    BY <1>1, PipeItemHead
  <2> QED
    BY <2>1, PipeItemOps
<1>3. i \in Inputs /\ o \in Outputs /\ ItemFacts(6, i, o) /\ NothingLoose
  BY <1>1, StartingFacts
<1>4. pipes[<<i, o>>] # 0 /\ sinks[o] # 0
  <2>1. pipes[<<i, o>>] # 0
    BY <1>3 DEF ItemFacts
  <2> QED
    BY <1>3, <2>1 DEF Steady, PlaneInv, HubInv, HubConsistent, PipesBound
<1>5. FindSink(Boot, o) /\ Continue(Boot) /\ SameRows
  <2>1. sinks[Arg(Boot)] # 0
    BY <1>2, <1>4
  <2>2. FindSink(Boot, Arg(Boot)) /\ Continue(Boot) /\ SameRows
    BY <1>2, <2>1, BootCalls, FindsDo
  <2> QED
    BY <1>2, <2>2
<1>6. UNCHANGED <<rowVars, inRow, outRow, pipeRow, regVars, objVars>>
  BY <1>5 DEF SameRows, rowVars, FindSink
<1>7. SameIns /\ SameOuts /\ SamePipes /\ NothingLoose'
  BY <1>3, <1>6, OnAfterNothing DEF objVars
<1>8. Sound(X \cup {e}, {}, {})' /\ NotYet(X)' /\ ~PipeOn(i, o)'
  BY <1>1, <1>6, <1>7, StartingKeeps DEF SameIns, SameOuts
<1>9. held'[Boot] = <<"snk", sinks'[o]>>
  BY <1>5, <1>6, BootCalls DEF FindSink, Hold, regVars, Steady, PlaneInv, HubInv, HubTypeOK
<1>10. ItemFacts(6 + 1, i, o)'
  <2>1. inRow'[i] # "none" /\ outRow'[o] # "none" /\ pipes'[<<i, o>>] # 0
    BY <1>3, <1>4, <1>6 DEF ItemFacts, regVars
  <2> QED
    BY <1>8, <1>9, <2>1 DEF ItemFacts
<1> QED
  BY <1>1, <1>5, <1>8, <1>10, StartingGoesOn

LEMMA StartingRunsOut ==
  ASSUME Steady, Exec(Boot), NEW X \in SUBSET Triples, NEW e \in Triples, Starting(X, e, 7)
  PROVE  PipesPhase'
<1> DEFINE i == e[2]
           o == e[3]
<1>1. 7 \in 1 .. 11 /\ 7 \in 1 .. 12
  OBVIOUS
<1>2. At(Boot, "runOut")
  <2>1. At(Boot, PipeItem(e)[7].op)
    BY <1>1, PipeItemHead
  <2> QED
    BY <2>1, PipeItemOps
<1>3. i \in Inputs /\ o \in Outputs /\ ItemFacts(7, i, o) /\ NothingLoose
  BY <1>1, StartingFacts
<1>4. pipes[<<i, o>>] # 0 /\ sinks[o] # 0 /\ held[Boot] = <<"snk", sinks[o]>>
  <2>1. pipes[<<i, o>>] # 0 /\ held[Boot] = <<"snk", sinks[o]>>
    BY <1>3 DEF ItemFacts
  <2> QED
    BY <1>3, <2>1 DEF Steady, PlaneInv, HubInv, HubConsistent, PipesBound
<1>5. (RunSink(Boot) \/ RunSinkFails(Boot)) /\ Continue(Boot) /\ SameRows
  BY <1>2, BootCalls, RunsDo
<1>6. UNCHANGED <<rowVars, inRow, outRow, pipeRow>>
  BY <1>5 DEF SameRows, rowVars
<1>7. /\ \A j \in Outputs : (OutOn(j)' => OutOn(j) \/ j = o) /\ (OutOn(j) => OutOn(j)')
      /\ OutTold(o)' /\ SameIns /\ SamePipes /\ NothingLoose' /\ UNCHANGED regVars
  <2>1. CASE RunSink(Boot)
    <3>1. /\ \A j \in Outputs : OutOn(j)' <=> OutOn(j) \/ j = o
          /\ SameIns /\ SamePipes /\ NothingLoose' /\ UNCHANGED regVars
      BY <1>3, <1>4, <1>6, <2>1, BootCalls, OnAfterRunSink
    <3> QED
      BY <1>3, <3>1 DEF OutTold
  <2>2. CASE RunSinkFails(Boot)
    <3>1. UNCHANGED <<regVars, objVars>> /\ "snk" \in Faults
      BY <2>2 DEF RunSinkFails
    <3>2. SameIns /\ SameOuts /\ SamePipes /\ NothingLoose'
      BY <1>3, <1>6, <3>1, OnAfterNothing DEF objVars
    <3> QED
      BY <3>1, <3>2 DEF OutTold, SameIns, SameOuts
  <2> QED
    BY <1>5, <2>1, <2>2
<1>8. Sound(X \cup {e}, {}, {})' /\ NotYet(X)' /\ ~PipeOn(i, o)'
  BY <1>1, <1>6, <1>7, StartingKeeps DEF SameIns
<1>9. ItemFacts(7 + 1, i, o)'
  <2>1. inRow'[i] # "none" /\ outRow'[o] # "none" /\ pipes'[<<i, o>>] # 0
    BY <1>3, <1>4, <1>6, <1>7 DEF ItemFacts, regVars
  <2>2. OutTold(o)'
    BY <1>3, <1>7
  <2> QED
    BY <1>8, <2>1, <2>2 DEF ItemFacts
<1> QED
  BY <1>1, <1>5, <1>8, <1>9, StartingGoesOn

LEMMA StartingFindsIn ==
  ASSUME Steady, Exec(Boot), NEW X \in SUBSET Triples, NEW e \in Triples, Starting(X, e, 8)
  PROVE  PipesPhase'
<1> DEFINE i == e[2]
           o == e[3]
<1>1. 8 \in 1 .. 11 /\ 8 \in 1 .. 12
  OBVIOUS
<1>2. At(Boot, "findIn") /\ Arg(Boot) = i
  <2>1. At(Boot, PipeItem(e)[8].op) /\ Arg(Boot) = PipeItem(e)[8].x
    BY <1>1, PipeItemHead
  <2> QED
    BY <2>1, PipeItemOps
<1>3. i \in Inputs /\ o \in Outputs /\ ItemFacts(8, i, o) /\ NothingLoose
  BY <1>1, StartingFacts
<1>4. pipes[<<i, o>>] # 0 /\ sources[i] # 0
  <2>1. pipes[<<i, o>>] # 0
    BY <1>3 DEF ItemFacts
  <2> QED
    BY <1>3, <2>1 DEF Steady, PlaneInv, HubInv, HubConsistent, PipesBound
<1>5. FindSource(Boot, i) /\ Continue(Boot) /\ SameRows
  <2>1. sources[Arg(Boot)] # 0
    BY <1>2, <1>4
  <2>2. FindSource(Boot, Arg(Boot)) /\ Continue(Boot) /\ SameRows
    BY <1>2, <2>1, BootCalls, FindsDo
  <2> QED
    BY <1>2, <2>2
<1>6. UNCHANGED <<rowVars, inRow, outRow, pipeRow, regVars, objVars>>
  BY <1>5 DEF SameRows, rowVars, FindSource
<1>7. SameIns /\ SameOuts /\ SamePipes /\ NothingLoose'
  BY <1>3, <1>6, OnAfterNothing DEF objVars
<1>8. Sound(X \cup {e}, {}, {})' /\ NotYet(X)' /\ ~PipeOn(i, o)'
  BY <1>1, <1>6, <1>7, StartingKeeps DEF SameIns, SameOuts
<1>9. held'[Boot] = <<"src", sources'[i]>>
  BY <1>5, <1>6, BootCalls DEF FindSource, Hold, regVars, Steady, PlaneInv, HubInv, HubTypeOK
<1>10. ItemFacts(8 + 1, i, o)'
  <2>1. inRow'[i] # "none" /\ outRow'[o] # "none" /\ pipes'[<<i, o>>] # 0
    BY <1>3, <1>4, <1>6 DEF ItemFacts, regVars
  <2>2. OutTold(o)'
    BY <1>3, <1>7 DEF ItemFacts, SameOuts, OutTold
  <2> QED
    BY <1>8, <1>9, <2>1, <2>2 DEF ItemFacts
<1> QED
  BY <1>1, <1>5, <1>8, <1>10, StartingGoesOn

LEMMA StartingRunsIn ==
  ASSUME Steady, Exec(Boot), NEW X \in SUBSET Triples, NEW e \in Triples, Starting(X, e, 9)
  PROVE  PipesPhase'
<1> DEFINE i == e[2]
           o == e[3]
<1>1. 9 \in 1 .. 11 /\ 9 \in 1 .. 12
  OBVIOUS
<1>2. At(Boot, "runIn")
  <2>1. At(Boot, PipeItem(e)[9].op)
    BY <1>1, PipeItemHead
  <2> QED
    BY <2>1, PipeItemOps
<1>3. i \in Inputs /\ o \in Outputs /\ ItemFacts(9, i, o) /\ NothingLoose
  BY <1>1, StartingFacts
<1>4. pipes[<<i, o>>] # 0 /\ sources[i] # 0 /\ held[Boot] = <<"src", sources[i]>>
  <2>1. pipes[<<i, o>>] # 0 /\ held[Boot] = <<"src", sources[i]>>
    BY <1>3 DEF ItemFacts
  <2> QED
    BY <1>3, <2>1 DEF Steady, PlaneInv, HubInv, HubConsistent, PipesBound
<1>5. (RunSource(Boot) \/ RunSourceFails(Boot)) /\ Continue(Boot) /\ SameRows
  BY <1>2, BootCalls, RunsDo
<1>6. UNCHANGED <<rowVars, inRow, outRow, pipeRow>>
  BY <1>5 DEF SameRows, rowVars
<1>7. /\ \A j \in Inputs : (InOn(j)' => InOn(j) \/ j = i) /\ (InOn(j) => InOn(j)')
      /\ InTold(i)' /\ SameOuts /\ SamePipes /\ NothingLoose' /\ UNCHANGED regVars
  <2>1. CASE RunSource(Boot)
    <3>1. /\ \A j \in Inputs : InOn(j)' <=> InOn(j) \/ j = i
          /\ SameOuts /\ SamePipes /\ NothingLoose' /\ UNCHANGED regVars
      BY <1>3, <1>4, <1>6, <2>1, BootCalls, OnAfterRunSource
    <3> QED
      BY <1>3, <3>1 DEF InTold
  <2>2. CASE RunSourceFails(Boot)
    <3>1. UNCHANGED <<regVars, objVars>> /\ "src" \in Faults
      BY <2>2 DEF RunSourceFails
    <3>2. SameIns /\ SameOuts /\ SamePipes /\ NothingLoose'
      BY <1>3, <1>6, <3>1, OnAfterNothing DEF objVars
    <3> QED
      BY <3>1, <3>2 DEF InTold, SameIns, SameOuts
  <2> QED
    BY <1>5, <2>1, <2>2
<1>8. Sound(X \cup {e}, {}, {})' /\ NotYet(X)' /\ ~PipeOn(i, o)'
  BY <1>1, <1>6, <1>7, StartingKeeps DEF SameOuts
<1>9. ItemFacts(9 + 1, i, o)'
  <2>1. inRow'[i] # "none" /\ outRow'[o] # "none" /\ pipes'[<<i, o>>] # 0
    BY <1>3, <1>4, <1>6, <1>7 DEF ItemFacts, regVars
  <2>2. InTold(i)' /\ OutTold(o)'
    BY <1>3, <1>7 DEF ItemFacts, SameOuts, OutTold
  <2> QED
    BY <1>8, <2>1, <2>2 DEF ItemFacts
<1> QED
  BY <1>1, <1>5, <1>8, <1>9, StartingGoesOn

LEMMA StartingFindsPipe ==
  ASSUME Steady, Exec(Boot), NEW X \in SUBSET Triples, NEW e \in Triples, Starting(X, e, 10)
  PROVE  PipesPhase'
<1> DEFINE i == e[2]
           o == e[3]
<1>1. 10 \in 1 .. 11 /\ 10 \in 1 .. 12
  OBVIOUS
<1>2. At(Boot, "findPipe") /\ Arg(Boot) = <<i, o>>
  <2>1. At(Boot, PipeItem(e)[10].op) /\ Arg(Boot) = PipeItem(e)[10].x
    BY <1>1, PipeItemHead
  <2> QED
    BY <2>1, PipeItemOps
<1>3. i \in Inputs /\ o \in Outputs /\ ItemFacts(10, i, o) /\ NothingLoose
  BY <1>1, StartingFacts
<1>4. pipes[<<i, o>>] # 0
  BY <1>3 DEF ItemFacts
<1>5. FindPipe(Boot, i, o) /\ Continue(Boot) /\ SameRows
  <2>1. /\ \/ FindPipe(Boot, Arg(Boot)[1], Arg(Boot)[2]) /\ Continue(Boot)
           \/ pipes[Arg(Boot)] = 0
        /\ SameRows
    BY <1>2, BootCalls, FindsDo
  <2> QED
    BY <1>2, <1>4, <2>1
<1>6. UNCHANGED <<rowVars, inRow, outRow, pipeRow, regVars, objVars>>
  BY <1>5 DEF SameRows, rowVars, FindPipe
<1>7. SameIns /\ SameOuts /\ SamePipes /\ NothingLoose'
  BY <1>3, <1>6, OnAfterNothing DEF objVars
<1>8. Sound(X \cup {e}, {}, {})' /\ NotYet(X)' /\ ~PipeOn(i, o)'
  BY <1>1, <1>6, <1>7, StartingKeeps DEF SameIns, SameOuts
<1>9. held'[Boot] = <<"pipe", pipes'[<<i, o>>]>>
  BY <1>5, <1>6, BootCalls DEF FindPipe, Hold, regVars, Steady, PlaneInv, HubInv, HubTypeOK
<1>10. ItemFacts(10 + 1, i, o)'
  <2>1. inRow'[i] # "none" /\ outRow'[o] # "none" /\ pipes'[<<i, o>>] # 0
    BY <1>3, <1>4, <1>6 DEF ItemFacts, regVars
  <2>2. OutTold(o)' /\ InTold(i)'
    BY <1>3, <1>7 DEF ItemFacts, SameOuts, SameIns, InTold, OutTold
  <2> QED
    BY <1>8, <1>9, <2>1, <2>2 DEF ItemFacts
<1> QED
  BY <1>1, <1>5, <1>8, <1>10, StartingGoesOn

LEMMA StartingRunsPipe ==
  ASSUME Steady, Exec(Boot), NEW X \in SUBSET Triples, NEW e \in Triples, Starting(X, e, 11)
  PROVE  PipesPhase'
<1> DEFINE i == e[2]
           o == e[3]
<1>1. 11 \in 1 .. 11 /\ 11 \in 1 .. 12
  OBVIOUS
<1>2. At(Boot, "runPipe")
  <2>1. At(Boot, PipeItem(e)[11].op)
    BY <1>1, PipeItemHead
  <2> QED
    BY <2>1, PipeItemOps
<1>3. /\ i \in Inputs /\ o \in Outputs /\ ItemFacts(11, i, o) /\ NothingLoose /\ e \notin X
      /\ Sound(X \cup {e}, {}, {}) /\ NotYet(X)
      /\ \E p \in PipeIds : Exists(p) /\ IsRunning(p) /\ Key(p) = <<i, o>>
  BY <1>1, StartingFacts
<1>4. pipes[<<i, o>>] # 0 /\ held[Boot] = <<"pipe", pipes[<<i, o>>]>> /\ ~PipeOn(i, o)
  BY <1>3 DEF ItemFacts
<1>5. pstate[pipes[<<i, o>>]] = "bound"
  BY <1>3, <1>4, PipeWaits
<1>6. (RunPipe(Boot) /\ Continue(Boot)) \/ (RunPipeFails(Boot) /\ Fail(Boot))
  <2>1. ~RunPipeAgain(Boot)
    BY <1>4, <1>5 DEF RunPipeAgain, NotStarted
  <2> QED
    BY <1>2, <2>1, BootCalls, RunsDo
<1>7. UNCHANGED <<rowVars, inRow, outRow, pipeRow>>
  BY <1>2, BootCalls, RunsDo DEF SameRows, rowVars
<1>8. CASE RunPipeFails(Boot) /\ Fail(Boot)
  <2>1. UNCHANGED <<regVars, objVars>>
    BY <1>8 DEF RunPipeFails
  <2> QED
    BY <1>1, <1>7, <1>8, <2>1, StartingFails
<1>9. CASE RunPipe(Boot) /\ Continue(Boot)
  <2>1. /\ \A j \in Inputs, q \in Outputs : PipeOn(j, q)' <=> PipeOn(j, q) \/ <<j, q>> = <<i, o>>
        /\ SameIns /\ SameOuts /\ NothingLoose' /\ UNCHANGED regVars
    BY <1>3, <1>4, <1>7, <1>9, BootCalls, OnAfterRunPipe
  <2>2. Sound(X \cup {e}, {}, {})'
    BY <1>3, <1>7, <2>1, SoundGrows DEF SameIns, SameOuts
  <2>3. NotYet(X)'
    <3> SUFFICES ASSUME NEW f \in X PROVE ~PipeOn(f[2], f[3])'
      BY DEF NotYet
    <3>1. f \in X \cup {e} /\ e \in X \cup {e} /\ e # f /\ Pending(X \cup {e}) /\ X \cup {e} \in SUBSET Triples
      BY <1>3 DEF Sound
    <3>2. <<e[2], e[3]>> # <<f[2], f[3]>>
      BY <3>1, PendingApart
    <3>3. f[2] \in Inputs /\ f[3] \in Outputs /\ ~PipeOn(f[2], f[3])
      BY <1>3 DEF NotYet, Triples
    <3> QED
      BY <2>1, <3>2, <3>3
  <2>4. ItemFacts(11 + 1, i, o)'
    <3>1. inRow'[i] # "none" /\ outRow'[o] # "none" /\ pipes'[<<i, o>>] # 0
      BY <1>3, <1>4, <1>7, <2>1 DEF ItemFacts, regVars
    <3>2. OutTold(o)' /\ InTold(i)' /\ PipeOn(i, o)'
      BY <1>3, <2>1 DEF ItemFacts, SameOuts, SameIns, InTold, OutTold
    <3> QED
      BY <3>1, <3>2 DEF ItemFacts
  <2> QED
    BY <1>1, <1>9, <2>2, <2>3, <2>4, StartingGoesOn
<1> QED
  BY <1>6, <1>8, <1>9

LEMMA StartingIsDone ==
  ASSUME Steady, Exec(Boot), NEW X \in SUBSET Triples, NEW e \in Triples, Starting(X, e, 12)
  PROVE  PipesPhase'
<1>1. 12 \in 1 .. 12
  OBVIOUS
<1>2. At(Boot, "donePipe") /\ Arg(Boot) = e
  <2>1. At(Boot, PipeItem(e)[12].op) /\ Arg(Boot) = PipeItem(e)[12].x
    BY <1>1, PipeItemHead
  <2> QED
    BY <2>1, PipeItemOps
<1>3. Still /\ Become(Boot, Recorded(e))
  <2>1. Still /\ Become(Boot, StatusProg(Arg(Boot)[2], Arg(Boot)[3], "running"))
    BY <1>2, BootCalls, LoopsDo
  <2> QED
    BY <1>2, <2>1 DEF Recorded
<1>4. UNCHANGED <<rowVars, inRow, outRow, pipeRow, regVars, objVars>>
  BY <1>3 DEF Still, SameHub, SameRows, hubVars, rowVars
<1>5. e[2] \in Inputs /\ e[3] \in Outputs /\ ItemFacts(12, e[2], e[3]) /\ NothingLoose /\ e \notin X
  BY <1>1, StartingFacts
<1>6. SameIns /\ SameOuts /\ SamePipes /\ NothingLoose'
  BY <1>4, <1>5, OnAfterNothing DEF objVars
<1>7. Sound(X \cup {e}, {}, {})' /\ NotYet(X)'
  BY <1>1, <1>4, <1>6, StartingKeeps DEF SameIns, SameOuts
<1>8. ItemFacts(12, e[2], e[3])'
  <2>1. inRow'[e[2]] # "none" /\ outRow'[e[3]] # "none" /\ pipes'[<<e[2], e[3]>>] # 0
    BY <1>4, <1>5 DEF ItemFacts, regVars
  <2>2. OutTold(e[3])' /\ InTold(e[2])' /\ PipeOn(e[2], e[3])'
    BY <1>5, <1>6 DEF ItemFacts, SameOuts, SameIns, SamePipes, InTold, OutTold
  <2> QED
    BY <2>1, <2>2 DEF ItemFacts
<1>9. prog'[Boot] = After(Recorded(e), PipesLeft(X), 1)
  <2>1. /\ PipeItem(e) \in Seq(Instr) /\ Len(PipeItem(e)) = 12 /\ PipesLeft(X) \in Seq(Instr)
        /\ Recorded(e) \in Seq(Instr) /\ Recorded(e) # <<>> /\ 12 \in 1 .. Len(PipeItem(e))
    <3>1. Recorded(e) \in Seq(Instr) /\ Recorded(e) # <<>>
      BY ShortItemsAre DEF Recorded, StatusProg
    <3>2. PipeItem(e) \in Seq(Instr) /\ Len(PipeItem(e)) = 12
      BY PipeItemIs
    <3>3. PipesLeft(X) \in Seq(Instr)
      BY LeftTyped
    <3>4. 12 \in 1 .. Len(PipeItem(e))
      BY <3>2
    <3> QED
      BY <3>1, <3>2, <3>3, <3>4
  <2>2. prog[Boot] = After(PipeItem(e), PipesLeft(X), 12)
    BY DEF Starting, BootProg
  <2>3. prog'[Boot] = After(Recorded(e), After(PipeItem(e), PipesLeft(X), 12 + 1), 1)
    <3>1. ProgTyped /\ Become(Boot, Recorded(e))
      BY <1>3 DEF Steady, PlaneInv
    <3>2. \A w \in Seq(Instr), rest \in Seq(Instr) : \A k \in 1 .. Len(w) :
            prog[Boot] = After(w, rest, k) => prog'[Boot] = After(Recorded(e), After(w, rest, k + 1), 1)
      <4>1. TAKE w \in Seq(Instr), rest \in Seq(Instr)
      <4>2. TAKE k \in 1 .. Len(w)
      <4>3. HAVE prog[Boot] = After(w, rest, k)
      <4>4. Boot \in Callers
        BY BootCalls
      <4>5. PICK v : v = Recorded(e)
        OBVIOUS
      <4>6. v \in Seq(Instr) /\ v # <<>> /\ Become(Boot, v)
        BY <2>1, <3>1, <4>5
      <4>7. prog'[Boot] = After(v, After(w, rest, k + 1), 1)
        BY <3>1, <4>3, <4>4, <4>6, GoInto
      <4> QED
        BY <4>5, <4>7
    <3> QED
      BY <2>1, <2>2, <3>2
  <2>4. After(PipeItem(e), PipesLeft(X), 12 + 1) = PipesLeft(X)
    BY <2>1, AfterEnds
  <2> QED
    BY <2>3, <2>4
<1>10. Recording(X, e, 1)'
  BY <1>5, <1>7, <1>8, <1>9 DEF Recording, BootProg
<1> QED
  BY <1>10 DEF PipesPhase

LEMMA RecordingIn ==
  ASSUME Steady, Exec(Boot), NEW X \in SUBSET Triples, NEW e \in Triples, Recording(X, e, 1)
  PROVE  PipesPhase'
<1>1. /\ prog[Boot] = After(Recorded(e), PipesLeft(X), 1)
      /\ Recorded(e) \in Seq(Instr) /\ 1 \in 1 .. Len(Recorded(e)) /\ PipesLeft(X) \in Seq(Instr)
      /\ Recorded(e)[1] = Set("setIn", e[2], "running")
  BY ShortItemsAre, LeftTyped DEF Recording, BootProg
<1>2. At(Boot, "setIn") /\ Arg(Boot) = e[2] /\ prog[Boot][1].st = "running"
  <2>1. prog[Boot][1] = Recorded(e)[1] /\ Arg(Boot) = Recorded(e)[1].x /\ At(Boot, Recorded(e)[1].op)
    BY <1>1, BootHead
  <2> QED
    BY <1>1, <2>1 DEF Set
<1>3. /\ SameHub /\ UNCHANGED <<outRow, pipeRow>> /\ Continue(Boot)
      /\ inRow' = IF inRow[e[2]] = "none" THEN inRow ELSE [inRow EXCEPT ![e[2]] = "running"]
  BY <1>2, BootCalls, WritesDo
<1>4. /\ e[2] \in Inputs /\ e[3] \in Outputs /\ e \notin X /\ Sound(X \cup {e}, {}, {}) /\ NotYet(X)
      /\ ItemFacts(12, e[2], e[3])
  BY DEF Recording, Triples
<1>5. inRow[e[2]] # "none" /\ outRow[e[3]] # "none" /\ pipes[<<e[2], e[3]>>] # 0
  BY <1>4 DEF ItemFacts
<1>6. Sound(X \cup {e}, {}, {})' /\ inRow'[e[2]] = "running"
  <2>1. "running" \in Status
    BY DEF Status
  <2> QED
    BY <1>3, <1>4, <1>5, <2>1, SoundSetIn
<1>7. SameIns /\ SameOuts /\ SamePipes /\ UNCHANGED pipes
  BY <1>3, HubStays
<1>8. NotYet(X)'
  BY <1>4, <1>7 DEF NotYet, SamePipes, Triples
<1>9. ItemFacts(12, e[2], e[3])'
  <2>1. OutTold(e[3])' /\ InTold(e[2])' /\ PipeOn(e[2], e[3])'
    BY <1>4, <1>7 DEF ItemFacts, SameOuts, SameIns, SamePipes, InTold, OutTold
  <2>2. inRow'[e[2]] # "none" /\ outRow'[e[3]] # "none" /\ pipes'[<<e[2], e[3]>>] # 0
    BY <1>3, <1>5, <1>6, <1>7
  <2> QED
    BY <2>1, <2>2 DEF ItemFacts
<1>10. prog'[Boot] = After(Recorded(e), PipesLeft(X), 2)
  <2>1. prog'[Boot] = After(Recorded(e), PipesLeft(X), 1 + 1)
    BY <1>1, <1>3, BootCalls, GoOn DEF Steady, PlaneInv
  <2> QED
    BY <2>1
<1>11. Recording(X, e, 2)'
  BY <1>4, <1>6, <1>8, <1>9, <1>10 DEF Recording, BootProg
<1> QED
  BY <1>11 DEF PipesPhase

LEMMA RecordingOut ==
  ASSUME Steady, Exec(Boot), NEW X \in SUBSET Triples, NEW e \in Triples, Recording(X, e, 2)
  PROVE  PipesPhase'
<1>1. /\ prog[Boot] = After(Recorded(e), PipesLeft(X), 2)
      /\ Recorded(e) \in Seq(Instr) /\ 2 \in 1 .. Len(Recorded(e)) /\ PipesLeft(X) \in Seq(Instr)
      /\ Recorded(e)[2] = Set("setOut", e[3], "running") /\ Len(Recorded(e)) = 2
  BY ShortItemsAre, LeftTyped DEF Recording, BootProg
<1>2. At(Boot, "setOut") /\ Arg(Boot) = e[3] /\ prog[Boot][1].st = "running"
  <2>1. prog[Boot][1] = Recorded(e)[2] /\ Arg(Boot) = Recorded(e)[2].x /\ At(Boot, Recorded(e)[2].op)
    BY <1>1, BootHead
  <2> QED
    BY <1>1, <2>1 DEF Set
<1>3. /\ SameHub /\ UNCHANGED <<inRow, pipeRow>> /\ Continue(Boot)
      /\ outRow' = IF outRow[e[3]] = "none" THEN outRow ELSE [outRow EXCEPT ![e[3]] = "running"]
  BY <1>2, BootCalls, WritesDo
<1>4. /\ e[2] \in Inputs /\ e[3] \in Outputs /\ e \notin X /\ Sound(X \cup {e}, {}, {}) /\ NotYet(X)
      /\ ItemFacts(12, e[2], e[3]) /\ inRow[e[2]] = "running"
  BY DEF Recording, Triples
<1>5. outRow[e[3]] # "none"
  BY <1>4 DEF ItemFacts
<1>6. Sound(X \cup {e}, {}, {})' /\ outRow'[e[3]] = "running"
  <2>1. "running" \in Status
    BY DEF Status
  <2> QED
    BY <1>3, <1>4, <1>5, <2>1, SoundSetOut
<1>7. SameIns /\ SameOuts /\ SamePipes
  BY <1>3, HubStays
<1>8. NotYet(X)'
  BY <1>4, <1>7 DEF NotYet, SamePipes, Triples
<1>9. OutTold(e[3])' /\ InTold(e[2])' /\ PipeOn(e[2], e[3])' /\ inRow'[e[2]] = "running"
  BY <1>3, <1>4, <1>7 DEF ItemFacts, SameOuts, SameIns, SamePipes, InTold, OutTold
<1>10. Sound(X, {}, {})'
  BY <1>6, <1>9, SoundSettled
<1>11. prog'[Boot] = PipesLeft(X)
  <2>1. prog'[Boot] = After(Recorded(e), PipesLeft(X), 2 + 1)
    BY <1>1, <1>3, BootCalls, GoOn DEF Steady, PlaneInv
  <2>2. After(Recorded(e), PipesLeft(X), 2 + 1) = PipesLeft(X)
    BY <1>1, AfterEnds
  <2> QED
    BY <2>1, <2>2
<1>12. BetweenPipes(X)'
  BY <1>8, <1>10, <1>11 DEF BetweenPipes, BootProg
<1> QED
  BY <1>12 DEF PipesPhase

-----------------------------------------------------------------------------
(* Restore gives a pipe up.                                                  *)

(* An input in use is accounted for by the pipe that uses it.                 *)
LEMMA UsedInput ==
  ASSUME NEW X \in SUBSET Triples, NEW i \in Inputs, NEW O, Sound(X, {i}, O), InUse(i)
  PROVE  Sound(X, {}, O)
<1>1. PICK p \in PipeIds : Exists(p) /\ pipeRow[p].in = i /\ IsRunning(p)
  BY DEF InUse, PipesOf
<1>2. inRow[i] = "running" \/ \E e \in X : e[2] = i
  <2>1. CASE \E e \in X : e[1] = p
    <3>1. PICK e \in X : e[1] = p
      BY <2>1
    <3>2. pipeRow[p] = [in |-> e[2], out |-> e[3], st |-> "running"]
      BY <3>1 DEF Sound, Pending
    <3> QED
      BY <1>1, <3>2
  <2>2. CASE \A e \in X : e[1] # p
    BY <1>1, <2>2 DEF Sound, Settled
  <2> QED
    BY <2>1, <2>2
<1>3. Accounted(X, {}, O)
  BY <1>2 DEF Sound, Accounted
<1> QED
  BY <1>3 DEF Sound

LEMMA UsedOutput ==
  ASSUME NEW X \in SUBSET Triples, NEW o \in Outputs, NEW I, Sound(X, I, {o}), OutInUse(o)
  PROVE  Sound(X, I, {})
<1>1. PICK p \in PipeIds : Exists(p) /\ pipeRow[p].out = o /\ IsRunning(p)
  BY DEF OutInUse, PipesTo
<1>2. outRow[o] = "running" \/ \E e \in X : e[3] = o
  <2>1. CASE \E e \in X : e[1] = p
    <3>1. PICK e \in X : e[1] = p
      BY <2>1
    <3>2. pipeRow[p] = [in |-> e[2], out |-> e[3], st |-> "running"]
      BY <3>1 DEF Sound, Pending
    <3> QED
      BY <1>1, <3>2
  <2>2. CASE \A e \in X : e[1] # p
    BY <1>1, <2>2 DEF Sound, Settled
  <2> QED
    BY <2>1, <2>2
<1>3. Accounted(X, I, {})
  BY <1>2 DEF Sound, Accounted
<1> QED
  BY <1>3 DEF Sound

(* A pipe still to be started uses its input and its output.                  *)
LEMMA PendingUse ==
  ASSUME NEW X \in SUBSET Triples, Pending(X), NEW e \in X
  PROVE  InUse(e[2]) /\ OutInUse(e[3])
<1>1. e[1] \in PipeIds
  BY DEF Triples
<1>2. Exists(e[1]) /\ pipeRow[e[1]] = [in |-> e[2], out |-> e[3], st |-> "running"]
  BY DEF Pending
<1>3. pipeRow[e[1]].in = e[2] /\ pipeRow[e[1]].out = e[3] /\ IsRunning(e[1])
  BY <1>2 DEF IsRunning
<1> QED
  BY <1>1, <1>2, <1>3 DEF InUse, OutInUse, PipesOf, PipesTo

(* A step that leaves hub and rows alone.                                     *)
LEMMA SoundStill ==
  ASSUME Steady, Still, NEW Y, NEW I, NEW O, Sound(Y, I, O)
  PROVE  /\ Sound(Y, I, O)' /\ SameIns /\ SameOuts /\ SamePipes
         /\ \A i \in Inputs : InUse(i)' <=> InUse(i)
         /\ \A o \in Outputs : OutInUse(o)' <=> OutInUse(o)
         /\ UNCHANGED <<inRow, outRow, pipeRow, sources, sinks, pipes, srcOn, snkOn, pstate, held>>
<1>1. UNCHANGED <<inRow, outRow, pipeRow, rowVars>> /\ SameHub
  BY DEF Still, SameRows, rowVars
<1>2. /\ SameIns /\ SameOuts /\ SamePipes
      /\ UNCHANGED <<sources, sinks, pipes, srcOn, snkOn, pstate, held>>
  BY <1>1, HubStays
<1>3. NothingLoose'
  BY <1>1, <1>2 DEF Sound, NothingLoose, Exists, IsRunning, Key
<1>4. Sound(Y, I, O)'
  BY <1>1, <1>2, <1>3, SoundGrows DEF SameIns, SameOuts, SamePipes
<1>5. /\ \A i \in Inputs : InUse(i)' <=> InUse(i)
      /\ \A o \in Outputs : OutInUse(o)' <=> OutInUse(o)
  BY <1>1 DEF InUse, OutInUse, PipesOf, PipesTo, Exists, IsRunning
<1> QED
  BY <1>1, <1>2, <1>4, <1>5

LEMMA RescuingHead ==
  ASSUME NEW X \in SUBSET Triples, NEW e \in Triples, NEW k \in 1 .. 3, Rescuing(X, e, k)
  PROVE  /\ k = 1 => At(Boot, "setPipe") /\ Arg(Boot) = e[1] /\ prog[Boot][1].st = "stopped"
         /\ k = 2 => At(Boot, "orphanIn") /\ Arg(Boot) = e[2]
         /\ k = 3 => At(Boot, "orphanOut") /\ Arg(Boot) = e[3]
         /\ Rescued(e) \in Seq(Instr) /\ k \in 1 .. Len(Rescued(e)) /\ PipesLeft(X) \in Seq(Instr)
         /\ prog[Boot] = After(Rescued(e), PipesLeft(X), k)
         /\ e[1] \in PipeIds /\ e[2] \in Inputs /\ e[3] \in Outputs /\ e \notin X /\ NotYet(X)
<1>1. /\ Rescued(e) \in Seq(Instr) /\ k \in 1 .. Len(Rescued(e)) /\ PipesLeft(X) \in Seq(Instr)
      /\ prog[Boot] = After(Rescued(e), PipesLeft(X), k)
  BY ShortItemsAre, LeftTyped DEF Rescuing, BootProg
<1>2. prog[Boot][1] = Rescued(e)[k] /\ Arg(Boot) = Rescued(e)[k].x /\ At(Boot, Rescued(e)[k].op)
  BY <1>1, BootHead
<1>3. /\ Set("setPipe", e[1], "stopped").op = "setPipe" /\ Set("setPipe", e[1], "stopped").x = e[1]
      /\ Set("setPipe", e[1], "stopped").st = "stopped"
      /\ \A op, x : On(op, x).op = op /\ On(op, x).x = x
  BY DEF Set, On
<1>4. k = 1 => At(Boot, "setPipe") /\ Arg(Boot) = e[1] /\ prog[Boot][1].st = "stopped"
  BY <1>2, <1>3, ShortItemsAre
<1>5. k = 2 => At(Boot, "orphanIn") /\ Arg(Boot) = e[2]
  BY <1>2, <1>3, ShortItemsAre
<1>6. k = 3 => At(Boot, "orphanOut") /\ Arg(Boot) = e[3]
  BY <1>2, <1>3, ShortItemsAre
<1>7. e[1] \in PipeIds /\ e[2] \in Inputs /\ e[3] \in Outputs /\ e \notin X /\ NotYet(X)
  BY DEF Triples, Rescuing
<1> QED
  BY <1>1, <1>4, <1>5, <1>6, <1>7

LEMMA RescuingRow ==
  ASSUME Steady, Exec(Boot), NEW X \in SUBSET Triples, NEW e \in Triples, Rescuing(X, e, 1)
  PROVE  PipesPhase'
<1>1. /\ At(Boot, "setPipe") /\ Arg(Boot) = e[1] /\ prog[Boot][1].st = "stopped"
      /\ Rescued(e) \in Seq(Instr) /\ 1 \in 1 .. Len(Rescued(e)) /\ PipesLeft(X) \in Seq(Instr)
      /\ prog[Boot] = After(Rescued(e), PipesLeft(X), 1)
      /\ e \notin X /\ NotYet(X)
  <2>1. 1 \in 1 .. 3
    OBVIOUS
  <2> QED
    BY <2>1, RescuingHead
<1>2. /\ SameHub /\ UNCHANGED <<inRow, outRow>> /\ Continue(Boot)
      /\ pipeRow' = IF Exists(e[1]) THEN [pipeRow EXCEPT ![e[1]].st = "stopped"] ELSE pipeRow
  BY <1>1, BootCalls, WritesDo
<1>3. Sound(X, {e[2]}, {e[3]})'
  <2>1. Sound(X \cup {e}, {}, {}) /\ ~PipeOn(e[2], e[3])
    BY DEF Rescuing
  <2> QED
    BY <1>1, <1>2, <2>1, SoundGivenUp
<1>4. NotYet(X)'
  BY <1>1, <1>2, HubStays DEF NotYet, SamePipes, Triples
<1>5. prog'[Boot] = After(Rescued(e), PipesLeft(X), 1 + 1)
  BY <1>1, <1>2, BootCalls, GoOn DEF Steady, PlaneInv
<1>6. Rescuing(X, e, 2)'
  BY <1>1, <1>3, <1>4, <1>5 DEF Rescuing, BootProg
<1> QED
  BY <1>6 DEF PipesPhase

LEMMA RescuingIn ==
  ASSUME Steady, Exec(Boot), NEW X \in SUBSET Triples, NEW e \in Triples, Rescuing(X, e, 2)
  PROVE  PipesPhase'
<1>1. /\ At(Boot, "orphanIn") /\ Arg(Boot) = e[2] /\ e[2] \in Inputs
      /\ Rescued(e) \in Seq(Instr) /\ 2 \in 1 .. Len(Rescued(e)) /\ PipesLeft(X) \in Seq(Instr)
      /\ prog[Boot] = After(Rescued(e), PipesLeft(X), 2)
      /\ e \notin X /\ NotYet(X)
  <2>1. 2 \in 1 .. 3
    OBVIOUS
  <2> QED
    BY <2>1, RescuingHead
<1>2. /\ Still
      /\ InUse(e[2]) => Continue(Boot)
      /\ ~InUse(e[2]) => Become(Boot, DropIn(e[2]))
  <2>1. /\ Still
        /\ InUse(Arg(Boot)) => Continue(Boot)
        /\ ~InUse(Arg(Boot)) => Become(Boot, DropIn(Arg(Boot)))
    BY <1>1, BootCalls, ReadsDo
  <2> QED
    BY <1>1, <2>1
<1>3. Sound(X, {e[2]}, {e[3]})
  BY DEF Rescuing
<1>4. NotYet(X)'
  BY <1>1, <1>2, <1>3, SoundStill DEF NotYet, SamePipes, Triples
<1>5. CASE InUse(e[2])
  <2>1. Sound(X, {}, {e[3]})'
    BY <1>1, <1>2, <1>3, <1>5, UsedInput, SoundStill
  <2>2. prog'[Boot] = After(Rescued(e), PipesLeft(X), 2 + 1)
    BY <1>1, <1>2, <1>5, BootCalls, GoOn DEF Steady, PlaneInv
  <2>3. Rescuing(X, e, 3)'
    BY <1>1, <1>4, <2>1, <2>2 DEF Rescuing, BootProg
  <2> QED
    BY <2>3 DEF PipesPhase
<1>6. CASE ~InUse(e[2])
  <2>1. Sound(X, {e[2]}, {e[3]})' /\ ~InUse(e[2])'
    BY <1>1, <1>2, <1>3, <1>6, SoundStill
  <2>2. prog'[Boot] = After(DropIn(e[2]), After(Rescued(e), PipesLeft(X), 2 + 1), 1)
    <3>1. ProgTyped /\ Become(Boot, DropIn(e[2]))
      BY <1>2, <1>6 DEF Steady, PlaneInv
    <3>2. DropIn(e[2]) \in Seq(Instr) /\ DropIn(e[2]) # <<>>
      BY <1>1, DropsAre DEF DropIn
    <3>3. \A w \in Seq(Instr), rest \in Seq(Instr) : \A k \in 1 .. Len(w) :
            prog[Boot] = After(w, rest, k) => prog'[Boot] = After(DropIn(e[2]), After(w, rest, k + 1), 1)
      BY <3>1, <3>2, BootCalls, GoInto
    <3> QED
      BY <1>1, <3>3
  <2>3. DroppingIn(X, e, 1)'
    BY <1>1, <1>4, <2>1, <2>2 DEF DroppingIn, BootProg
  <2>4. 1 \in 1 .. 2
    OBVIOUS
  <2> QED
    BY <2>3, <2>4 DEF PipesPhase
<1> QED
  BY <1>5, <1>6

LEMMA RescuingOut ==
  ASSUME Steady, Exec(Boot), NEW X \in SUBSET Triples, NEW e \in Triples, Rescuing(X, e, 3)
  PROVE  PipesPhase'
<1>1. /\ At(Boot, "orphanOut") /\ Arg(Boot) = e[3] /\ e[3] \in Outputs
      /\ Rescued(e) \in Seq(Instr) /\ 3 \in 1 .. Len(Rescued(e)) /\ PipesLeft(X) \in Seq(Instr)
      /\ prog[Boot] = After(Rescued(e), PipesLeft(X), 3)
      /\ e \notin X /\ NotYet(X)
  <2>1. 3 \in 1 .. 3
    OBVIOUS
  <2> QED
    BY <2>1, RescuingHead
<1>2. /\ Still
      /\ OutInUse(e[3]) => Continue(Boot)
      /\ ~OutInUse(e[3]) => Become(Boot, DropOut(e[3]))
  <2>1. /\ Still
        /\ OutInUse(Arg(Boot)) => Continue(Boot)
        /\ ~OutInUse(Arg(Boot)) => Become(Boot, DropOut(Arg(Boot)))
    BY <1>1, BootCalls, ReadsDo
  <2> QED
    BY <1>1, <2>1
<1>3. Sound(X, {}, {e[3]})
  BY DEF Rescuing
<1>4. NotYet(X)'
  BY <1>1, <1>2, <1>3, SoundStill DEF NotYet, SamePipes, Triples
<1>5. After(Rescued(e), PipesLeft(X), 3 + 1) = PipesLeft(X)
  <2>1. Len(Rescued(e)) = 3
    BY ShortItemsAre
  <2>2. After(Rescued(e), PipesLeft(X), Len(Rescued(e)) + 1) = PipesLeft(X)
    BY <1>1, AfterEnds
  <2> QED
    BY <2>1, <2>2
<1>6. CASE OutInUse(e[3])
  <2>1. Sound(X, {}, {})'
    BY <1>1, <1>2, <1>3, <1>6, UsedOutput, SoundStill
  <2>2. prog'[Boot] = After(Rescued(e), PipesLeft(X), 3 + 1)
    BY <1>1, <1>2, <1>6, BootCalls, GoOn DEF Steady, PlaneInv
  <2>3. BetweenPipes(X)'
    BY <1>4, <1>5, <2>1, <2>2 DEF BetweenPipes, BootProg
  <2> QED
    BY <2>3 DEF PipesPhase
<1>7. CASE ~OutInUse(e[3])
  <2>1. Sound(X, {}, {e[3]})' /\ ~OutInUse(e[3])'
    BY <1>1, <1>2, <1>3, <1>7, SoundStill
  <2>2. prog'[Boot] = After(DropOut(e[3]), After(Rescued(e), PipesLeft(X), 3 + 1), 1)
    <3>1. ProgTyped /\ Become(Boot, DropOut(e[3]))
      BY <1>2, <1>7 DEF Steady, PlaneInv
    <3>2. DropOut(e[3]) \in Seq(Instr) /\ DropOut(e[3]) # <<>>
      BY <1>1, DropsAre DEF DropOut
    <3>3. \A w \in Seq(Instr), rest \in Seq(Instr) : \A k \in 1 .. Len(w) :
            prog[Boot] = After(w, rest, k) => prog'[Boot] = After(DropOut(e[3]), After(w, rest, k + 1), 1)
      BY <3>1, <3>2, BootCalls, GoInto
    <3> QED
      BY <1>1, <3>3
  <2>3. DroppingOut(X, e, 1)'
    BY <1>1, <1>4, <1>5, <2>1, <2>2 DEF DroppingOut, BootProg
  <2>4. 1 \in 1 .. 2
    OBVIOUS
  <2> QED
    BY <2>3, <2>4 DEF PipesPhase
<1> QED
  BY <1>6, <1>7

(* The rows that say running are the same after a step that leaves them alone. *)
LEMMA UseStays ==
  ASSUME UNCHANGED pipeRow
  PROVE  /\ \A i \in Inputs : InUse(i)' <=> InUse(i)
         /\ \A o \in Outputs : OutInUse(o)' <=> OutInUse(o)
  BY DEF InUse, OutInUse, PipesOf, PipesTo, Exists, IsRunning

LEMMA DroppingInStep ==
  ASSUME Steady, Exec(Boot), NEW X \in SUBSET Triples, NEW e \in Triples, NEW k \in 1 .. 2, DroppingIn(X, e, k)
  PROVE  PipesPhase'
<1> DEFINE i == e[2]
           rest == After(Rescued(e), PipesLeft(X), 3)
<1>1. /\ i \in Inputs /\ e[3] \in Outputs /\ e \notin X /\ NotYet(X) /\ Sound(X, {i}, {e[3]}) /\ ~InUse(i)
      /\ prog[Boot] = After(DropIn(i), rest, k)
  BY DEF Triples, DroppingIn, BootProg
<1>2. /\ DropIn(i) \in Seq(Instr) /\ k \in 1 .. Len(DropIn(i)) /\ Len(DropIn(i)) = 2 /\ rest \in Seq(Instr)
      /\ DropIn(i)[1] = On("removeIn", i) /\ DropIn(i)[2] = Set("setIn", i, "stopped")
  <2>1. Rescued(e) \in Seq(Instr) /\ 3 \in 1 .. Len(Rescued(e)) /\ PipesLeft(X) \in Seq(Instr)
    BY ShortItemsAre, LeftTyped
  <2>2. rest \in Seq(Instr)
    BY <2>1, AfterParts
  <2> QED
    BY <1>1, <2>2, DropsAre
<1> HIDE DEF rest
<1>3. prog[Boot][1] = DropIn(i)[k] /\ Arg(Boot) = DropIn(i)[k].x /\ At(Boot, DropIn(i)[k].op)
  BY <1>1, <1>2, BootCalls, HeadIs
<1>4. CASE k = 1
  <2>1. At(Boot, "removeIn") /\ Arg(Boot) = i
    BY <1>2, <1>3, <1>4 DEF On
  <2>2. (RemoveInput(i) \/ InputMissing(i)) /\ Continue(Boot) /\ SameRows
    <3>1. (RemoveInput(Arg(Boot)) \/ InputMissing(Arg(Boot))) /\ Continue(Boot) /\ SameRows
      BY <2>1, BootCalls, CallsDo
    <3> QED
      BY <2>1, <3>1
  <2>3. UNCHANGED <<rowVars, pipeRow>>
    BY <2>2 DEF SameRows, rowVars
  <2>4. /\ \A j \in Inputs : InOn(j)' <=> InOn(j) /\ j # i
        /\ \A j \in Inputs, q \in Outputs : PipeOn(j, q)' <=> PipeOn(j, q) /\ j # i
        /\ SameOuts /\ NothingLoose' /\ sources'[i] = 0
    BY <1>1, <2>2, <2>3, OnAfterRemoveInput DEF Sound
  <2>5. Sound(X, {i}, {e[3]})'
    BY <1>1, <2>3, <2>4, SoundWithoutInput DEF SameOuts
  <2>6. NotYet(X)' /\ ~InUse(i)'
    BY <1>1, <2>3, <2>4, UseStays DEF NotYet, Triples
  <2>7. prog'[Boot] = After(DropIn(i), rest, 1 + 1)
    BY <1>1, <1>2, <1>4, <2>2, BootCalls, GoOn DEF Steady, PlaneInv
  <2>8. DroppingIn(X, e, 2)'
    BY <1>1, <2>4, <2>5, <2>6, <2>7 DEF DroppingIn, BootProg, rest
  <2>9. 2 \in 1 .. 2
    OBVIOUS
  <2> QED
    BY <2>8, <2>9 DEF PipesPhase
<1>5. CASE k = 2
  <2>1. At(Boot, "setIn") /\ Arg(Boot) = i /\ prog[Boot][1].st = "stopped"
    BY <1>2, <1>3, <1>5 DEF Set
  <2>2. /\ SameHub /\ UNCHANGED <<outRow, pipeRow>> /\ Continue(Boot)
        /\ inRow' = IF inRow[i] = "none" THEN inRow ELSE [inRow EXCEPT ![i] = "stopped"]
    BY <2>1, BootCalls, WritesDo
  <2>3. ~InOn(i)
    <3>1. sources[i] = 0
      BY <1>5 DEF DroppingIn
    <3> QED
      BY <1>1, <3>1, OnTyped
  <2>4. \A f \in X : f[2] # i
    BY <1>1, PendingUse DEF Sound
  <2>5. Sound(X, {}, {e[3]})'
    <3>1. "stopped" \in Status
      BY DEF Status
    <3>2. Sound(X, {i} \ {i}, {e[3]})'
      BY <1>1, <2>2, <2>3, <2>4, <3>1, SoundSetIn
    <3>3. {i} \ {i} = {}
      OBVIOUS
    <3> QED
      BY <3>2, <3>3
  <2>6. NotYet(X)'
    BY <1>1, <2>2, HubStays DEF NotYet, SamePipes, Triples
  <2>7. prog'[Boot] = After(DropIn(i), rest, 2 + 1)
    BY <1>1, <1>2, <1>5, <2>2, BootCalls, GoOn DEF Steady, PlaneInv
  <2>8. After(DropIn(i), rest, 2 + 1) = rest
    BY <1>2, AfterEnds
  <2>9. Rescuing(X, e, 3)'
    BY <1>1, <2>5, <2>6, <2>7, <2>8 DEF Rescuing, BootProg, rest
  <2> QED
    BY <2>9 DEF PipesPhase
<1> QED
  BY <1>4, <1>5

LEMMA DroppingOutStep ==
  ASSUME Steady, Exec(Boot), NEW X \in SUBSET Triples, NEW e \in Triples, NEW k \in 1 .. 2, DroppingOut(X, e, k)
  PROVE  PipesPhase'
<1> DEFINE o == e[3]
           rest == PipesLeft(X)
<1>1. /\ o \in Outputs /\ e \notin X /\ NotYet(X) /\ Sound(X, {}, {o}) /\ ~OutInUse(o)
      /\ prog[Boot] = After(DropOut(o), rest, k)
  BY DEF Triples, DroppingOut, BootProg
<1>2. /\ DropOut(o) \in Seq(Instr) /\ k \in 1 .. Len(DropOut(o)) /\ Len(DropOut(o)) = 2 /\ rest \in Seq(Instr)
      /\ DropOut(o)[1] = On("removeOut", o) /\ DropOut(o)[2] = Set("setOut", o, "stopped")
  BY <1>1, DropsAre, LeftTyped
<1> HIDE DEF rest
<1>3. prog[Boot][1] = DropOut(o)[k] /\ Arg(Boot) = DropOut(o)[k].x /\ At(Boot, DropOut(o)[k].op)
  BY <1>1, <1>2, BootCalls, HeadIs
<1>4. CASE k = 1
  <2>1. At(Boot, "removeOut") /\ Arg(Boot) = o
    BY <1>2, <1>3, <1>4 DEF On
  <2>2. (RemoveOutput(o) \/ OutputMissing(o)) /\ Continue(Boot) /\ SameRows
    <3>1. (RemoveOutput(Arg(Boot)) \/ OutputMissing(Arg(Boot))) /\ Continue(Boot) /\ SameRows
      BY <2>1, BootCalls, CallsDo
    <3> QED
      BY <2>1, <3>1
  <2>3. UNCHANGED <<rowVars, pipeRow>>
    BY <2>2 DEF SameRows, rowVars
  <2>4. /\ \A j \in Outputs : OutOn(j)' <=> OutOn(j) /\ j # o
        /\ \A j \in Inputs, q \in Outputs : PipeOn(j, q)' <=> PipeOn(j, q) /\ q # o
        /\ SameIns /\ NothingLoose' /\ sinks'[o] = 0
    BY <1>1, <2>2, <2>3, OnAfterRemoveOutput DEF Sound
  <2>5. Sound(X, {}, {o})'
    BY <1>1, <2>3, <2>4, SoundWithoutOutput DEF SameIns
  <2>6. NotYet(X)' /\ ~OutInUse(o)'
    BY <1>1, <2>3, <2>4, UseStays DEF NotYet, Triples
  <2>7. prog'[Boot] = After(DropOut(o), rest, 1 + 1)
    BY <1>1, <1>2, <1>4, <2>2, BootCalls, GoOn DEF Steady, PlaneInv
  <2>8. DroppingOut(X, e, 2)'
    BY <1>1, <2>4, <2>5, <2>6, <2>7 DEF DroppingOut, BootProg, rest
  <2>9. 2 \in 1 .. 2
    OBVIOUS
  <2> QED
    BY <2>8, <2>9 DEF PipesPhase
<1>5. CASE k = 2
  <2>1. At(Boot, "setOut") /\ Arg(Boot) = o /\ prog[Boot][1].st = "stopped"
    BY <1>2, <1>3, <1>5 DEF Set
  <2>2. /\ SameHub /\ UNCHANGED <<inRow, pipeRow>> /\ Continue(Boot)
        /\ outRow' = IF outRow[o] = "none" THEN outRow ELSE [outRow EXCEPT ![o] = "stopped"]
    BY <2>1, BootCalls, WritesDo
  <2>3. ~OutOn(o)
    <3>1. sinks[o] = 0
      BY <1>5 DEF DroppingOut
    <3> QED
      BY <1>1, <3>1, OnTyped
  <2>4. \A f \in X : f[3] # o
    BY <1>1, PendingUse DEF Sound
  <2>5. Sound(X, {}, {})'
    <3>1. "stopped" \in Status
      BY DEF Status
    <3>2. Sound(X, {}, {o} \ {o})'
      BY <1>1, <2>2, <2>3, <2>4, <3>1, SoundSetOut
    <3>3. {o} \ {o} = {}
      OBVIOUS
    <3> QED
      BY <3>2, <3>3
  <2>6. NotYet(X)'
    BY <1>1, <2>2, HubStays DEF NotYet, SamePipes, Triples
  <2>7. prog'[Boot] = After(DropOut(o), rest, 2 + 1)
    BY <1>1, <1>2, <1>5, <2>2, BootCalls, GoOn DEF Steady, PlaneInv
  <2>8. After(DropOut(o), rest, 2 + 1) = rest
    BY <1>2, AfterEnds
  <2>9. BetweenPipes(X)'
    BY <2>5, <2>6, <2>7, <2>8 DEF BetweenPipes, BootProg, rest
  <2> QED
    BY <2>9 DEF PipesPhase
<1> QED
  BY <1>4, <1>5

-----------------------------------------------------------------------------
(* The loops of Restore.                                                     *)
LEMMA Joins ==
  /\ \A a \in Instr : <<a>> \o <<>> = <<a>>
  /\ \A a, b \in Instr : <<a>> \o <<b>> = <<a, b>>
  /\ \A a, b, d \in Instr : <<a>> \o <<b, d>> = <<a, b, d>>
<1>1. ASSUME NEW a \in Instr PROVE <<a>> \o <<>> = <<a>>
  <2>1. <<a>> \in Seq(Instr)
    OBVIOUS
  <2> QED
    BY <2>1, ConcatEmptySeq
<1>2. ASSUME NEW a \in Instr, NEW b \in Instr PROVE <<a>> \o <<b>> = <<a, b>>
  <2>1. PICK u : u = <<a>>
    OBVIOUS
  <2>2. PICK v : v = <<b>>
    OBVIOUS
  <2>3. PICK r : r = <<a, b>>
    OBVIOUS
  <2>4. /\ u \in Seq(Instr) /\ Len(u) = 1 /\ u[1] = a
        /\ v \in Seq(Instr) /\ Len(v) = 1 /\ v[1] = b
        /\ r \in Seq(Instr) /\ Len(r) = 2 /\ r[1] = a /\ r[2] = b
    BY <2>1, <2>2, <2>3
  <2>5. PICK q : q = u \o v
    OBVIOUS
  <2>6. /\ q \in Seq(Instr) /\ Len(q) = 2
        /\ \A j \in 1 .. 2 : q[j] = IF j <= 1 THEN u[j] ELSE v[j - 1]
    <3>1. /\ q \in Seq(Instr) /\ Len(q) = Len(u) + Len(v)
          /\ \A j \in 1 .. Len(u) + Len(v) : q[j] = IF j <= Len(u) THEN u[j] ELSE v[j - Len(u)]
      BY <2>4, <2>5, ConcatProperties
    <3>2. Len(u) = 1 /\ Len(u) + Len(v) = 2
      BY <2>4
    <3> QED
      BY <3>1, <3>2
  <2>7. q[1] = a /\ q[2] = b
    BY <2>4, <2>6
  <2>8. \A j \in 1 .. 2 : q[j] = r[j]
    BY <2>4, <2>7
  <2>9. q = r
    BY <2>4, <2>6, <2>8, SeqEqual
  <2> QED
    BY <2>1, <2>2, <2>3, <2>5, <2>9
<1>3. ASSUME NEW a \in Instr, NEW b \in Instr, NEW d \in Instr PROVE <<a>> \o <<b, d>> = <<a, b, d>>
  <2>1. PICK u : u = <<a>>
    OBVIOUS
  <2>2. PICK v : v = <<b, d>>
    OBVIOUS
  <2>3. PICK r : r = <<a, b, d>>
    OBVIOUS
  <2>4. /\ u \in Seq(Instr) /\ Len(u) = 1 /\ u[1] = a
        /\ v \in Seq(Instr) /\ Len(v) = 2 /\ v[1] = b /\ v[2] = d
        /\ r \in Seq(Instr) /\ Len(r) = 3 /\ r[1] = a /\ r[2] = b /\ r[3] = d
    BY <2>1, <2>2, <2>3
  <2>5. PICK q : q = u \o v
    OBVIOUS
  <2>6. /\ q \in Seq(Instr) /\ Len(q) = 3
        /\ \A j \in 1 .. 3 : q[j] = IF j <= 1 THEN u[j] ELSE v[j - 1]
    <3>1. /\ q \in Seq(Instr) /\ Len(q) = Len(u) + Len(v)
          /\ \A j \in 1 .. Len(u) + Len(v) : q[j] = IF j <= Len(u) THEN u[j] ELSE v[j - Len(u)]
      BY <2>4, <2>5, ConcatProperties
    <3>2. Len(u) = 1 /\ Len(u) + Len(v) = 3
      BY <2>4
    <3> QED
      BY <3>1, <3>2
  <2>7. q[1] = a /\ q[2] = b /\ q[3] = d
    BY <2>4, <2>6
  <2>8. \A j \in 1 .. 3 : q[j] = r[j]
    BY <2>4, <2>7
  <2>9. q = r
    BY <2>4, <2>6, <2>8, SeqEqual
  <2> QED
    BY <2>1, <2>2, <2>3, <2>5, <2>9
<1> QED
  BY <1>1, <1>2, <1>3

(* One round of a loop: the item w, then the loop over the rest.              *)
LEMMA Round ==
  ASSUME ProgTyped, NEW c \in Callers, NEW a \in Instr, NEW b \in Instr, NEW t \in Seq(Instr),
         prog[c] = <<a>> \o t, NEW w \in Seq(Instr), w # <<>>, Become(c, w \o <<b>>)
  PROVE  prog'[c] = After(w, <<b>> \o t, 1)
<1>1. <<a>> \in Seq(Instr) /\ <<b>> \in Seq(Instr) /\ <<a>> # <<>> /\ Len(<<a>>) = 1
  OBVIOUS
<1>2. Tail(<<a>> \o t) = t
  <2>1. PICK q : q = <<a>> \o t
    OBVIOUS
  <2>2. /\ q \in Seq(Instr) /\ Len(q) = 1 + Len(t) /\ Len(t) \in Nat
        /\ \A j \in 1 .. 1 + Len(t) : q[j] = IF j <= 1 THEN <<a>>[j] ELSE t[j - 1]
    BY <1>1, <2>1, ConcatProperties, LenProperties
  <2>3. q # <<>>
    BY <2>2
  <2>4. /\ Tail(q) \in Seq(Instr) /\ Len(Tail(q)) = Len(q) - 1
        /\ \A j \in 1 .. Len(Tail(q)) : Tail(q)[j] = q[j + 1]
    BY <2>2, <2>3, HeadTailProperties
  <2>5. Len(Tail(q)) = Len(t)
    BY <2>2, <2>4
  <2>6. \A j \in 1 .. Len(t) : Tail(q)[j] = t[j]
    <3>1. TAKE j \in 1 .. Len(t)
    <3>2. Tail(q)[j] = q[j + 1] /\ j + 1 \in 1 .. 1 + Len(t) /\ ~(j + 1 <= 1) /\ (j + 1) - 1 = j
      BY <2>2, <2>4, <2>5
    <3> QED
      BY <2>2, <3>2
  <2> QED
    BY <2>1, <2>4, <2>5, <2>6, SeqEqual
<1>3. prog'[c] = (w \o <<b>>) \o t
  BY <1>2 DEF Become, ProgTyped
<1>4. (w \o <<b>>) \o t = w \o (<<b>> \o t)
  BY <1>1, ConcatAssociative
<1>5. After(w, <<b>> \o t, 1) = w \o (<<b>> \o t)
  <2>1. <<b>> \o t \in Seq(Instr)
    BY <1>1, ConcatProperties
  <2> QED
    BY <2>1, AfterEnds
<1> QED
  BY <1>3, <1>4, <1>5

\* Round, of Boot
LEMMA BootRound ==
  ASSUME ProgTyped, NEW t \in Seq(Instr), NEW w \in Seq(Instr), w # <<>>
  PROVE  \A a \in Instr, b \in Instr : prog[Boot] = <<a>> \o t /\ Become(Boot, w \o <<b>>)
           => prog'[Boot] = After(w, <<b>> \o t, 1)
<1>1. TAKE a \in Instr, b \in Instr
<1>2. HAVE prog[Boot] = <<a>> \o t /\ Become(Boot, w \o <<b>>)
<1>3. Boot \in Callers
  BY BootCalls
<1> QED
  BY <1>2, <1>3, Round

LEMMA RestoreParts ==
  /\ On("restorePipes", 0) \in Instr /\ On("restoreIns", 0) \in Instr /\ On("restoreOuts", 0) \in Instr
  /\ <<On("restoreIns", 0), On("restoreOuts", 0)>> \in Seq(Instr) /\ <<On("restoreOuts", 0)>> \in Seq(Instr)
  /\ RestoreProg = <<On("restorePipes", 0)>> \o <<On("restoreIns", 0), On("restoreOuts", 0)>>
  /\ \A X \in SUBSET Triples : /\ On("eachPipe", X) \in Instr
                               /\ PipesLeft(X) = <<On("eachPipe", X)>> \o <<On("restoreIns", 0), On("restoreOuts", 0)>>
  /\ \A X \in SUBSET Inputs : /\ On("eachInput", X) \in Instr
                              /\ InsLeft(X) = <<On("eachInput", X)>> \o <<On("restoreOuts", 0)>>
  /\ \A X \in SUBSET Outputs : /\ On("eachOutput", X) \in Instr
                               /\ OutsLeft(X) = <<On("eachOutput", X)>> \o <<>>
<1>1. On("restorePipes", 0) \in Instr /\ On("restoreIns", 0) \in Instr /\ On("restoreOuts", 0) \in Instr
  BY PlainInstr DEF QueryOps
<1>2. \A X \in SUBSET Triples : On("eachPipe", X) \in Instr
  BY LoopInstr
<1>3. \A X \in SUBSET Inputs : On("eachInput", X) \in Instr
  BY LoopInstr
<1>4. \A X \in SUBSET Outputs : On("eachOutput", X) \in Instr
  BY LoopInstr
<1>5. <<On("restoreIns", 0), On("restoreOuts", 0)>> \in Seq(Instr) /\ <<On("restoreOuts", 0)>> \in Seq(Instr)
  BY <1>1
<1>6. RestoreProg = <<On("restorePipes", 0)>> \o <<On("restoreIns", 0), On("restoreOuts", 0)>>
  BY <1>1, Joins DEF RestoreProg
<1>7. \A X \in SUBSET Triples : PipesLeft(X) = <<On("eachPipe", X)>> \o <<On("restoreIns", 0), On("restoreOuts", 0)>>
  BY <1>1, <1>2, Joins DEF PipesLeft
<1>8. \A X \in SUBSET Inputs : InsLeft(X) = <<On("eachInput", X)>> \o <<On("restoreOuts", 0)>>
  BY <1>1, <1>3, Joins DEF InsLeft
<1>9. \A X \in SUBSET Outputs : OutsLeft(X) = <<On("eachOutput", X)>> \o <<>>
  BY <1>4, Joins DEF OutsLeft
<1> QED
  BY <1>1, <1>2, <1>3, <1>4, <1>5, <1>6, <1>7, <1>8, <1>9

(* The first instruction of <<a>> \o t, and what Become and Continue leave.   *)
LEMMA FrontIs ==
  ASSUME ProgTyped, NEW c \in Callers, NEW a \in Instr, NEW t \in Seq(Instr), prog[c] = <<a>> \o t
  PROVE  /\ At(c, a.op) /\ Arg(c) = a.x
         /\ Continue(c) => prog'[c] = t
         /\ \A v \in Seq(Instr) : Become(c, v) => prog'[c] = v \o t
<1>1. <<a>> \in Seq(Instr) /\ Len(<<a>>) = 1 /\ <<a>>[1] = a /\ <<a>> # <<>> /\ 1 \in 1 .. Len(<<a>>)
  OBVIOUS
<1>2. prog[c] = After(<<a>>, t, 1)
  BY <1>1, AfterEnds
<1>3. prog[c][1] = a /\ prog[c] # <<>> /\ Tail(prog[c]) = After(<<a>>, t, 1 + 1)
  <2>1. /\ After(<<a>>, t, 1) # <<>>
        /\ After(<<a>>, t, 1)[1] = <<a>>[1]
        /\ Tail(After(<<a>>, t, 1)) = After(<<a>>, t, 1 + 1)
    BY <1>1, AfterParts
  <2> QED
    BY <1>1, <1>2, <2>1
<1>4. After(<<a>>, t, 1 + 1) = t
  <2>1. After(<<a>>, t, Len(<<a>>) + 1) = t
    BY <1>1, AfterEnds
  <2> QED
    BY <1>1, <2>1
<1>5. Tail(prog[c]) = t
  BY <1>3, <1>4
<1>6. At(c, a.op) /\ Arg(c) = a.x
  BY <1>3 DEF At, Arg
<1>7. \A v \in Seq(Instr) : Become(c, v) => prog'[c] = v \o t
  BY <1>5 DEF Become, ProgTyped
<1>8. Continue(c) => prog'[c] = t
  <2>1. Continue(c) => prog'[c] = <<>> \o t
    BY <1>5 DEF Continue, Become, ProgTyped
  <2> QED
    BY <2>1, ConcatEmptySeq
<1> QED
  BY <1>6, <1>7, <1>8

(* The query for the pipes to restore, in an empty hub.                       *)
LEMMA AtStartStep ==
  ASSUME Steady, Exec(Boot), AtStart
  PROVE  PipesPhase'
<1> DEFINE t == <<On("restoreIns", 0), On("restoreOuts", 0)>>
<1>0. PICK X : X = {<<p, pipeRow[p].in, pipeRow[p].out>> : p \in {q \in PipeIds : Exists(q) /\ IsRunning(q)}}
  OBVIOUS
<1>1. X \in SUBSET Triples
  <2> SUFFICES ASSUME NEW p \in PipeIds, Exists(p), IsRunning(p)
               PROVE  <<p, pipeRow[p].in, pipeRow[p].out>> \in Triples
    BY <1>0
  <2> QED
    BY KeyTyped DEF Triples
<1>2. prog[Boot] = <<On("restorePipes", 0)>> \o t
  BY RestoreParts DEF AtStart, BootProg
<1>3. t \in Seq(Instr) /\ On("restorePipes", 0) \in Instr /\ ProgTyped
  BY RestoreParts DEF Steady, PlaneInv
<1> HIDE DEF t
<1>4. At(Boot, On("restorePipes", 0).op) /\ \A v \in Seq(Instr) : Become(Boot, v) => prog'[Boot] = v \o t
  BY <1>2, <1>3, BootCalls, FrontIs
<1>5. Still /\ Become(Boot, <<On("eachPipe", X)>>)
  <2>1. At(Boot, "restorePipes")
    BY <1>4 DEF On
  <2> QED
    BY <1>0, <2>1, BootCalls, LoopsDo
<1>6. prog'[Boot] = PipesLeft(X)
  <2>1. <<On("eachPipe", X)>> \in Seq(Instr) /\ PipesLeft(X) = <<On("eachPipe", X)>> \o t
    BY <1>1, RestoreParts DEF t
  <2> QED
    BY <1>4, <1>5, <2>1
<1>7. /\ srcOn = {} /\ snkOn = {} /\ (\A x \in Objs : pstate[x] = "new") /\ \A k \in Keys : pipes[k] = 0
  BY DEF AtStart
<1>8. Sound(X, {}, {})
  <2>1. NothingLoose
    BY <1>7 DEF NothingLoose
  <2>2. Pending(X)
    <3> SUFFICES ASSUME NEW p \in PipeIds, Exists(p), IsRunning(p)
                 PROVE  pipeRow[p] = [in |-> pipeRow[p].in, out |-> pipeRow[p].out, st |-> "running"]
      BY <1>0 DEF Pending
    <3> QED
      BY KeyTyped DEF IsRunning
  <2>3. Settled(X)
    <3> SUFFICES ASSUME NEW p \in PipeIds, Exists(p), IsRunning(p) PROVE \E e \in X : e[1] = p
      BY DEF Settled
    <3>1. <<p, pipeRow[p].in, pipeRow[p].out>> \in X
      BY <1>0
    <3> QED
      BY <3>1
  <2>4. Accounted(X, {}, {})
    BY <1>7 DEF Accounted, InOn, OutOn
  <2> QED
    BY <2>1, <2>2, <2>3, <2>4 DEF Sound
<1>9. NotYet(X)
  BY <1>1, <1>7 DEF NotYet, PipeOn, Triples, Keys
<1>10. Sound(X, {}, {})' /\ NotYet(X)'
  BY <1>1, <1>5, <1>8, <1>9, SoundStill DEF NotYet, SamePipes, Triples
<1>11. BetweenPipes(X)'
  BY <1>6, <1>10 DEF BetweenPipes, BootProg
<1> QED
  BY <1>1, <1>11 DEF PipesPhase

LEMMA BetweenPipesStep ==
  ASSUME Steady, Exec(Boot), NEW X \in SUBSET Triples, BetweenPipes(X)
  PROVE  PipesPhase' \/ PipesDone'
<1> DEFINE t == <<On("restoreIns", 0), On("restoreOuts", 0)>>
<1>1. prog[Boot] = <<On("eachPipe", X)>> \o t /\ Sound(X, {}, {}) /\ NotYet(X)
  BY RestoreParts DEF BetweenPipes, BootProg
<1>2. t \in Seq(Instr) /\ On("eachPipe", X) \in Instr /\ ProgTyped
  BY RestoreParts DEF Steady, PlaneInv
<1> HIDE DEF t
<1>3. At(Boot, "eachPipe") /\ Arg(Boot) = X /\ (Continue(Boot) => prog'[Boot] = t)
  <2>1. At(Boot, On("eachPipe", X).op) /\ Arg(Boot) = On("eachPipe", X).x /\ (Continue(Boot) => prog'[Boot] = t)
    BY <1>1, <1>2, BootCalls, FrontIs
  <2> QED
    BY <2>1 DEF On
<1>4. /\ Still
      /\ \/ X = {} /\ Continue(Boot)
         \/ \E e \in X : Become(Boot, Body("eachPipe", e) \o <<On("eachPipe", X \ {e})>>)
  BY <1>3, BootCalls, LoopsDo DEF Loops
<1>5. Sound(X, {}, {})' /\ NotYet(X)' /\ SamePipes
  BY <1>1, <1>4, SoundStill DEF NotYet, SamePipes, Triples
<1>6. CASE X = {} /\ Continue(Boot)
  <2>1. PipesDone'
    BY <1>3, <1>5, <1>6 DEF PipesDone, BootProg, t
  <2> QED
    BY <2>1
<1>7. ASSUME NEW e \in X, Become(Boot, Body("eachPipe", e) \o <<On("eachPipe", X \ {e})>>)
      PROVE  PipesPhase'
  <2> DEFINE Z == X \ {e}
  <2>1. e \in Triples /\ Z \in SUBSET Triples /\ e \notin Z /\ Z \cup {e} = X
    OBVIOUS
  <2> HIDE DEF Z
  <2>2. Body("eachPipe", e) = PipeItem(e)
    BY DEF Body, PipeItem
  <2>3. Become(Boot, PipeItem(e) \o <<On("eachPipe", Z)>>)
    BY <1>7, <2>2 DEF Z
  <2>4. /\ On("eachPipe", Z) \in Instr /\ PipesLeft(Z) = <<On("eachPipe", Z)>> \o t
        /\ PipeItem(e) \in Seq(Instr) /\ PipeItem(e) # <<>>
    <3>1. PipeItem(e) \in Seq(Instr) /\ PipeItem(e) # <<>>
      BY <2>1, PipeItemIs
    <3> QED
      BY <2>1, <3>1, RestoreParts DEF t
  <2>5. prog'[Boot] = After(PipeItem(e), <<On("eachPipe", Z)>> \o t, 1)
    <3>1. \A a \in Instr, b \in Instr : prog[Boot] = <<a>> \o t /\ Become(Boot, PipeItem(e) \o <<b>>)
            => prog'[Boot] = After(PipeItem(e), <<b>> \o t, 1)
      BY <1>2, <2>4, BootRound
    <3> QED
      BY <1>1, <1>2, <2>3, <2>4, <3>1
  <2>6. e[2] \in Inputs /\ e[3] \in Outputs
    BY <2>1 DEF Triples
  <2>7. ItemFacts(1, e[2], e[3])'
    BY <1>5, <1>7, <2>6 DEF ItemFacts, NotYet
  <2>8. Starting(Z, e, 1)'
    BY <1>5, <2>1, <2>4, <2>5, <2>7 DEF Starting, BootProg, NotYet
  <2>9. 1 \in 1 .. 12
    OBVIOUS
  <2> QED
    BY <2>1, <2>8, <2>9 DEF PipesPhase
<1> QED
  BY <1>4, <1>6, <1>7

-----------------------------------------------------------------------------
(* The inputs that no pipe brought back.                                      *)
LEMMA PipesDoneStep ==
  ASSUME Steady, Exec(Boot), PipesDone
  PROVE  InsPhase'
<1> DEFINE t == <<On("restoreOuts", 0)>>
<1>0. PICK X : X = {i \in Inputs : inRow[i] = "running"}
  OBVIOUS
<1>1. X \in SUBSET Inputs
  BY <1>0
<1>2. prog[Boot] = <<On("restoreIns", 0)>> \o t
  BY RestoreParts, Joins DEF PipesDone, BootProg
<1>3. t \in Seq(Instr) /\ On("restoreIns", 0) \in Instr /\ ProgTyped
  BY RestoreParts DEF Steady, PlaneInv
<1> HIDE DEF t
<1>4. At(Boot, On("restoreIns", 0).op) /\ \A v \in Seq(Instr) : Become(Boot, v) => prog'[Boot] = v \o t
  BY <1>2, <1>3, BootCalls, FrontIs
<1>5. Still /\ Become(Boot, <<On("eachInput", X)>>)
  <2>1. At(Boot, "restoreIns")
    BY <1>4 DEF On
  <2> QED
    BY <1>0, <2>1, BootCalls, LoopsDo
<1>6. prog'[Boot] = InsLeft(X)
  <2>1. <<On("eachInput", X)>> \in Seq(Instr) /\ InsLeft(X) = <<On("eachInput", X)>> \o t
    BY <1>1, RestoreParts DEF t
  <2> QED
    BY <1>4, <1>5, <2>1
<1>7. Sound({}, {}, {})' /\ UNCHANGED inRow
  BY <1>5, SoundStill DEF PipesDone
<1>8. InsOn(X)'
  BY <1>0, <1>7 DEF InsOn
<1>9. BetweenIns(X)'
  BY <1>6, <1>7, <1>8 DEF BetweenIns, BootProg
<1> QED
  BY <1>1, <1>9 DEF InsPhase

LEMMA BetweenInsStep ==
  ASSUME Steady, Exec(Boot), NEW X \in SUBSET Inputs, BetweenIns(X)
  PROVE  InsPhase' \/ InsDone'
<1> DEFINE t == <<On("restoreOuts", 0)>>
<1>1. prog[Boot] = <<On("eachInput", X)>> \o t /\ Sound({}, {}, {}) /\ InsOn(X)
  BY RestoreParts DEF BetweenIns, BootProg
<1>2. t \in Seq(Instr) /\ On("eachInput", X) \in Instr /\ ProgTyped
  BY RestoreParts DEF Steady, PlaneInv
<1> HIDE DEF t
<1>3. /\ At(Boot, "eachInput") /\ Arg(Boot) = X /\ (Continue(Boot) => prog'[Boot] = t)
      /\ \A v \in Seq(Instr) : Become(Boot, v) => prog'[Boot] = v \o t
  <2>1. /\ At(Boot, On("eachInput", X).op) /\ Arg(Boot) = On("eachInput", X).x
        /\ (Continue(Boot) => prog'[Boot] = t)
        /\ \A v \in Seq(Instr) : Become(Boot, v) => prog'[Boot] = v \o t
    BY <1>1, <1>2, BootCalls, FrontIs
  <2> QED
    BY <2>1 DEF On
<1>4. /\ Still
      /\ \/ X = {} /\ Continue(Boot)
         \/ \E i \in X : Become(Boot, Body("eachInput", i) \o <<On("eachInput", X \ {i})>>)
  BY <1>3, BootCalls, LoopsDo DEF Loops
<1>5. /\ Sound({}, {}, {})' /\ SameIns /\ UNCHANGED inRow
      /\ \A i \in Inputs : InUse(i)' <=> InUse(i)
  BY <1>1, <1>4, SoundStill
<1>6. CASE X = {} /\ Continue(Boot)
  <2>1. InsOn({})'
    BY <1>1, <1>5, <1>6 DEF InsOn, SameIns, InTold
  <2>2. InsDone'
    BY <1>3, <1>5, <1>6, <2>1 DEF InsDone, BootProg, t
  <2> QED
    BY <2>2
<1>7. ASSUME NEW i \in X, Become(Boot, Body("eachInput", i) \o <<On("eachInput", X \ {i})>>)
      PROVE  InsPhase'
  <2> DEFINE Z == X \ {i}
  <2>1. i \in Inputs /\ Z \in SUBSET Inputs /\ i \notin Z /\ Z \cup {i} = X
    OBVIOUS
  <2>2. Become(Boot, Body("eachInput", i) \o <<On("eachInput", Z)>>)
    BY <1>7
  <2> HIDE DEF Z
  <2>3. On("eachInput", Z) \in Instr /\ InsLeft(Z) = <<On("eachInput", Z)>> \o t
    BY <2>1, RestoreParts DEF t
  <2>4. CASE InUse(i)
    <3>1. Body("eachInput", i) = <<>>
      BY <2>4 DEF Body
    <3>2. Become(Boot, <<>> \o <<On("eachInput", Z)>>)
      BY <2>2, <3>1
    <3>3. <<>> \o <<On("eachInput", Z)>> = <<On("eachInput", Z)>> /\ <<On("eachInput", Z)>> \in Seq(Instr)
      <4>1. <<On("eachInput", Z)>> \in Seq(Instr)
        BY <2>3
      <4> QED
        BY <4>1, ConcatEmptySeq
    <3>4. prog'[Boot] = InsLeft(Z)
      BY <1>3, <2>3, <3>2, <3>3
    <3>5. InTold(i)
      <4>1. PICK p \in PipeIds : Exists(p) /\ pipeRow[p].in = i /\ IsRunning(p)
        BY <2>4 DEF InUse, PipesOf
      <4> QED
        BY <1>1, <4>1 DEF Sound, Settled
    <3>6. InsOn(Z)'
      BY <1>1, <1>5, <2>1, <3>5 DEF InsOn, SameIns, InTold
    <3>7. BetweenIns(Z)'
      BY <1>5, <3>4, <3>6 DEF BetweenIns, BootProg
    <3> QED
      BY <2>1, <3>7 DEF InsPhase
  <2>5. CASE ~InUse(i)
    <3>1. Body("eachInput", i) = InItem(i)
      BY <2>5 DEF Body, InItem
    <3>2. Become(Boot, InItem(i) \o <<On("eachInput", Z)>>)
      BY <2>2, <3>1
    <3>3. InItem(i) \in Seq(Instr) /\ InItem(i) # <<>>
      BY <2>1, InItemIs
    <3>4. prog'[Boot] = After(InItem(i), <<On("eachInput", Z)>> \o t, 1)
      <4>1. \A a \in Instr, b \in Instr : prog[Boot] = <<a>> \o t /\ Become(Boot, InItem(i) \o <<b>>)
              => prog'[Boot] = After(InItem(i), <<b>> \o t, 1)
        BY <1>2, <3>3, BootRound
      <4> QED
        BY <1>1, <1>2, <2>3, <3>2, <4>1
    <3>5. InsOn(Z \cup {i})' /\ ~InUse(i)'
      BY <1>1, <1>5, <2>1, <2>5 DEF InsOn, SameIns, InTold
    <3>6. StartingIn(Z, i, 1)'
      BY <1>5, <2>3, <3>4, <3>5 DEF StartingIn, BootProg
    <3>7. 1 \in 1 .. 5
      OBVIOUS
    <3> QED
      BY <2>1, <3>6, <3>7 DEF InsPhase
  <2> QED
    BY <2>4, <2>5
<1> QED
  BY <1>4, <1>6, <1>7

LEMMA InItemOps ==
  ASSUME NEW i \in Inputs
  PROVE  /\ InItem(i)[1].op = "needIn" /\ InItem(i)[1].x = i
         /\ InItem(i)[2].op = "openIn" /\ InItem(i)[2].x = i
         /\ InItem(i)[3].op = "runInOrFail"
         /\ InItem(i)[4].op = "setIn" /\ InItem(i)[4].x = i /\ InItem(i)[4].st = "running"
         /\ InItem(i)[5].op = "doneIn" /\ InItem(i)[5].x = i
<1>1. /\ \A op, x : On(op, x).op = op /\ On(op, x).x = x
      /\ \A op, x, st : Set(op, x, st).op = op /\ Set(op, x, st).x = x /\ Set(op, x, st).st = st
  BY DEF On, Set
<1> QED
  BY <1>1, InItemIs

LEMMA InItemHead ==
  ASSUME NEW X \in SUBSET Inputs, NEW i \in Inputs, NEW k \in 1 .. 5, StartingIn(X, i, k)
  PROVE  /\ At(Boot, InItem(i)[k].op) /\ Arg(Boot) = InItem(i)[k].x /\ prog[Boot][1] = InItem(i)[k]
         /\ InItem(i) \in Seq(Instr) /\ k \in 1 .. Len(InItem(i)) /\ Len(InItem(i)) = 5
         /\ InsLeft(X) \in Seq(Instr) /\ prog[Boot] = After(InItem(i), InsLeft(X), k)
<1>1. /\ InItem(i) \in Seq(Instr) /\ k \in 1 .. Len(InItem(i)) /\ Len(InItem(i)) = 5
      /\ InsLeft(X) \in Seq(Instr) /\ prog[Boot] = After(InItem(i), InsLeft(X), k)
  BY InItemIs, LeftTyped DEF StartingIn, BootProg
<1>2. prog[Boot][1] = InItem(i)[k] /\ Arg(Boot) = InItem(i)[k].x /\ At(Boot, InItem(i)[k].op)
  BY <1>1, BootHead
<1> QED
  BY <1>1, <1>2

LEMMA StartingInGoesOn ==
  ASSUME Steady, NEW X \in SUBSET Inputs, NEW i \in Inputs, NEW k \in 1 .. 4, StartingIn(X, i, k), Continue(Boot),
         k = 3 => Sound({}, {i}, {})',
         k # 3 => Sound({}, {}, {})',
         ~InUse(i)', InsOn(X \cup {i})',
         k <= 3 => inRow'[i] # "none",
         k = 2 => sources'[i] # 0 /\ held'[Boot] = <<"src", sources'[i]>>,
         k >= 3 => InOn(i)'
  PROVE  InsPhase'
<1>1. prog'[Boot] = After(InItem(i), InsLeft(X), k + 1)
  <2>1. k \in 1 .. 5
    OBVIOUS
  <2>2. /\ InItem(i) \in Seq(Instr) /\ k \in 1 .. Len(InItem(i))
        /\ InsLeft(X) \in Seq(Instr) /\ prog[Boot] = After(InItem(i), InsLeft(X), k)
    BY <2>1, InItemHead
  <2> QED
    BY <2>2, BootCalls, GoOn DEF Steady, PlaneInv
<1>2. CASE k = 3
  <2>1. StartingIn(X, i, 4)'
    <3>1. prog'[Boot] = After(InItem(i), InsLeft(X), 4)
      BY <1>1, <1>2
    <3> QED
      BY <1>2, <3>1 DEF StartingIn, BootProg
  <2>2. 4 \in 1 .. 5
    OBVIOUS
  <2> QED
    BY <2>1, <2>2 DEF InsPhase
<1>3. CASE k # 3
  <2>1. StartingIn(X, i, k + 1)'
    BY <1>1, <1>3 DEF StartingIn, BootProg
  <2>2. k + 1 \in 1 .. 5
    OBVIOUS
  <2> QED
    BY <2>1, <2>2 DEF InsPhase
<1> QED
  BY <1>2, <1>3

LEMMA StartingInFails ==
  ASSUME Steady, NEW X \in SUBSET Inputs, NEW i \in Inputs, NEW k \in 1 .. 3, StartingIn(X, i, k), Fail(Boot),
         Sound({}, {}, {})', ~InUse(i)', InsOn(X \cup {i})', ~InOn(i)'
  PROVE  InsPhase'
<1> DEFINE w == InItem(i)
<1>1. /\ w \in Seq(Instr) /\ k \in 1 .. Len(w) /\ Len(w) = 5 /\ InsLeft(X) \in Seq(Instr)
      /\ prog[Boot] = After(w, InsLeft(X), k)
  <2>1. k \in 1 .. 5
    OBVIOUS
  <2> QED
    BY <2>1, InItemHead
<1>2. /\ w[1].op = "needIn" /\ w[2].op = "openIn" /\ w[3].op = "runInOrFail" /\ w[4].op = "setIn"
      /\ w[5].op = "doneIn" /\ w[5].x = i
  BY InItemOps
<1> HIDE DEF w
<1>3. w[Len(w)].op \in Catches /\ \A j \in k .. Len(w) - 1 : w[j].op \notin Catches
  <2>1. \A j \in k .. 4 : j = 1 \/ j = 2 \/ j = 3 \/ j = 4
    OBVIOUS
  <2>2. \A j \in k .. 4 : w[j].op \notin Catches
    BY <1>2, <2>1 DEF Catches
  <2> QED
    BY <1>1, <1>2, <2>2 DEF Catches
<1>4. prog'[Boot] = Rescue(w[Len(w)]) \o InsLeft(X)
  BY <1>1, <1>3, BootCalls, GiveUp DEF Steady, PlaneInv
<1>5. Rescue(w[5]) = <<Set("setIn", i, "stopped")>>
  BY <1>2 DEF Rescue
<1>6. prog'[Boot] = After(<<Set("setIn", i, "stopped")>>, InsLeft(X), 1)
  <2>1. Set("setIn", i, "stopped") \in Instr
    BY StampedInstr DEF Status
  <2>2. <<Set("setIn", i, "stopped")>> \in Seq(Instr) /\ <<Set("setIn", i, "stopped")>> # <<>>
    BY <2>1
  <2>3. prog'[Boot] = <<Set("setIn", i, "stopped")>> \o InsLeft(X)
    BY <1>1, <1>4, <1>5
  <2>4. After(<<Set("setIn", i, "stopped")>>, InsLeft(X), 1) = <<Set("setIn", i, "stopped")>> \o InsLeft(X)
    BY <1>1, <2>2, AfterEnds
  <2> QED
    BY <2>3, <2>4
<1>7. FailingIn(X, i)'
  BY <1>6 DEF FailingIn, BootProg
<1> QED
  BY <1>7 DEF InsPhase

LEMMA StartingInNeeds ==
  ASSUME Steady, Exec(Boot), NEW X \in SUBSET Inputs, NEW i \in Inputs, StartingIn(X, i, 1)
  PROVE  InsPhase'
<1>1. At(Boot, "needIn") /\ Arg(Boot) = i /\ 1 \in 1 .. 4 /\ 1 \in 1 .. 2
  <2>1. 1 \in 1 .. 5
    OBVIOUS
  <2>2. At(Boot, InItem(i)[1].op) /\ Arg(Boot) = InItem(i)[1].x /\ prog[Boot][1] = InItem(i)[1]
    BY <2>1, InItemHead
  <2> QED
    BY <2>2, InItemOps
<1>2. Still /\ ((inRow[i] # "none" /\ Continue(Boot)) \/ (inRow[i] = "none" /\ Fail(Boot)))
  BY <1>1, BootCalls, ReadsDo
<1>3. Sound({}, {}, {}) /\ ~InUse(i) /\ InsOn(X \cup {i})
  BY DEF StartingIn
<1>4. Sound({}, {}, {})' /\ ~InUse(i)' /\ SameIns /\ UNCHANGED inRow
  BY <1>2, <1>3, SoundStill
<1>5. InsOn(X \cup {i})'
  BY <1>3, <1>4 DEF InsOn, SameIns, InTold
<1>6. CASE inRow[i] # "none" /\ Continue(Boot)
  <2>1. /\ 1 = 3 => Sound({}, {i}, {})'
        /\ 1 # 3 => Sound({}, {}, {})'
        /\ 1 = 2 => sources'[i] # 0 /\ held'[Boot] = <<"src", sources'[i]>>
        /\ 1 >= 3 => InOn(i)'
    BY <1>4
  <2>2. 1 <= 3 => inRow'[i] # "none"
    BY <1>4, <1>6
  <2> QED
    BY <1>1, <1>4, <1>5, <1>6, <2>1, <2>2, StartingInGoesOn
<1>7. CASE inRow[i] = "none" /\ Fail(Boot)
  <2>1. ~InOn(i)
    BY <1>3, <1>7 DEF Sound, Accounted
  <2>2. ~InOn(i)'
    BY <1>4, <2>1 DEF SameIns
  <2> QED
    BY <1>1, <1>4, <1>5, <1>7, <2>2, StartingInFails
<1> QED
  BY <1>2, <1>6, <1>7

LEMMA StartingInOpens ==
  ASSUME Steady, Exec(Boot), NEW X \in SUBSET Inputs, NEW i \in Inputs, StartingIn(X, i, 2)
  PROVE  InsPhase'
<1>1. At(Boot, "openIn") /\ Arg(Boot) = i /\ 2 \in 1 .. 4 /\ 2 \in 1 .. 2
  <2>1. 2 \in 1 .. 5
    OBVIOUS
  <2>2. At(Boot, InItem(i)[2].op) /\ Arg(Boot) = InItem(i)[2].x /\ prog[Boot][1] = InItem(i)[2]
    BY <2>1, InItemHead
  <2> QED
    BY <2>2, InItemOps
<1>2. /\ \/ OpenInput(Boot, i) /\ Continue(Boot)
         \/ sources[i] = 0 /\ UNCHANGED hubVars /\ Fail(Boot)
      /\ SameRows
  <2>1. /\ \/ OpenInput(Boot, Arg(Boot)) /\ Continue(Boot)
           \/ sources[Arg(Boot)] = 0 /\ UNCHANGED hubVars /\ Fail(Boot)
        /\ SameRows
    BY <1>1, BootCalls, FindsDo
  <2> QED
    BY <1>1, <2>1
<1>3. Sound({}, {}, {}) /\ ~InUse(i) /\ InsOn(X \cup {i}) /\ inRow[i] # "none"
  BY DEF StartingIn
<1>4. UNCHANGED <<rowVars, inRow, pipeRow>> /\ ~InUse(i)'
  BY <1>2, <1>3, UseStays DEF SameRows, rowVars
<1>5. CASE OpenInput(Boot, i) /\ Continue(Boot)
  <2>1. SameIns /\ SameOuts /\ SamePipes /\ NothingLoose' /\ sources'[i] # 0
    <3>1. CASE CreateInput(i)
      BY <1>3, <1>4, <3>1, OnAfterCreateInput DEF Sound
    <3>2. CASE InputFound(i)
      <4>1. UNCHANGED <<regVars, srcOn, snkOn, pstate, pipeRow>> /\ sources[i] # 0 /\ sources' = sources
        BY <1>4, <3>2 DEF InputFound, objVars, regVars
      <4> QED
        BY <1>3, <4>1, OnAfterNothing DEF Sound
    <3> QED
      BY <1>5, <3>1, <3>2 DEF OpenInput
  <2>2. Sound({}, {}, {})'
    BY <1>3, <1>4, <2>1, SoundGrows DEF SameIns, SameOuts, SamePipes
  <2>3. InsOn(X \cup {i})'
    BY <1>3, <1>4, <2>1 DEF InsOn, SameIns, InTold
  <2>4. held'[Boot] = <<"src", sources'[i]>>
    BY <1>5, BootCalls DEF OpenInput, Hold, Steady, PlaneInv, HubInv, HubTypeOK
  <2>5. /\ 2 = 3 => Sound({}, {i}, {})'
        /\ 2 # 3 => Sound({}, {}, {})'
        /\ 2 >= 3 => InOn(i)'
    BY <2>2
  <2>6. 2 <= 3 => inRow'[i] # "none"
    BY <1>3, <1>4
  <2>7. 2 = 2 => sources'[i] # 0 /\ held'[Boot] = <<"src", sources'[i]>>
    BY <2>1, <2>4
  <2> QED
    BY <1>1, <1>4, <1>5, <2>3, <2>5, <2>6, <2>7, StartingInGoesOn
<1>6. CASE sources[i] = 0 /\ UNCHANGED hubVars /\ Fail(Boot)
  <2>1. Still
    BY <1>2, <1>6 DEF Still, SameHub
  <2>2. Sound({}, {}, {})' /\ SameIns
    BY <1>3, <2>1, SoundStill
  <2>3. InsOn(X \cup {i})'
    BY <1>3, <1>4, <2>2 DEF InsOn, SameIns, InTold
  <2>4. ~InOn(i)'
    BY <1>6, <2>2, OnTyped DEF SameIns
  <2> QED
    BY <1>1, <1>4, <1>6, <2>2, <2>3, <2>4, StartingInFails
<1> QED
  BY <1>2, <1>5, <1>6

LEMMA StartingInRuns ==
  ASSUME Steady, Exec(Boot), NEW X \in SUBSET Inputs, NEW i \in Inputs, StartingIn(X, i, 3)
  PROVE  InsPhase'
<1>1. At(Boot, "runInOrFail") /\ 3 \in 1 .. 4 /\ 3 \in 1 .. 3
  <2>1. 3 \in 1 .. 5
    OBVIOUS
  <2>2. At(Boot, InItem(i)[3].op) /\ Arg(Boot) = InItem(i)[3].x /\ prog[Boot][1] = InItem(i)[3]
    BY <2>1, InItemHead
  <2> QED
    BY <2>2, InItemOps
<1>2. ((RunSource(Boot) /\ Continue(Boot)) \/ (RunSourceFails(Boot) /\ Fail(Boot))) /\ SameRows
  BY <1>1, BootCalls, RunsDo
<1>3. /\ Sound({}, {}, {}) /\ ~InUse(i) /\ InsOn(X \cup {i}) /\ inRow[i] # "none"
      /\ sources[i] # 0 /\ held[Boot] = <<"src", sources[i]>>
  BY DEF StartingIn
<1>4. UNCHANGED <<rowVars, inRow, pipeRow>> /\ ~InUse(i)'
  BY <1>2, <1>3, UseStays DEF SameRows, rowVars
<1>5. CASE RunSourceFails(Boot) /\ Fail(Boot)
  <2>1. UNCHANGED <<regVars, objVars>> /\ ~InOn(i)
    BY <1>3, <1>5 DEF RunSourceFails, InOn
  <2>2. SameIns /\ SameOuts /\ SamePipes /\ NothingLoose'
    BY <1>3, <1>4, <2>1, OnAfterNothing DEF objVars, Sound
  <2>3. Sound({}, {}, {})'
    BY <1>3, <1>4, <2>2, SoundGrows DEF SameIns, SameOuts, SamePipes
  <2>4. InsOn(X \cup {i})' /\ ~InOn(i)'
    BY <1>3, <1>4, <2>1, <2>2 DEF InsOn, SameIns, InTold
  <2> QED
    BY <1>1, <1>4, <1>5, <2>3, <2>4, StartingInFails
<1>6. CASE RunSource(Boot) /\ Continue(Boot)
  <2>1. /\ \A j \in Inputs : InOn(j)' <=> InOn(j) \/ j = i
        /\ SameOuts /\ SamePipes /\ NothingLoose'
    <3>1. NothingLoose /\ UNCHANGED pipeRow /\ Boot \in Callers
      BY <1>2, <1>6, <1>3, <1>4, BootCalls DEF Sound, rowVars, SameRows
    <3> QED
      BY <1>2, <1>6, <1>3, <3>1, OnAfterRunSource
  <2>2. Sound({}, {i}, {})
    BY <1>3 DEF Sound, Accounted
  <2>3. Sound({}, {i}, {})'
    BY <1>4, <2>1, <2>2, SoundGrows DEF SameOuts, SamePipes
  <2>4. InsOn(X \cup {i})' /\ InOn(i)' /\ inRow'[i] # "none"
    BY <1>3, <1>4, <2>1 DEF InsOn, InTold
  <2> QED
    BY <1>1, <1>2, <1>6, <1>4, <2>3, <2>4, StartingInGoesOn
<1> QED
  BY <1>2, <1>5, <1>6

LEMMA StartingInSets ==
  ASSUME Steady, Exec(Boot), NEW X \in SUBSET Inputs, NEW i \in Inputs, StartingIn(X, i, 4)
  PROVE  InsPhase'
<1>1. At(Boot, "setIn") /\ Arg(Boot) = i /\ prog[Boot][1].st = "running" /\ 4 \in 1 .. 4
  <2>1. 4 \in 1 .. 5
    OBVIOUS
  <2>2. At(Boot, InItem(i)[4].op) /\ Arg(Boot) = InItem(i)[4].x /\ prog[Boot][1] = InItem(i)[4]
    BY <2>1, InItemHead
  <2> QED
    BY <2>2, InItemOps
<1>2. /\ SameHub /\ UNCHANGED <<outRow, pipeRow>> /\ Continue(Boot)
      /\ inRow' = IF inRow[i] = "none" THEN inRow ELSE [inRow EXCEPT ![i] = "running"]
  BY <1>1, BootCalls, WritesDo
<1>3. Sound({}, {i}, {}) /\ ~InUse(i) /\ InsOn(X \cup {i}) /\ inRow[i] # "none" /\ InOn(i)
  BY DEF StartingIn
<1>4. Sound({}, {}, {})'
  <2>1. "running" \in Status /\ {i} \ {i} = {}
    BY DEF Status
  <2>2. Sound({}, {i} \ {i}, {})'
    BY <1>2, <1>3, <2>1, SoundSetIn
  <2> QED
    BY <2>1, <2>2
<1>5. SameIns /\ ~InUse(i)'
  BY <1>2, <1>3, HubStays, UseStays
<1>6. InsOn(X \cup {i})' /\ InOn(i)'
  BY <1>2, <1>3, <1>5 DEF InsOn, SameIns, Steady, PlaneInv, RowsTyped, InTold
<1>7. /\ 4 = 3 => Sound({}, {i}, {})'
      /\ 4 # 3 => Sound({}, {}, {})'
      /\ 4 <= 3 => inRow'[i] # "none"
      /\ 4 = 2 => sources'[i] # 0 /\ held'[Boot] = <<"src", sources'[i]>>
  BY <1>4
<1>8. 4 >= 3 => InOn(i)'
  BY <1>6
<1> QED
  BY <1>1, <1>2, <1>5, <1>6, <1>7, <1>8, StartingInGoesOn

LEMMA StartingInIsDone ==
  ASSUME Steady, Exec(Boot), NEW X \in SUBSET Inputs, NEW i \in Inputs, StartingIn(X, i, 5)
  PROVE  InsPhase'
<1>1. /\ At(Boot, "doneIn") /\ InItem(i) \in Seq(Instr) /\ 5 \in 1 .. Len(InItem(i)) /\ Len(InItem(i)) = 5
      /\ InsLeft(X) \in Seq(Instr) /\ prog[Boot] = After(InItem(i), InsLeft(X), 5)
  <2>1. 5 \in 1 .. 5
    OBVIOUS
  <2>2. /\ At(Boot, InItem(i)[5].op) /\ InItem(i) \in Seq(Instr) /\ 5 \in 1 .. Len(InItem(i)) /\ Len(InItem(i)) = 5
        /\ InsLeft(X) \in Seq(Instr) /\ prog[Boot] = After(InItem(i), InsLeft(X), 5)
    BY <2>1, InItemHead
  <2> QED
    BY <2>2, InItemOps
<1>2. Still /\ Continue(Boot)
  BY <1>1, BootCalls, LoopsDo
<1>3. Sound({}, {}, {}) /\ InsOn(X \cup {i}) /\ InOn(i)
  BY DEF StartingIn
<1>4. Sound({}, {}, {})' /\ SameIns /\ UNCHANGED inRow
  BY <1>2, <1>3, SoundStill
<1>5. InsOn(X)'
  BY <1>3, <1>4 DEF InsOn, SameIns, InTold
<1>6. prog'[Boot] = InsLeft(X)
  <2>1. prog'[Boot] = After(InItem(i), InsLeft(X), 5 + 1)
    BY <1>1, <1>2, BootCalls, GoOn DEF Steady, PlaneInv
  <2>2. After(InItem(i), InsLeft(X), Len(InItem(i)) + 1) = InsLeft(X)
    BY <1>1, AfterEnds
  <2> QED
    BY <1>1, <2>1, <2>2
<1>7. BetweenIns(X)'
  BY <1>4, <1>5, <1>6 DEF BetweenIns, BootProg
<1> QED
  BY <1>7 DEF InsPhase

LEMMA FailingInStep ==
  ASSUME Steady, Exec(Boot), NEW X \in SUBSET Inputs, NEW i \in Inputs, FailingIn(X, i)
  PROVE  InsPhase'
<1> DEFINE a == Set("setIn", i, "stopped")
<1>1. prog[Boot] = <<a>> \o InsLeft(X) /\ a \in Instr /\ InsLeft(X) \in Seq(Instr)
  <2>1. a \in Instr
    BY StampedInstr DEF Status
  <2>2. <<a>> \in Seq(Instr) /\ <<a>> # <<>> /\ InsLeft(X) \in Seq(Instr)
    BY <2>1, LeftTyped
  <2>3. After(<<a>>, InsLeft(X), 1) = <<a>> \o InsLeft(X)
    BY <2>2, AfterEnds
  <2> QED
    BY <2>1, <2>2, <2>3 DEF FailingIn, BootProg
<1>2. a.op = "setIn" /\ a.x = i /\ a.st = "stopped"
  BY DEF Set
<1> HIDE DEF a
<1>3. At(Boot, a.op) /\ Arg(Boot) = a.x /\ (Continue(Boot) => prog'[Boot] = InsLeft(X))
  BY <1>1, BootCalls, FrontIs DEF Steady, PlaneInv
<1>4. prog[Boot][1] = a
  <2>1. <<a>> \in Seq(Instr) /\ 1 \in 1 .. Len(<<a>>) /\ <<a>>[1] = a /\ <<a>> # <<>>
    BY <1>1
  <2>2. prog[Boot] = After(<<a>>, InsLeft(X), 1)
    BY <1>1, <2>1, AfterEnds
  <2>3. After(<<a>>, InsLeft(X), 1)[1] = <<a>>[1]
    BY <1>1, <2>1, AfterParts
  <2> QED
    BY <2>1, <2>2, <2>3
<1>5. At(Boot, "setIn") /\ Arg(Boot) = i /\ prog[Boot][1].st = "stopped"
  BY <1>2, <1>3, <1>4
<1>6. /\ SameHub /\ UNCHANGED <<outRow, pipeRow>> /\ Continue(Boot)
      /\ inRow' = IF inRow[i] = "none" THEN inRow ELSE [inRow EXCEPT ![i] = "stopped"]
  BY <1>5, BootCalls, WritesDo
<1>7. Sound({}, {}, {}) /\ ~InUse(i) /\ InsOn(X \cup {i}) /\ ~InOn(i)
  BY DEF FailingIn
<1>8. Sound({}, {}, {})'
  <2>1. "stopped" \in Status
    BY DEF Status
  <2> QED
    BY <1>6, <1>7, <2>1, SoundSetIn
<1>9. InsOn(X)'
  BY <1>6, <1>7, HubStays DEF InsOn, SameIns, Steady, PlaneInv, RowsTyped, InTold
<1>10. BetweenIns(X)'
  BY <1>3, <1>6, <1>8, <1>9 DEF BetweenIns, BootProg
<1> QED
  BY <1>10 DEF InsPhase

LEMMA InsStay ==
  ASSUME InsOn({}), SameIns, UNCHANGED inRow
  PROVE  InsOn({})'
  BY DEF InsOn, SameIns, InTold

LEMMA InsDoneStep ==
  ASSUME Steady, Exec(Boot), InsDone
  PROVE  OutsPhase'
<1>0. PICK X : X = {o \in Outputs : outRow[o] = "running"}
  OBVIOUS
<1>1. X \in SUBSET Outputs
  BY <1>0
<1>2. prog[Boot] = <<On("restoreOuts", 0)>> \o <<>>
  BY RestoreParts, Joins DEF InsDone, BootProg
<1>3. <<>> \in Seq(Instr) /\ On("restoreOuts", 0) \in Instr /\ ProgTyped
  BY RestoreParts DEF Steady, PlaneInv
<1>4. At(Boot, On("restoreOuts", 0).op) /\ \A v \in Seq(Instr) : Become(Boot, v) => prog'[Boot] = v \o <<>>
  BY <1>2, <1>3, BootCalls, FrontIs
<1>5. Still /\ Become(Boot, <<On("eachOutput", X)>>)
  <2>1. At(Boot, "restoreOuts")
    BY <1>4 DEF On
  <2> QED
    BY <1>0, <2>1, BootCalls, LoopsDo
<1>6. prog'[Boot] = OutsLeft(X)
  <2>1. <<On("eachOutput", X)>> \in Seq(Instr) /\ OutsLeft(X) = <<On("eachOutput", X)>> \o <<>>
    BY <1>1, RestoreParts
  <2> QED
    BY <1>4, <1>5, <2>1
<1>7. Sound({}, {}, {})' /\ UNCHANGED <<inRow, outRow>> /\ SameIns /\ SameOuts
  BY <1>5, SoundStill DEF InsDone
<1>8. InsOn({})'
  BY <1>7, InsStay DEF InsDone
<1>9. OutsOn(X)'
  BY <1>0, <1>7 DEF OutsOn
<1>10. BetweenOuts(X)'
  BY <1>6, <1>7, <1>8, <1>9 DEF BetweenOuts, BootProg
<1> QED
  BY <1>1, <1>10 DEF OutsPhase

LEMMA BetweenOutsStep ==
  ASSUME Steady, Exec(Boot), NEW X \in SUBSET Outputs, BetweenOuts(X)
  PROVE  OutsPhase' \/ Agreed'
<1> DEFINE t == <<>>
<1>1. prog[Boot] = <<On("eachOutput", X)>> \o t /\ Sound({}, {}, {}) /\ InsOn({}) /\ OutsOn(X)
  BY RestoreParts DEF BetweenOuts, BootProg
<1>2. t \in Seq(Instr) /\ On("eachOutput", X) \in Instr /\ ProgTyped
  BY RestoreParts DEF Steady, PlaneInv
<1> HIDE DEF t
<1>3. /\ At(Boot, "eachOutput") /\ Arg(Boot) = X /\ (Continue(Boot) => prog'[Boot] = t)
      /\ \A v \in Seq(Instr) : Become(Boot, v) => prog'[Boot] = v \o t
  <2>1. /\ At(Boot, On("eachOutput", X).op) /\ Arg(Boot) = On("eachOutput", X).x
        /\ (Continue(Boot) => prog'[Boot] = t)
        /\ \A v \in Seq(Instr) : Become(Boot, v) => prog'[Boot] = v \o t
    BY <1>1, <1>2, BootCalls, FrontIs
  <2> QED
    BY <2>1 DEF On
<1>4. /\ Still
      /\ \/ X = {} /\ Continue(Boot)
         \/ \E o \in X : Become(Boot, Body("eachOutput", o) \o <<On("eachOutput", X \ {o})>>)
  BY <1>3, BootCalls, LoopsDo DEF Loops
<1>5. /\ Sound({}, {}, {})' /\ SameOuts /\ UNCHANGED outRow
      /\ (\A o \in Outputs : OutInUse(o)' <=> OutInUse(o)) /\ InsOn({})'
  <2>1. /\ Sound({}, {}, {})' /\ SameOuts /\ SameIns /\ UNCHANGED <<inRow, outRow>>
        /\ \A o \in Outputs : OutInUse(o)' <=> OutInUse(o)
    BY <1>1, <1>4, SoundStill
  <2> QED
    BY <1>1, <2>1, InsStay
<1>6. CASE X = {} /\ Continue(Boot)
  <2>1. OutsOn({})'
    BY <1>1, <1>5, <1>6 DEF OutsOn, SameOuts, OutTold
  <2>2. Agreed'
    BY <1>3, <1>5, <1>6, <2>1 DEF Agreed, BootProg, t
  <2> QED
    BY <2>2
<1>7. ASSUME NEW o \in X, Become(Boot, Body("eachOutput", o) \o <<On("eachOutput", X \ {o})>>)
      PROVE  OutsPhase'
  <2> DEFINE Z == X \ {o}
  <2>1. o \in Outputs /\ Z \in SUBSET Outputs /\ o \notin Z /\ Z \cup {o} = X
    OBVIOUS
  <2>2. Become(Boot, Body("eachOutput", o) \o <<On("eachOutput", Z)>>)
    BY <1>7
  <2> HIDE DEF Z
  <2>3. On("eachOutput", Z) \in Instr /\ OutsLeft(Z) = <<On("eachOutput", Z)>> \o t
    BY <2>1, RestoreParts DEF t
  <2>4. CASE OutInUse(o)
    <3>1. Body("eachOutput", o) = <<>>
      BY <2>4 DEF Body
    <3>2. Become(Boot, <<>> \o <<On("eachOutput", Z)>>)
      BY <2>2, <3>1
    <3>3. <<>> \o <<On("eachOutput", Z)>> = <<On("eachOutput", Z)>> /\ <<On("eachOutput", Z)>> \in Seq(Instr)
      <4>1. <<On("eachOutput", Z)>> \in Seq(Instr)
        BY <2>3
      <4> QED
        BY <4>1, ConcatEmptySeq
    <3>4. prog'[Boot] = OutsLeft(Z)
      BY <1>3, <2>3, <3>2, <3>3
    <3>5. OutTold(o)
      <4>1. PICK p \in PipeIds : Exists(p) /\ pipeRow[p].out = o /\ IsRunning(p)
        BY <2>4 DEF OutInUse, PipesTo
      <4> QED
        BY <1>1, <4>1 DEF Sound, Settled
    <3>6. OutsOn(Z)'
      BY <1>1, <1>5, <2>1, <3>5 DEF OutsOn, SameOuts, OutTold
    <3>7. BetweenOuts(Z)'
      BY <1>5, <3>4, <3>6 DEF BetweenOuts, BootProg
    <3> QED
      BY <2>1, <3>7 DEF OutsPhase
  <2>5. CASE ~OutInUse(o)
    <3>1. Body("eachOutput", o) = OutItem(o)
      BY <2>5 DEF Body, OutItem
    <3>2. Become(Boot, OutItem(o) \o <<On("eachOutput", Z)>>)
      BY <2>2, <3>1
    <3>3. OutItem(o) \in Seq(Instr) /\ OutItem(o) # <<>>
      BY <2>1, OutItemIs
    <3>4. prog'[Boot] = After(OutItem(o), <<On("eachOutput", Z)>> \o t, 1)
      <4>1. \A a \in Instr, b \in Instr : prog[Boot] = <<a>> \o t /\ Become(Boot, OutItem(o) \o <<b>>)
              => prog'[Boot] = After(OutItem(o), <<b>> \o t, 1)
        BY <1>2, <3>3, BootRound
      <4> QED
        BY <1>1, <1>2, <2>3, <3>2, <4>1
    <3>5. OutsOn(Z \cup {o})' /\ ~OutInUse(o)'
      BY <1>1, <1>5, <2>1, <2>5 DEF OutsOn, SameOuts, OutTold
    <3>6. StartingOut(Z, o, 1)'
      BY <1>5, <2>3, <3>4, <3>5 DEF StartingOut, BootProg
    <3>7. 1 \in 1 .. 5
      OBVIOUS
    <3> QED
      BY <2>1, <3>6, <3>7 DEF OutsPhase
  <2> QED
    BY <2>4, <2>5
<1> QED
  BY <1>4, <1>6, <1>7

LEMMA OutItemOps ==
  ASSUME NEW o \in Outputs
  PROVE  /\ OutItem(o)[1].op = "needOut" /\ OutItem(o)[1].x = o
         /\ OutItem(o)[2].op = "openOut" /\ OutItem(o)[2].x = o
         /\ OutItem(o)[3].op = "runOutOrFail"
         /\ OutItem(o)[4].op = "setOut" /\ OutItem(o)[4].x = o /\ OutItem(o)[4].st = "running"
         /\ OutItem(o)[5].op = "doneOut" /\ OutItem(o)[5].x = o
<1>1. /\ \A op, x : On(op, x).op = op /\ On(op, x).x = x
      /\ \A op, x, st : Set(op, x, st).op = op /\ Set(op, x, st).x = x /\ Set(op, x, st).st = st
  BY DEF On, Set
<1> QED
  BY <1>1, OutItemIs

LEMMA OutItemHead ==
  ASSUME NEW X \in SUBSET Outputs, NEW o \in Outputs, NEW k \in 1 .. 5, StartingOut(X, o, k)
  PROVE  /\ At(Boot, OutItem(o)[k].op) /\ Arg(Boot) = OutItem(o)[k].x /\ prog[Boot][1] = OutItem(o)[k]
         /\ OutItem(o) \in Seq(Instr) /\ k \in 1 .. Len(OutItem(o)) /\ Len(OutItem(o)) = 5
         /\ OutsLeft(X) \in Seq(Instr) /\ prog[Boot] = After(OutItem(o), OutsLeft(X), k)
<1>1. /\ OutItem(o) \in Seq(Instr) /\ k \in 1 .. Len(OutItem(o)) /\ Len(OutItem(o)) = 5
      /\ OutsLeft(X) \in Seq(Instr) /\ prog[Boot] = After(OutItem(o), OutsLeft(X), k)
  BY OutItemIs, LeftTyped DEF StartingOut, BootProg
<1>2. prog[Boot][1] = OutItem(o)[k] /\ Arg(Boot) = OutItem(o)[k].x /\ At(Boot, OutItem(o)[k].op)
  BY <1>1, BootHead
<1> QED
  BY <1>1, <1>2

LEMMA StartingOutGoesOn ==
  ASSUME Steady, NEW X \in SUBSET Outputs, NEW o \in Outputs, NEW k \in 1 .. 4, StartingOut(X, o, k), Continue(Boot),
         k = 3 => Sound({}, {}, {o})',
         k # 3 => Sound({}, {}, {})',
         ~OutInUse(o)', InsOn({})', OutsOn(X \cup {o})',
         k <= 3 => outRow'[o] # "none",
         k = 2 => sinks'[o] # 0 /\ held'[Boot] = <<"snk", sinks'[o]>>,
         k >= 3 => OutOn(o)'
  PROVE  OutsPhase'
<1>1. prog'[Boot] = After(OutItem(o), OutsLeft(X), k + 1)
  <2>1. k \in 1 .. 5
    OBVIOUS
  <2>2. /\ OutItem(o) \in Seq(Instr) /\ k \in 1 .. Len(OutItem(o))
        /\ OutsLeft(X) \in Seq(Instr) /\ prog[Boot] = After(OutItem(o), OutsLeft(X), k)
    BY <2>1, OutItemHead
  <2> QED
    BY <2>2, BootCalls, GoOn DEF Steady, PlaneInv
<1>2. CASE k = 3
  <2>1. StartingOut(X, o, 4)'
    <3>1. prog'[Boot] = After(OutItem(o), OutsLeft(X), 4)
      BY <1>1, <1>2
    <3> QED
      BY <1>2, <3>1 DEF StartingOut, BootProg
  <2>2. 4 \in 1 .. 5
    OBVIOUS
  <2> QED
    BY <2>1, <2>2 DEF OutsPhase
<1>3. CASE k # 3
  <2>1. StartingOut(X, o, k + 1)'
    BY <1>1, <1>3 DEF StartingOut, BootProg
  <2>2. k + 1 \in 1 .. 5
    OBVIOUS
  <2> QED
    BY <2>1, <2>2 DEF OutsPhase
<1> QED
  BY <1>2, <1>3

LEMMA StartingOutFails ==
  ASSUME Steady, NEW X \in SUBSET Outputs, NEW o \in Outputs, NEW k \in 1 .. 3, StartingOut(X, o, k), Fail(Boot),
         Sound({}, {}, {})', ~OutInUse(o)', InsOn({})', OutsOn(X \cup {o})', ~OutOn(o)'
  PROVE  OutsPhase'
<1> DEFINE w == OutItem(o)
<1>1. /\ w \in Seq(Instr) /\ k \in 1 .. Len(w) /\ Len(w) = 5 /\ OutsLeft(X) \in Seq(Instr)
      /\ prog[Boot] = After(w, OutsLeft(X), k)
  <2>1. k \in 1 .. 5
    OBVIOUS
  <2> QED
    BY <2>1, OutItemHead
<1>2. /\ w[1].op = "needOut" /\ w[2].op = "openOut" /\ w[3].op = "runOutOrFail" /\ w[4].op = "setOut"
      /\ w[5].op = "doneOut" /\ w[5].x = o
  BY OutItemOps
<1> HIDE DEF w
<1>3. w[Len(w)].op \in Catches /\ \A j \in k .. Len(w) - 1 : w[j].op \notin Catches
  <2>1. \A j \in k .. 4 : j = 1 \/ j = 2 \/ j = 3 \/ j = 4
    OBVIOUS
  <2>2. \A j \in k .. 4 : w[j].op \notin Catches
    BY <1>2, <2>1 DEF Catches
  <2> QED
    BY <1>1, <1>2, <2>2 DEF Catches
<1>4. prog'[Boot] = Rescue(w[Len(w)]) \o OutsLeft(X)
  BY <1>1, <1>3, BootCalls, GiveUp DEF Steady, PlaneInv
<1>5. Rescue(w[5]) = <<Set("setOut", o, "stopped")>>
  BY <1>2 DEF Rescue
<1>6. prog'[Boot] = After(<<Set("setOut", o, "stopped")>>, OutsLeft(X), 1)
  <2>1. Set("setOut", o, "stopped") \in Instr
    BY StampedInstr DEF Status
  <2>2. <<Set("setOut", o, "stopped")>> \in Seq(Instr) /\ <<Set("setOut", o, "stopped")>> # <<>>
    BY <2>1
  <2>3. prog'[Boot] = <<Set("setOut", o, "stopped")>> \o OutsLeft(X)
    BY <1>1, <1>4, <1>5
  <2>4. After(<<Set("setOut", o, "stopped")>>, OutsLeft(X), 1) = <<Set("setOut", o, "stopped")>> \o OutsLeft(X)
    BY <1>1, <2>2, AfterEnds
  <2> QED
    BY <2>3, <2>4
<1>7. FailingOut(X, o)'
  BY <1>6 DEF FailingOut, BootProg
<1> QED
  BY <1>7 DEF OutsPhase

LEMMA StartingOutNeeds ==
  ASSUME Steady, Exec(Boot), NEW X \in SUBSET Outputs, NEW o \in Outputs, StartingOut(X, o, 1)
  PROVE  OutsPhase'
<1>1. At(Boot, "needOut") /\ Arg(Boot) = o /\ 1 \in 1 .. 4 /\ 1 \in 1 .. 2
  <2>1. 1 \in 1 .. 5
    OBVIOUS
  <2>2. At(Boot, OutItem(o)[1].op) /\ Arg(Boot) = OutItem(o)[1].x /\ prog[Boot][1] = OutItem(o)[1]
    BY <2>1, OutItemHead
  <2> QED
    BY <2>2, OutItemOps
<1>2. Still /\ ((outRow[o] # "none" /\ Continue(Boot)) \/ (outRow[o] = "none" /\ Fail(Boot)))
  BY <1>1, BootCalls, ReadsDo
<1>3. Sound({}, {}, {}) /\ ~OutInUse(o) /\ InsOn({}) /\ OutsOn(X \cup {o})
  BY DEF StartingOut
<1>4. Sound({}, {}, {})' /\ ~OutInUse(o)' /\ SameOuts /\ UNCHANGED outRow /\ InsOn({})'
  <2>1. Sound({}, {}, {})' /\ ~OutInUse(o)' /\ SameOuts /\ SameIns /\ UNCHANGED <<inRow, outRow>>
    BY <1>2, <1>3, SoundStill
  <2> QED
    BY <1>3, <2>1, InsStay
<1>5. OutsOn(X \cup {o})'
  BY <1>3, <1>4 DEF OutsOn, SameOuts, OutTold
<1>6. CASE outRow[o] # "none" /\ Continue(Boot)
  <2>1. /\ 1 = 3 => Sound({}, {}, {o})'
        /\ 1 # 3 => Sound({}, {}, {})'
        /\ 1 = 2 => sinks'[o] # 0 /\ held'[Boot] = <<"snk", sinks'[o]>>
        /\ 1 >= 3 => OutOn(o)'
    BY <1>4
  <2>2. 1 <= 3 => outRow'[o] # "none"
    BY <1>4, <1>6
  <2> QED
    BY <1>1, <1>4, <1>5, <1>6, <2>1, <2>2, StartingOutGoesOn
<1>7. CASE outRow[o] = "none" /\ Fail(Boot)
  <2>1. ~OutOn(o)
    BY <1>3, <1>7 DEF Sound, Accounted
  <2>2. ~OutOn(o)'
    BY <1>4, <2>1 DEF SameOuts
  <2> QED
    BY <1>1, <1>4, <1>5, <1>7, <2>2, StartingOutFails
<1> QED
  BY <1>2, <1>6, <1>7

LEMMA StartingOutOpens ==
  ASSUME Steady, Exec(Boot), NEW X \in SUBSET Outputs, NEW o \in Outputs, StartingOut(X, o, 2)
  PROVE  OutsPhase'
<1>1. At(Boot, "openOut") /\ Arg(Boot) = o /\ 2 \in 1 .. 4 /\ 2 \in 1 .. 2
  <2>1. 2 \in 1 .. 5
    OBVIOUS
  <2>2. At(Boot, OutItem(o)[2].op) /\ Arg(Boot) = OutItem(o)[2].x /\ prog[Boot][1] = OutItem(o)[2]
    BY <2>1, OutItemHead
  <2> QED
    BY <2>2, OutItemOps
<1>2. /\ \/ OpenOutput(Boot, o) /\ Continue(Boot)
         \/ sinks[o] = 0 /\ UNCHANGED hubVars /\ Fail(Boot)
      /\ SameRows
  <2>1. /\ \/ OpenOutput(Boot, Arg(Boot)) /\ Continue(Boot)
           \/ sinks[Arg(Boot)] = 0 /\ UNCHANGED hubVars /\ Fail(Boot)
        /\ SameRows
    BY <1>1, BootCalls, FindsDo
  <2> QED
    BY <1>1, <2>1
<1>3. Sound({}, {}, {}) /\ ~OutInUse(o) /\ InsOn({}) /\ OutsOn(X \cup {o}) /\ outRow[o] # "none"
  BY DEF StartingOut
<1>4. UNCHANGED <<rowVars, inRow, outRow, pipeRow>> /\ ~OutInUse(o)'
  BY <1>2, <1>3, UseStays DEF SameRows, rowVars
<1>5. CASE OpenOutput(Boot, o) /\ Continue(Boot)
  <2>1. SameOuts /\ SameIns /\ SamePipes /\ NothingLoose' /\ sinks'[o] # 0
    <3>1. CASE CreateOutput(o)
      BY <1>3, <1>4, <3>1, OnAfterCreateOutput DEF Sound
    <3>2. CASE OutputFound(o)
      <4>1. UNCHANGED <<regVars, snkOn, srcOn, pstate, pipeRow>> /\ sinks[o] # 0 /\ sinks' = sinks
        BY <1>4, <3>2 DEF OutputFound, objVars, regVars
      <4> QED
        BY <1>3, <4>1, OnAfterNothing DEF Sound
    <3> QED
      BY <1>5, <3>1, <3>2 DEF OpenOutput
  <2>2. Sound({}, {}, {})'
    BY <1>3, <1>4, <2>1, SoundGrows DEF SameOuts, SameIns, SamePipes
  <2>3. OutsOn(X \cup {o})' /\ InsOn({})'
    BY <1>3, <1>4, <2>1, InsStay DEF OutsOn, SameOuts, OutTold
  <2>4. held'[Boot] = <<"snk", sinks'[o]>>
    BY <1>5, BootCalls DEF OpenOutput, Hold, Steady, PlaneInv, HubInv, HubTypeOK
  <2>5. /\ 2 = 3 => Sound({}, {}, {o})'
        /\ 2 # 3 => Sound({}, {}, {})'
        /\ 2 >= 3 => OutOn(o)'
    BY <2>2
  <2>6. 2 <= 3 => outRow'[o] # "none"
    BY <1>3, <1>4
  <2>7. 2 = 2 => sinks'[o] # 0 /\ held'[Boot] = <<"snk", sinks'[o]>>
    BY <2>1, <2>4
  <2> QED
    BY <1>1, <1>4, <1>5, <2>3, <2>5, <2>6, <2>7, StartingOutGoesOn
<1>6. CASE sinks[o] = 0 /\ UNCHANGED hubVars /\ Fail(Boot)
  <2>1. Still
    BY <1>2, <1>6 DEF Still, SameHub
  <2>2. Sound({}, {}, {})' /\ SameOuts /\ SameIns
    BY <1>3, <2>1, SoundStill
  <2>3. OutsOn(X \cup {o})' /\ InsOn({})'
    BY <1>3, <1>4, <2>2, InsStay DEF OutsOn, SameOuts, OutTold
  <2>4. ~OutOn(o)'
    BY <1>6, <2>2, OnTyped DEF SameOuts
  <2> QED
    BY <1>1, <1>4, <1>6, <2>2, <2>3, <2>4, StartingOutFails
<1> QED
  BY <1>2, <1>5, <1>6

LEMMA StartingOutRuns ==
  ASSUME Steady, Exec(Boot), NEW X \in SUBSET Outputs, NEW o \in Outputs, StartingOut(X, o, 3)
  PROVE  OutsPhase'
<1>1. At(Boot, "runOutOrFail") /\ 3 \in 1 .. 4 /\ 3 \in 1 .. 3
  <2>1. 3 \in 1 .. 5
    OBVIOUS
  <2>2. At(Boot, OutItem(o)[3].op) /\ Arg(Boot) = OutItem(o)[3].x /\ prog[Boot][1] = OutItem(o)[3]
    BY <2>1, OutItemHead
  <2> QED
    BY <2>2, OutItemOps
<1>2. ((RunSink(Boot) /\ Continue(Boot)) \/ (RunSinkFails(Boot) /\ Fail(Boot))) /\ SameRows
  BY <1>1, BootCalls, RunsDo
<1>3. /\ Sound({}, {}, {}) /\ ~OutInUse(o) /\ InsOn({}) /\ OutsOn(X \cup {o}) /\ outRow[o] # "none"
      /\ sinks[o] # 0 /\ held[Boot] = <<"snk", sinks[o]>>
  BY DEF StartingOut
<1>4. UNCHANGED <<rowVars, inRow, outRow, pipeRow>> /\ ~OutInUse(o)'
  BY <1>2, <1>3, UseStays DEF SameRows, rowVars
<1>5. CASE RunSinkFails(Boot) /\ Fail(Boot)
  <2>1. UNCHANGED <<regVars, objVars>> /\ ~OutOn(o)
    BY <1>3, <1>5 DEF RunSinkFails, OutOn
  <2>2. SameIns /\ SameOuts /\ SamePipes /\ NothingLoose'
    BY <1>3, <1>4, <2>1, OnAfterNothing DEF objVars, Sound
  <2>3. Sound({}, {}, {})'
    BY <1>3, <1>4, <2>2, SoundGrows DEF SameIns, SameOuts, SamePipes
  <2>4. OutsOn(X \cup {o})' /\ ~OutOn(o)'
    BY <1>3, <1>4, <2>1, <2>2 DEF OutsOn, SameOuts, OutTold
  <2>5. InsOn({})'
    BY <1>3, <1>4, <2>2, InsStay
  <2> QED
    BY <1>1, <1>4, <1>5, <2>3, <2>4, <2>5, StartingOutFails
<1>6. CASE RunSink(Boot) /\ Continue(Boot)
  <2>1. /\ \A j \in Outputs : OutOn(j)' <=> OutOn(j) \/ j = o
        /\ SameIns /\ SamePipes /\ NothingLoose'
    <3>1. NothingLoose /\ UNCHANGED pipeRow /\ Boot \in Callers
      BY <1>2, <1>6, <1>3, <1>4, BootCalls DEF Sound, rowVars, SameRows
    <3> QED
      BY <1>2, <1>6, <1>3, <3>1, OnAfterRunSink
  <2>2. Sound({}, {}, {o})
    BY <1>3 DEF Sound, Accounted
  <2>3. Sound({}, {}, {o})'
    BY <1>4, <2>1, <2>2, SoundGrows DEF SameIns, SamePipes
  <2>4. OutsOn(X \cup {o})' /\ OutOn(o)' /\ outRow'[o] # "none"
    BY <1>3, <1>4, <2>1 DEF OutsOn, OutTold
  <2>5. InsOn({})'
    BY <1>3, <1>4, <2>1, InsStay
  <2> QED
    BY <1>1, <1>2, <1>6, <1>4, <2>3, <2>4, <2>5, StartingOutGoesOn
<1> QED
  BY <1>2, <1>5, <1>6

LEMMA StartingOutSets ==
  ASSUME Steady, Exec(Boot), NEW X \in SUBSET Outputs, NEW o \in Outputs, StartingOut(X, o, 4)
  PROVE  OutsPhase'
<1>1. At(Boot, "setOut") /\ Arg(Boot) = o /\ prog[Boot][1].st = "running" /\ 4 \in 1 .. 4
  <2>1. 4 \in 1 .. 5
    OBVIOUS
  <2>2. At(Boot, OutItem(o)[4].op) /\ Arg(Boot) = OutItem(o)[4].x /\ prog[Boot][1] = OutItem(o)[4]
    BY <2>1, OutItemHead
  <2> QED
    BY <2>2, OutItemOps
<1>2. /\ SameHub /\ UNCHANGED <<inRow, pipeRow>> /\ Continue(Boot)
      /\ outRow' = IF outRow[o] = "none" THEN outRow ELSE [outRow EXCEPT ![o] = "running"]
  BY <1>1, BootCalls, WritesDo
<1>3. Sound({}, {}, {o}) /\ ~OutInUse(o) /\ InsOn({}) /\ OutsOn(X \cup {o}) /\ outRow[o] # "none" /\ OutOn(o)
  BY DEF StartingOut
<1>4. Sound({}, {}, {})'
  <2>1. "running" \in Status /\ {o} \ {o} = {}
    BY DEF Status
  <2>2. Sound({}, {}, {o} \ {o})'
    BY <1>2, <1>3, <2>1, SoundSetOut
  <2> QED
    BY <2>1, <2>2
<1>5. SameOuts /\ ~OutInUse(o)' /\ InsOn({})'
  BY <1>2, <1>3, HubStays, UseStays, InsStay
<1>6. OutsOn(X \cup {o})' /\ OutOn(o)'
  BY <1>2, <1>3, <1>5 DEF OutsOn, SameOuts, Steady, PlaneInv, RowsTyped, OutTold
<1>7. /\ 4 = 3 => Sound({}, {}, {o})'
      /\ 4 # 3 => Sound({}, {}, {})'
      /\ 4 <= 3 => outRow'[o] # "none"
      /\ 4 = 2 => sinks'[o] # 0 /\ held'[Boot] = <<"snk", sinks'[o]>>
  BY <1>4
<1>8. 4 >= 3 => OutOn(o)'
  BY <1>6
<1> QED
  BY <1>1, <1>2, <1>5, <1>6, <1>7, <1>8, StartingOutGoesOn

LEMMA StartingOutIsDone ==
  ASSUME Steady, Exec(Boot), NEW X \in SUBSET Outputs, NEW o \in Outputs, StartingOut(X, o, 5)
  PROVE  OutsPhase'
<1>1. /\ At(Boot, "doneOut") /\ OutItem(o) \in Seq(Instr) /\ 5 \in 1 .. Len(OutItem(o)) /\ Len(OutItem(o)) = 5
      /\ OutsLeft(X) \in Seq(Instr) /\ prog[Boot] = After(OutItem(o), OutsLeft(X), 5)
  <2>1. 5 \in 1 .. 5
    OBVIOUS
  <2>2. /\ At(Boot, OutItem(o)[5].op) /\ OutItem(o) \in Seq(Instr) /\ 5 \in 1 .. Len(OutItem(o)) /\ Len(OutItem(o)) = 5
        /\ OutsLeft(X) \in Seq(Instr) /\ prog[Boot] = After(OutItem(o), OutsLeft(X), 5)
    BY <2>1, OutItemHead
  <2> QED
    BY <2>2, OutItemOps
<1>2. Still /\ Continue(Boot)
  BY <1>1, BootCalls, LoopsDo
<1>3. Sound({}, {}, {}) /\ InsOn({}) /\ OutsOn(X \cup {o}) /\ OutOn(o)
  BY DEF StartingOut
<1>4. Sound({}, {}, {})' /\ SameOuts /\ SameIns /\ UNCHANGED <<inRow, outRow>>
  BY <1>2, <1>3, SoundStill
<1>5. OutsOn(X)' /\ InsOn({})'
  BY <1>3, <1>4, InsStay DEF OutsOn, SameOuts, OutTold
<1>6. prog'[Boot] = OutsLeft(X)
  <2>1. prog'[Boot] = After(OutItem(o), OutsLeft(X), 5 + 1)
    BY <1>1, <1>2, BootCalls, GoOn DEF Steady, PlaneInv
  <2>2. After(OutItem(o), OutsLeft(X), Len(OutItem(o)) + 1) = OutsLeft(X)
    BY <1>1, AfterEnds
  <2> QED
    BY <1>1, <2>1, <2>2
<1>7. BetweenOuts(X)'
  BY <1>4, <1>5, <1>6 DEF BetweenOuts, BootProg
<1> QED
  BY <1>7 DEF OutsPhase

LEMMA FailingOutStep ==
  ASSUME Steady, Exec(Boot), NEW X \in SUBSET Outputs, NEW o \in Outputs, FailingOut(X, o)
  PROVE  OutsPhase'
<1> DEFINE a == Set("setOut", o, "stopped")
<1>1. prog[Boot] = <<a>> \o OutsLeft(X) /\ a \in Instr /\ OutsLeft(X) \in Seq(Instr)
  <2>1. a \in Instr
    BY StampedInstr DEF Status
  <2>2. <<a>> \in Seq(Instr) /\ <<a>> # <<>> /\ OutsLeft(X) \in Seq(Instr)
    BY <2>1, LeftTyped
  <2>3. After(<<a>>, OutsLeft(X), 1) = <<a>> \o OutsLeft(X)
    BY <2>2, AfterEnds
  <2> QED
    BY <2>1, <2>2, <2>3 DEF FailingOut, BootProg
<1>2. a.op = "setOut" /\ a.x = o /\ a.st = "stopped"
  BY DEF Set
<1> HIDE DEF a
<1>3. At(Boot, a.op) /\ Arg(Boot) = a.x /\ (Continue(Boot) => prog'[Boot] = OutsLeft(X))
  BY <1>1, BootCalls, FrontIs DEF Steady, PlaneInv
<1>4. prog[Boot][1] = a
  <2>1. <<a>> \in Seq(Instr) /\ 1 \in 1 .. Len(<<a>>) /\ <<a>>[1] = a /\ <<a>> # <<>>
    BY <1>1
  <2>2. prog[Boot] = After(<<a>>, OutsLeft(X), 1)
    BY <1>1, <2>1, AfterEnds
  <2>3. After(<<a>>, OutsLeft(X), 1)[1] = <<a>>[1]
    BY <1>1, <2>1, AfterParts
  <2> QED
    BY <2>1, <2>2, <2>3
<1>5. At(Boot, "setOut") /\ Arg(Boot) = o /\ prog[Boot][1].st = "stopped"
  BY <1>2, <1>3, <1>4
<1>6. /\ SameHub /\ UNCHANGED <<inRow, pipeRow>> /\ Continue(Boot)
      /\ outRow' = IF outRow[o] = "none" THEN outRow ELSE [outRow EXCEPT ![o] = "stopped"]
  BY <1>5, BootCalls, WritesDo
<1>7. Sound({}, {}, {}) /\ ~OutInUse(o) /\ InsOn({}) /\ OutsOn(X \cup {o}) /\ ~OutOn(o)
  BY DEF FailingOut
<1>8. Sound({}, {}, {})'
  <2>1. "stopped" \in Status
    BY DEF Status
  <2> QED
    BY <1>6, <1>7, <2>1, SoundSetOut
<1>9. InsOn({})'
  BY <1>6, <1>7, HubStays, InsStay
<1>10. OutsOn(X)'
  BY <1>6, <1>7, HubStays DEF OutsOn, SameOuts, Steady, PlaneInv, RowsTyped, OutTold
<1>11. BetweenOuts(X)'
  BY <1>3, <1>6, <1>8, <1>9, <1>10 DEF BetweenOuts, BootProg
<1> QED
  BY <1>11 DEF OutsPhase

-----------------------------------------------------------------------------
(* Every step of Restore keeps the invariant.                                 *)
LEMMA NothingToDo ==
  ASSUME NEW c \in Callers, Exec(c)
  PROVE  ~Idle(c)
  BY DEF Idle, At, Exec, Need, Orphan, Query, Loop, Loops, Done, UpdateStatus, InsertOrSave, WritePipe, Drop,
         Create, ConnectPipe, Remove, Find, Open, Run, StartPipe, RequestPanics

LEMMA PipesPhaseStep ==
  ASSUME Steady, Exec(Boot), PipesPhase
  PROVE  PipesPhase' \/ PipesDone'
<1>1. PICK X \in SUBSET Triples :
        \/ BetweenPipes(X)
        \/ \E e \in Triples :
             \/ \E k \in 1 .. 12 : Starting(X, e, k)
             \/ \E k \in 1 .. 2 : Recording(X, e, k)
             \/ \E k \in 1 .. 3 : Rescuing(X, e, k)
             \/ \E k \in 1 .. 2 : DroppingIn(X, e, k) \/ DroppingOut(X, e, k)
  BY DEF PipesPhase
<1>2. CASE BetweenPipes(X)
  BY <1>2, BetweenPipesStep
<1>3. ASSUME NEW e \in Triples, NEW k \in 1 .. 12, Starting(X, e, k) PROVE PipesPhase'
  <2>1. CASE k \in 1 .. 2
    BY <1>3, <2>1, StartingReads
  <2>2. CASE k \in 3 .. 4
    BY <1>3, <2>2, StartingCreates
  <2>3. CASE k = 5
    BY <1>3, <2>3, StartingConnects
  <2>4. CASE k = 6
    BY <1>3, <2>4, StartingFindsOut
  <2>5. CASE k = 7
    BY <1>3, <2>5, StartingRunsOut
  <2>6. CASE k = 8
    BY <1>3, <2>6, StartingFindsIn
  <2>7. CASE k = 9
    BY <1>3, <2>7, StartingRunsIn
  <2>8. CASE k = 10
    BY <1>3, <2>8, StartingFindsPipe
  <2>9. CASE k = 11
    BY <1>3, <2>9, StartingRunsPipe
  <2>10. CASE k = 12
    BY <1>3, <2>10, StartingIsDone
  <2> QED
    BY <2>1, <2>2, <2>3, <2>4, <2>5, <2>6, <2>7, <2>8, <2>9, <2>10
<1>4. ASSUME NEW e \in Triples, NEW k \in 1 .. 2, Recording(X, e, k) PROVE PipesPhase'
  <2>1. CASE k = 1
    BY <1>4, <2>1, RecordingIn
  <2>2. CASE k = 2
    BY <1>4, <2>2, RecordingOut
  <2> QED
    BY <2>1, <2>2
<1>5. ASSUME NEW e \in Triples, NEW k \in 1 .. 3, Rescuing(X, e, k) PROVE PipesPhase'
  <2>1. CASE k = 1
    BY <1>5, <2>1, RescuingRow
  <2>2. CASE k = 2
    BY <1>5, <2>2, RescuingIn
  <2>3. CASE k = 3
    BY <1>5, <2>3, RescuingOut
  <2> QED
    BY <2>1, <2>2, <2>3
<1>6. ASSUME NEW e \in Triples, NEW k \in 1 .. 2, DroppingIn(X, e, k) \/ DroppingOut(X, e, k) PROVE PipesPhase'
  BY <1>6, DroppingInStep, DroppingOutStep
<1> QED
  BY <1>1, <1>2, <1>3, <1>4, <1>5, <1>6

LEMMA InsPhaseStep ==
  ASSUME Steady, Exec(Boot), InsPhase
  PROVE  InsPhase' \/ InsDone'
<1>1. PICK X \in SUBSET Inputs :
        \/ BetweenIns(X)
        \/ \E i \in Inputs : FailingIn(X, i) \/ \E k \in 1 .. 5 : StartingIn(X, i, k)
  BY DEF InsPhase
<1>2. CASE BetweenIns(X)
  BY <1>2, BetweenInsStep
<1>3. ASSUME NEW i \in Inputs, FailingIn(X, i) PROVE InsPhase'
  BY <1>3, FailingInStep
<1>4. ASSUME NEW i \in Inputs, NEW k \in 1 .. 5, StartingIn(X, i, k) PROVE InsPhase'
  <2>1. CASE k = 1
    BY <1>4, <2>1, StartingInNeeds
  <2>2. CASE k = 2
    BY <1>4, <2>2, StartingInOpens
  <2>3. CASE k = 3
    BY <1>4, <2>3, StartingInRuns
  <2>4. CASE k = 4
    BY <1>4, <2>4, StartingInSets
  <2>5. CASE k = 5
    BY <1>4, <2>5, StartingInIsDone
  <2> QED
    BY <2>1, <2>2, <2>3, <2>4, <2>5
<1> QED
  BY <1>1, <1>2, <1>3, <1>4

LEMMA OutsPhaseStep ==
  ASSUME Steady, Exec(Boot), OutsPhase
  PROVE  OutsPhase' \/ Agreed'
<1>1. PICK X \in SUBSET Outputs :
        \/ BetweenOuts(X)
        \/ \E o \in Outputs : FailingOut(X, o) \/ \E k \in 1 .. 5 : StartingOut(X, o, k)
  BY DEF OutsPhase
<1>2. CASE BetweenOuts(X)
  BY <1>2, BetweenOutsStep
<1>3. ASSUME NEW o \in Outputs, FailingOut(X, o) PROVE OutsPhase'
  BY <1>3, FailingOutStep
<1>4. ASSUME NEW o \in Outputs, NEW k \in 1 .. 5, StartingOut(X, o, k) PROVE OutsPhase'
  <2>1. CASE k = 1
    BY <1>4, <2>1, StartingOutNeeds
  <2>2. CASE k = 2
    BY <1>4, <2>2, StartingOutOpens
  <2>3. CASE k = 3
    BY <1>4, <2>3, StartingOutRuns
  <2>4. CASE k = 4
    BY <1>4, <2>4, StartingOutSets
  <2>5. CASE k = 5
    BY <1>4, <2>5, StartingOutIsDone
  <2> QED
    BY <2>1, <2>2, <2>3, <2>4, <2>5
<1> QED
  BY <1>1, <1>2, <1>3, <1>4

LEMMA BootStep ==
  ASSUME Steady, Exec(Boot), BootInv
  PROVE  BootInv'
<1>1. CASE AtStart
  BY <1>1, AtStartStep DEF BootInv
<1>2. CASE PipesPhase
  BY <1>2, PipesPhaseStep DEF BootInv
<1>3. CASE PipesDone
  BY <1>3, PipesDoneStep DEF BootInv
<1>4. CASE InsPhase
  BY <1>4, InsPhaseStep DEF BootInv
<1>5. CASE InsDone
  BY <1>5, InsDoneStep DEF BootInv
<1>6. CASE OutsPhase
  BY <1>6, OutsPhaseStep DEF BootInv
<1>7. CASE Agreed
  BY <1>7, BootCalls, NothingToDo DEF Agreed, BootProg, Idle
<1> QED
  BY <1>1, <1>2, <1>3, <1>4, <1>5, <1>6, <1>7 DEF BootInv

-----------------------------------------------------------------------------
(* The rows of two pipes never join the same input to the same output: what   *)
(* the unique index sees to.                                                  *)
LEMMA PairsStay ==
  ASSUME PairUnique, UNCHANGED pipeRow
  PROVE  PairUnique'
  BY DEF PairUnique, Exists

LEMMA UniqueStep ==
  ASSUME PlaneInv, PairUnique, [Next]_vars
  PROVE  PairUnique'
<1>1. pipeRow \in [PipeIds -> Rows \cup {NoRow}] /\ NoRow \notin Rows
  BY PlaneAssumption DEF PlaneInv, RowsTyped, Rows, Status
<1>2. CASE UNCHANGED pipeRow
  BY <1>2, PairsStay
<1>3. ASSUME NEW c \in Callers, WritePipe(c) PROVE PairUnique'
  <2> DEFINE r == [in |-> Arg(c)[2], out |-> Arg(c)[3], st |-> "stopped"]
  <2>1. PICK op \in {"insertPipe", "savePipe"} : At(c, op)
    BY <1>3 DEF WritePipe
  <2>2. Arg(c)[1] \in PipeIds /\ Arg(c)[2] \in Inputs /\ Arg(c)[3] \in Outputs
    BY <2>1, ArgTyped DEF PlaneInv, PipeOps
  <2>3. CASE UNCHANGED pipeRow
    BY <2>3, PairsStay
  <2>4. CASE PairFree(Arg(c)[1], Arg(c)[2], Arg(c)[3]) /\ pipeRow' = [pipeRow EXCEPT ![Arg(c)[1]] = r]
    <3>1. PICK t : t = Arg(c)[1]
      OBVIOUS
    <3>2. r.in = Arg(c)[2] /\ r.out = Arg(c)[3]
      OBVIOUS
    <3>3. \A q \in PipeIds : Exists(q) /\ pipeRow[q].in = r.in /\ pipeRow[q].out = r.out => q = t
      BY <2>4, <3>1, <3>2 DEF PairFree, PipesOf, PipesTo
    <3> HIDE DEF r
    <3>4. t \in PipeIds /\ pipeRow' = [pipeRow EXCEPT ![t] = r]
      BY <2>2, <2>4, <3>1
    <3>5. pipeRow'[t] = r /\ \A q \in PipeIds : q # t => pipeRow'[q] = pipeRow[q]
      BY <1>1, <3>4
    <3>6. SUFFICES ASSUME NEW p \in PipeIds, NEW q \in PipeIds, Exists(p)', Exists(q)',
                          pipeRow'[p].in = pipeRow'[q].in, pipeRow'[p].out = pipeRow'[q].out
                   PROVE  p = q
      BY DEF PairUnique
    <3>7. CASE p # t /\ q # t
      BY <3>5, <3>6, <3>7 DEF PairUnique, Exists
    <3>8. CASE p = t /\ q # t
      BY <3>3, <3>5, <3>6, <3>8 DEF Exists
    <3>9. CASE q = t /\ p # t
      BY <3>3, <3>5, <3>6, <3>9 DEF Exists
    <3> QED
      BY <3>7, <3>8, <3>9
  <2> QED
    BY <1>3, <2>3, <2>4 DEF WritePipe
<1>4. ASSUME NEW c \in Callers, At(c, "setPipe"), UpdateStatus(c) PROVE PairUnique'
  <2>1. PICK x, st : x = Arg(c) /\ st = prog[c][1].st
    OBVIOUS
  <2>2. x \in PipeIds /\ pipeRow' = IF Exists(x) THEN [pipeRow EXCEPT ![x].st = st] ELSE pipeRow
    BY <1>4, <2>1, ArgTyped DEF PlaneInv, UpdateStatus, At
  <2>3. CASE ~Exists(x)
    BY <2>2, <2>3, PairsStay
  <2>4. CASE Exists(x)
    <3>1. pipeRow[x] \in Rows
      BY <1>1, <2>2, <2>4 DEF Exists
    <3>2. pipeRow'[x].in = pipeRow[x].in /\ pipeRow'[x].out = pipeRow[x].out
      BY <1>1, <2>2, <2>4, <3>1 DEF Rows
    <3>3. \A q \in PipeIds : q # x => pipeRow'[q] = pipeRow[q]
      BY <1>1, <2>2, <2>4
    <3>4. \A q \in PipeIds : /\ Exists(q)' => Exists(q)
                             /\ pipeRow'[q].in = pipeRow[q].in /\ pipeRow'[q].out = pipeRow[q].out
      BY <2>4, <3>2, <3>3 DEF Exists
    <3> QED
      BY <3>4 DEF PairUnique
  <2> QED
    BY <2>3, <2>4
<1>5. ASSUME NEW c \in Callers, At(c, "dropPipe"), Drop(c) PROVE PairUnique'
  <2>1. PICK x : x = Arg(c)
    OBVIOUS
  <2>2. x \in PipeIds /\ pipeRow' = [pipeRow EXCEPT ![x] = NoRow]
    BY <1>5, <2>1, ArgTyped DEF PlaneInv, Drop, At
  <2>3. \A q \in PipeIds : Exists(q)' => q # x /\ pipeRow'[q] = pipeRow[q] /\ Exists(q)
    BY <1>1, <2>2 DEF Exists
  <2> QED
    BY <2>3 DEF PairUnique
<1>6. ASSUME NEW c \in Callers, Exec(c), ~WritePipe(c), ~At(c, "setPipe"), ~At(c, "dropPipe")
      PROVE  UNCHANGED pipeRow
  <2>1. \/ SameRows
        \/ UpdateStatus(c) \/ InsertOrSave(c) \/ Drop(c)
    BY <1>6 DEF Exec, Need, Orphan, Query, Loop, Done, Create, ConnectPipe, Remove, Find, Open, Run, RequestPanics
  <2>2. ASSUME UpdateStatus(c) PROVE UNCHANGED pipeRow
    BY <1>6, <2>2 DEF UpdateStatus
  <2>3. ASSUME Drop(c) PROVE UNCHANGED pipeRow
    BY <1>6, <2>3 DEF Drop
  <2> QED
    BY <2>1, <2>2, <2>3 DEF SameRows, rowVars, InsertOrSave
<1>7. ASSUME NEW c \in Callers, Exec(c) PROVE PairUnique'
  <2>1. CASE At(c, "setPipe")
    <3>1. UpdateStatus(c)
      BY <1>7, <2>1 DEF At, Exec, Need, Orphan, Query, Loop, Loops, Done, UpdateStatus, InsertOrSave, WritePipe, Drop,
         Create, ConnectPipe, Remove, Find, Open, Run, StartPipe, RequestPanics
    <3> QED
      BY <1>4, <2>1, <3>1
  <2>2. CASE At(c, "dropPipe")
    <3>1. Drop(c)
      BY <1>7, <2>2 DEF At, Exec, Need, Orphan, Query, Loop, Loops, Done, UpdateStatus, InsertOrSave, WritePipe, Drop,
         Create, ConnectPipe, Remove, Find, Open, Run, StartPipe, RequestPanics
    <3> QED
      BY <1>5, <2>2, <3>1
  <2>3. CASE ~At(c, "setPipe") /\ ~At(c, "dropPipe")
    BY <1>2, <1>3, <1>6, <1>7, <2>3
  <2> QED
    BY <2>1, <2>2, <2>3
<1>8. ASSUME NEW c \in Clients, Ask(c) PROVE UNCHANGED pipeRow
  BY <1>8 DEF Ask, AskCreatePipe, AskUpdatePipe, AskDeletePipe, AskStartPipe, AskStopPipe, AskCreateInput,
     AskUpdateInput, AskDeleteInput, AskStartInput, AskStopInput, AskCreateOutput, AskUpdateOutput,
     AskDeleteOutput, AskStartOutput, AskStopOutput, Issue, rowVars
<1>9. Crash \/ RestorePanics \/ UNCHANGED vars => UNCHANGED pipeRow
  BY DEF Crash, RestorePanics, Reboot, vars, rowVars
<1> QED
  BY <1>2, <1>7, <1>8, <1>9 DEF Next

LEMMA InitUnique == Init => PairUnique
<1> SUFFICES ASSUME Init PROVE PairUnique
  OBVIOUS
<1>1. /\ \A p \in PipeIds : Born(p) <=> pipeRow[p] # NoRow
      /\ \A p, q \in PipeIds : Born(p) /\ Born(q) /\ pipeRow[p].out = pipeRow[q].out => p = q
  BY DEF Init
<1> QED
  BY <1>1 DEF PairUnique, Exists

-----------------------------------------------------------------------------
(* The invariant is kept.                                                     *)
LEMMA OnlyItsOwn ==
  ASSUME ProgTyped, NEW c \in Callers, Exec(c), NEW d \in Callers \ {c}
  PROVE  prog'[d] = prog[d]
<1>1. \E q : prog' = [prog EXCEPT ![c] = q]
  BY DEF Exec, Need, Orphan, Query, Loop, Done, UpdateStatus, InsertOrSave, WritePipe, Drop, Create, ConnectPipe,
         Remove, Find, Open, Run, StartPipe, RequestPanics, Become, Continue, SkipNext, Fail
<1> QED
  BY <1>1 DEF ProgTyped

LEMMA SameLate ==
  ASSUME NEW c \in Callers, Exec(c)
  PROVE  late' = late
  BY DEF Exec, Need, Orphan, Query, Loop, Done, UpdateStatus, InsertOrSave, WritePipe, Drop, Create, ConnectPipe,
         Remove, Find, Open, Run, RequestPanics, SameRows, countVars

LEMMA RebootHeals ==
  ASSUME Reboot
  PROVE  (\A c \in Callers \ {Boot} : Idle(c))' /\ BootInv'
<1>1. (\A c \in Callers \ {Boot} : Idle(c))' /\ prog'[Boot] = RestoreProg
  BY BootCalls DEF Reboot, Idle
<1>2. AtStart'
  BY <1>1 DEF Reboot, Restart, AtStart, BootProg, AllNew, NoPipe
<1> QED
  BY <1>1, <1>2 DEF BootInv

LEMMA NothingOnAgrees ==
  ASSUME PlaneInv, prog[Boot] = <<>>, srcOn = {}, snkOn = {}, \A x \in Objs : pstate[x] = "new",
         \A i \in Inputs : inRow[i] # "running", \A o \in Outputs : outRow[o] # "running",
         \A p \in PipeIds : Exists(p) => ~IsRunning(p)
  PROVE  Agreed
  BY DEF Agreed, BootProg, Sound, NothingLoose, Pending, Settled, Accounted, InsOn, OutsOn, InOn, OutOn

LEMMA InitHeals == Init => HealInv
<1> SUFFICES ASSUME Init PROVE HealInv
  OBVIOUS
<1>1. PlaneInv /\ PairUnique
  BY InitPlane, InitUnique
<1>2. \A c \in Callers : Idle(c)
  BY DEF Init, Idle
<1>3. srcOn = {} /\ snkOn = {} /\ \A x \in Objs : pstate[x] = "new"
  BY DEF Init, HubInit, AllNew
<1>4. (\A i \in Inputs : inRow[i] # "running") /\ (\A o \in Outputs : outRow[o] # "running")
  BY DEF Init
<1>5. \A p \in PipeIds : Exists(p) => ~IsRunning(p)
  <2>1. pipeRow \in [PipeIds -> [in : Inputs, out : Outputs, st : {"stopped"}] \cup {NoRow}]
    BY DEF Init
  <2> QED
    BY <2>1 DEF Exists, IsRunning
<1>6. Agreed
  BY <1>1, <1>2, <1>3, <1>4, <1>5, BootCalls, NothingOnAgrees DEF Idle
<1> QED
  BY <1>1, <1>2, <1>6 DEF HealInv, BootInv

LEMMA StutterHeals ==
  ASSUME BootInv, UNCHANGED vars
  PROVE  BootInv'
<1>1. UNCHANGED <<sources, sinks, pipes, srcOn, snkOn, pstate, held, inRow, outRow, pipeRow, prog>>
  BY DEF vars, hubVars, regVars, objVars, rowVars
<1>2. \A Y, I, O : Sound(Y, I, O)' <=> Sound(Y, I, O)
  BY <1>1 DEF Sound, NothingLoose, Pending, Settled, Accounted, InOn, OutOn, PipeOn, Exists, IsRunning, Key, InTold, OutTold
<1>3. \A X : (NotYet(X)' <=> NotYet(X)) /\ (InsOn(X)' <=> InsOn(X)) /\ (OutsOn(X)' <=> OutsOn(X))
  BY <1>1 DEF NotYet, InsOn, OutsOn, InOn, OutOn, PipeOn, InTold, OutTold
<1>4. /\ \A i : (InUse(i)' <=> InUse(i)) /\ (InOn(i)' <=> InOn(i))
      /\ \A o : (OutInUse(o)' <=> OutInUse(o)) /\ (OutOn(o)' <=> OutOn(o))
      /\ \A i, o : (PipeOn(i, o)' <=> PipeOn(i, o))
      /\ BootProg' = BootProg
  BY <1>1 DEF InUse, OutInUse, PipesOf, PipesTo, Exists, IsRunning, InOn, OutOn, PipeOn, BootProg
<1>5. CASE AtStart
  BY <1>1, <1>4, <1>5 DEF AtStart, BootInv
<1>6. CASE PipesPhase
  <2>1. PICK X \in SUBSET Triples :
          \/ BetweenPipes(X)
          \/ \E e \in Triples :
               \/ \E k \in 1 .. 12 : Starting(X, e, k)
               \/ \E k \in 1 .. 2 : Recording(X, e, k)
               \/ \E k \in 1 .. 3 : Rescuing(X, e, k)
               \/ \E k \in 1 .. 2 : DroppingIn(X, e, k) \/ DroppingOut(X, e, k)
    BY <1>6 DEF PipesPhase
  <2>2. BetweenPipes(X) => BetweenPipes(X)'
    BY <1>2, <1>3, <1>4 DEF BetweenPipes
  <2>3. \A e, k : Starting(X, e, k) => Starting(X, e, k)'
    <3>1. \A i, o, k : ItemFacts(k, i, o) => ItemFacts(k, i, o)'
      BY <1>1, <1>4 DEF ItemFacts, InTold, OutTold
    <3> QED
      BY <1>2, <1>3, <1>4, <3>1 DEF Starting
  <2>4. \A e, k : Recording(X, e, k) => Recording(X, e, k)'
    <3>1. \A i, o, k : ItemFacts(k, i, o) => ItemFacts(k, i, o)'
      BY <1>1, <1>4 DEF ItemFacts, InTold, OutTold
    <3> QED
      BY <1>1, <1>2, <1>3, <1>4, <3>1 DEF Recording
  <2>5. \A e, k : Rescuing(X, e, k) => Rescuing(X, e, k)'
    BY <1>2, <1>3, <1>4 DEF Rescuing
  <2>6. \A e, k : DroppingIn(X, e, k) => DroppingIn(X, e, k)'
    BY <1>1, <1>2, <1>3, <1>4 DEF DroppingIn
  <2>7. \A e, k : DroppingOut(X, e, k) => DroppingOut(X, e, k)'
    BY <1>1, <1>2, <1>3, <1>4 DEF DroppingOut
  <2>8. PipesPhase'
    BY <2>1, <2>2, <2>3, <2>4, <2>5, <2>6, <2>7 DEF PipesPhase
  <2> QED
    BY <2>8 DEF BootInv
<1>7. CASE PipesDone
  BY <1>2, <1>4, <1>7 DEF PipesDone, BootInv
<1>8. CASE InsPhase
  <2>1. \A X : BetweenIns(X) => BetweenIns(X)'
    BY <1>2, <1>3, <1>4 DEF BetweenIns
  <2>2. \A X, i : FailingIn(X, i) => FailingIn(X, i)'
    BY <1>2, <1>3, <1>4 DEF FailingIn
  <2>3. \A X, i, k : StartingIn(X, i, k) => StartingIn(X, i, k)'
    BY <1>1, <1>2, <1>3, <1>4 DEF StartingIn
  <2>4. InsPhase'
    BY <1>8, <2>1, <2>2, <2>3 DEF InsPhase
  <2> QED
    BY <2>4 DEF BootInv
<1>9. CASE InsDone
  BY <1>2, <1>3, <1>4, <1>9 DEF InsDone, BootInv
<1>10. CASE OutsPhase
  <2>1. \A X : BetweenOuts(X) => BetweenOuts(X)'
    BY <1>2, <1>3, <1>4 DEF BetweenOuts
  <2>2. \A X, o : FailingOut(X, o) => FailingOut(X, o)'
    BY <1>2, <1>3, <1>4 DEF FailingOut
  <2>3. \A X, o, k : StartingOut(X, o, k) => StartingOut(X, o, k)'
    BY <1>1, <1>2, <1>3, <1>4 DEF StartingOut
  <2>4. OutsPhase'
    BY <1>10, <2>1, <2>2, <2>3 DEF OutsPhase
  <2> QED
    BY <2>4 DEF BootInv
<1>11. CASE Agreed
  BY <1>2, <1>3, <1>4, <1>11 DEF Agreed, BootInv
<1> QED
  BY <1>5, <1>6, <1>7, <1>8, <1>9, <1>10, <1>11 DEF BootInv

LEMMA NextHeals ==
  ASSUME PlaneInv, HealInv, [Next]_vars
  PROVE  HealInv'
<1>1. PairUnique' /\ Steady
  BY UniqueStep DEF HealInv, Steady
<1> DEFINE Alone == (\A c \in Callers \ {Boot} : Idle(c)) /\ BootInv
<1>2. ASSUME NEW c \in Callers, Exec(c), ~late' PROVE Alone'
  <2>1. ~late
    BY <1>2, SameLate
  <2>2. Alone
    BY <2>1 DEF HealInv
  <2>3. c = Boot
    BY <1>2, <2>2, NothingToDo
  <2>4. BootInv'
    BY <1>1, <1>2, <2>2, <2>3, BootStep
  <2>5. \A d \in Callers \ {Boot} : prog'[d] = prog[d]
    BY <1>2, <2>3, OnlyItsOwn DEF PlaneInv
  <2> QED
    BY <2>2, <2>4, <2>5 DEF Idle
<1>3. ASSUME NEW c \in Clients, Ask(c) PROVE late'
  BY <1>3 DEF Ask, AskCreatePipe, AskUpdatePipe, AskDeletePipe, AskStartPipe, AskStopPipe, AskCreateInput,
     AskUpdateInput, AskDeleteInput, AskStartInput, AskStopInput, AskCreateOutput, AskUpdateOutput,
     AskDeleteOutput, AskStartOutput, AskStopOutput, Issue
<1>4. CASE Crash \/ RestorePanics
  BY <1>1, <1>4, RebootHeals DEF Crash, RestorePanics, HealInv
<1>5. CASE UNCHANGED vars
  BY <1>1, <1>5, StutterHeals DEF HealInv, vars, countVars, Idle
<1> QED
  BY <1>1, <1>2, <1>3, <1>4, <1>5 DEF Next, HealInv

-----------------------------------------------------------------------------
(* Once Restore is done, rows and engine agree.                               *)
LEMMA StillToDo ==
  ASSUME BootInv, prog[Boot] = <<>>
  PROVE  Agreed
<1>1. ~AtStart
  BY DEF AtStart, BootProg, RestoreProg
<1>2. ~PipesPhase
  <2> SUFFICES ASSUME PipesPhase PROVE FALSE
    OBVIOUS
  <2>1. PICK X \in SUBSET Triples :
          \/ BetweenPipes(X)
          \/ \E e \in Triples :
               \/ \E k \in 1 .. 12 : Starting(X, e, k)
               \/ \E k \in 1 .. 2 : Recording(X, e, k)
               \/ \E k \in 1 .. 3 : Rescuing(X, e, k)
               \/ \E k \in 1 .. 2 : DroppingIn(X, e, k) \/ DroppingOut(X, e, k)
    BY DEF PipesPhase
  <2>2. PipesLeft(X) \in Seq(Instr) /\ PipesLeft(X) # <<>>
    BY LeftTyped
  <2>3. ~BetweenPipes(X)
    BY <2>2 DEF BetweenPipes, BootProg
  <2>4. ASSUME NEW e \in Triples, NEW k \in 1 .. 12, Starting(X, e, k) PROVE FALSE
    BY <2>4, PipeItemHead DEF At
  <2>5. ASSUME NEW e \in Triples, NEW k \in 1 .. 2, Recording(X, e, k) PROVE FALSE
    <3>1. Recorded(e) \in Seq(Instr) /\ k \in 1 .. Len(Recorded(e))
      BY ShortItemsAre
    <3>2. prog[Boot] = After(Recorded(e), PipesLeft(X), k)
      BY <2>5 DEF Recording, BootProg
    <3>3. After(Recorded(e), PipesLeft(X), k) # <<>>
      BY <2>2, <3>1, AfterParts
    <3> QED
      BY <3>2, <3>3
  <2>6. ASSUME NEW e \in Triples, NEW k \in 1 .. 3, Rescuing(X, e, k) PROVE FALSE
    <3>1. Rescued(e) \in Seq(Instr) /\ k \in 1 .. Len(Rescued(e))
      BY ShortItemsAre
    <3>2. prog[Boot] = After(Rescued(e), PipesLeft(X), k)
      BY <2>6 DEF Rescuing, BootProg
    <3>3. After(Rescued(e), PipesLeft(X), k) # <<>>
      BY <2>2, <3>1, AfterParts
    <3> QED
      BY <3>2, <3>3
  <2>7. ASSUME NEW e \in Triples, NEW k \in 1 .. 2, DroppingIn(X, e, k) \/ DroppingOut(X, e, k) PROVE FALSE
    <3>1. e[2] \in Inputs /\ e[3] \in Outputs
      BY DEF Triples
    <3>2. /\ DropIn(e[2]) \in Seq(Instr) /\ k \in 1 .. Len(DropIn(e[2]))
          /\ DropOut(e[3]) \in Seq(Instr) /\ k \in 1 .. Len(DropOut(e[3]))
      BY <3>1, DropsAre
    <3>3. Rescued(e) \in Seq(Instr) /\ 3 \in 1 .. Len(Rescued(e))
      BY ShortItemsAre
    <3>4. After(Rescued(e), PipesLeft(X), 3) \in Seq(Instr)
      BY <2>2, <3>3, AfterParts
    <3>5. ~DroppingIn(X, e, k)
      BY <3>2, <3>4, AfterParts DEF DroppingIn, BootProg
    <3>6. ~DroppingOut(X, e, k)
      BY <2>2, <3>2, AfterParts DEF DroppingOut, BootProg
    <3> QED
      BY <2>7, <3>5, <3>6
  <2> QED
    BY <2>1, <2>3, <2>4, <2>5, <2>6, <2>7
<1>3. ~PipesDone /\ ~InsDone
  BY DEF PipesDone, InsDone, BootProg
<1>4. ~InsPhase
  <2>1. \A X \in SUBSET Inputs : ~BetweenIns(X)
    BY LeftTyped DEF BetweenIns, BootProg
  <2>2. ASSUME NEW X \in SUBSET Inputs, NEW i \in Inputs, FailingIn(X, i) PROVE FALSE
    <3> DEFINE w == <<Set("setIn", i, "stopped")>>
    <3>1. w \in Seq(Instr) /\ 1 \in 1 .. Len(w)
      <4>1. Set("setIn", i, "stopped") \in Instr
        BY StampedInstr DEF Status
      <4> QED
        BY <4>1
    <3>2. prog[Boot] = After(w, InsLeft(X), 1) /\ InsLeft(X) \in Seq(Instr)
      BY <2>2, LeftTyped DEF FailingIn, BootProg
    <3> HIDE DEF w
    <3> QED
      BY <3>1, <3>2, AfterParts
  <2>3. ASSUME NEW X \in SUBSET Inputs, NEW i \in Inputs, NEW k \in 1 .. 5, StartingIn(X, i, k) PROVE FALSE
    BY <2>3, InItemHead DEF At
  <2> QED
    BY <2>1, <2>2, <2>3 DEF InsPhase
<1>5. ~OutsPhase
  <2>1. \A X \in SUBSET Outputs : ~BetweenOuts(X)
    BY LeftTyped DEF BetweenOuts, BootProg
  <2>2. ASSUME NEW X \in SUBSET Outputs, NEW o \in Outputs, FailingOut(X, o) PROVE FALSE
    <3> DEFINE w == <<Set("setOut", o, "stopped")>>
    <3>1. w \in Seq(Instr) /\ 1 \in 1 .. Len(w)
      <4>1. Set("setOut", o, "stopped") \in Instr
        BY StampedInstr DEF Status
      <4> QED
        BY <4>1
    <3>2. prog[Boot] = After(w, OutsLeft(X), 1) /\ OutsLeft(X) \in Seq(Instr)
      BY <2>2, LeftTyped DEF FailingOut, BootProg
    <3> HIDE DEF w
    <3> QED
      BY <3>1, <3>2, AfterParts
  <2>3. ASSUME NEW X \in SUBSET Outputs, NEW o \in Outputs, NEW k \in 1 .. 5, StartingOut(X, o, k) PROVE FALSE
    BY <2>3, OutItemHead DEF At
  <2> QED
    BY <2>1, <2>2, <2>3 DEF OutsPhase
<1> QED
  BY <1>1, <1>2, <1>3, <1>4, <1>5 DEF BootInv

LEMMA AgreedMatches ==
  ASSUME Steady, Agreed, "src" \notin Faults, "snk" \notin Faults
  PROVE  InputsMatch /\ OutputsMatch /\ PipesMatch /\ NoZombies
<1>1. NothingLoose /\ Settled({}) /\ Accounted({}, {}, {}) /\ InsOn({}) /\ OutsOn({})
  BY DEF Agreed, Sound
<1>2. InputsMatch /\ OutputsMatch
  BY <1>1 DEF InputsMatch, OutputsMatch, Accounted, InsOn, OutsOn, InOn, OutOn, InTold, OutTold
<1>3. ASSUME NEW p \in PipeIds, Exists(p) PROVE RowTrue(p)
  <2>1. pipeRow[p].in \in Inputs /\ pipeRow[p].out \in Outputs
    BY <1>3, KeyTyped
  <2>2. IsRunning(p) => PipeOn(pipeRow[p].in, pipeRow[p].out)
    BY <1>1, <1>3 DEF Settled
  <2>3. ASSUME PipeOn(pipeRow[p].in, pipeRow[p].out) PROVE IsRunning(p)
    <3>1. PICK q \in PipeIds : Exists(q) /\ IsRunning(q) /\ pipeRow[q].in = pipeRow[p].in
                                /\ pipeRow[q].out = pipeRow[p].out
      BY <1>1, <2>1, <2>3, RunningRow
    <3>2. q = p
      BY <1>3, <3>1 DEF Steady, PairUnique
    <3> QED
      BY <3>1, <3>2
  <2> QED
    BY <2>2, <2>3 DEF RowTrue, PipeOn
<1>4. NoZombies
  BY <1>1 DEF NothingLoose, NoZombies, Key
<1> QED
  BY <1>2, <1>3, <1>4 DEF PipesMatch

(* After a restart and a Restore that no request interfered with, exactly the *)
(* inputs, outputs and pipes whose rows say running run: for any numbers of   *)
(* them, whatever requests and the end of the process in the middle of        *)
(* handlers left in the rows, and whichever creations and pipe starts fail.   *)
(* Sources and sinks must start when told to: startPipe only logs it when one *)
(* does not, and goes on as if it had.                                        *)
THEOREM RestoreHealsAlways ==
  ASSUME "src" \notin Faults, "snk" \notin Faults
  PROVE  Spec => []RestoreHeals
<1>1. Init => PlaneInv /\ HealInv
  BY InitPlane, InitHeals
<1>2. PlaneInv /\ HealInv /\ [Next]_vars => (PlaneInv /\ HealInv)'
  BY NextPlane, NextHeals
<1>3. PlaneInv /\ HealInv => RestoreHeals
  <2> SUFFICES ASSUME PlaneInv, HealInv, ~late, Quiet
               PROVE  InputsMatch /\ OutputsMatch /\ PipesMatch /\ NoZombies
    BY DEF RestoreHeals, EngineMatchesDB
  <2>1. prog[Boot] = <<>> /\ BootInv /\ Steady
    BY BootCalls DEF Quiet, Idle, HealInv, Steady
  <2> QED
    BY <2>1, StillToDo, AgreedMatches
<1> QED
  BY <1>1, <1>2, <1>3, PTL DEF Spec
=============================================================================
