----------------------------- MODULE ControlPlane -----------------------------
(***************************************************************************)
(* The service layer (src/server/internal/service) over the database rows    *)
(* and the media hub: InputService, OutputService, PipeService, and the      *)
(* Restore that follows a start of the process.                              *)
(*                                                                           *)
(* Each request runs in a goroutine of its own and takes no lock: one step   *)
(* is one call of a repository or of the hub (each atomic), so requests, and *)
(* Restore, interleave between any two of them.  A goroutine's remaining     *)
(* work is a sequence of instructions, prog[c]; an instruction that returns  *)
(* an error clears it (the handler returns) unless Restore catches it.       *)
(*                                                                           *)
(* The process may end between any two steps; the rows survive it.           *)
(***************************************************************************)
EXTENDS MediaHub, Sequences

CONSTANTS PipeIds,
          Clients,      \* request goroutines
          Boot,         \* the goroutine of main that runs Restore
          Requests,     \* the kinds of request clients issue
          MaxReqs,      \* bound: requests issued
          MaxCrashes,   \* bound: ends of the process
          MaxActive,    \* bound: goroutines at work at once; 1 is "in turn"
          Fresh,        \* inputs, outputs and pipes whose rows do not exist yet
          NoRow         \* no such pipe row

ASSUME PlaneAssumption == /\ Callers = Clients \cup {Boot}
                          /\ Boot \notin Clients
                          /\ NoRow \notin [in : Inputs, out : Outputs,
                                           st : {"stopped", "running"}]

VARIABLES
  inRow,    \* inRow[i]: "none" or the status of the row of input i
  outRow,   \* outRow[o]: "none" or the status of the row of output o
  pipeRow,  \* pipeRow[p]: NoRow or the row of pipe p
  unborn,   \* ids of Fresh not used by a Create request yet
  prog,     \* prog[c]: what goroutine c has still to do
  reqs,     \* requests issued, in all
  late,     \* history: a request was issued since the process started
  crashes,  \* ends of the process
  panics    \* history: how often in a row Restore ended the process (2: at least)

rowVars == <<inRow, outRow, pipeRow>>
countVars == <<reqs, late, crashes, panics>>
vars == <<hubVars, rowVars, unborn, prog, countVars>>

Status == {"stopped", "running"}
Rows == [in : Inputs, out : Outputs, st : Status]

Exists(p) == pipeRow[p] # NoRow
PipesOf(i) == {p \in PipeIds : Exists(p) /\ pipeRow[p].in = i}
PipesTo(o) == {p \in PipeIds : Exists(p) /\ pipeRow[p].out = o}
IsRunning(p) == pipeRow[p].st = "running"

\* hasRunningPipeByInput, hasRunningPipeByOutput
InUse(i) == \E p \in PipesOf(i) : IsRunning(p)
OutInUse(o) == \E p \in PipesTo(o) : IsRunning(p)

-----------------------------------------------------------------------------
(* Programs.  An instruction is a record: op, and what it works on.          *)

On(op, x) == [op |-> op, x |-> x]
For(op, i, o) == On(op, <<i, o>>)
Set(op, x, st) == [op |-> op, x |-> x, st |-> st]

\* PipeService.startPipe.
StartPipeProg(i, o) ==
  <<On("needIn", i), On("needOut", o), On("createIn", i), On("createOut", o), For("connect", i, o),
    On("findOut", o), On("runOut", o), On("findIn", i), On("runIn", i),
    For("findPipe", i, o), For("runPipe", i, o)>>

\* startInputOnly, startOutputOnly.
StartInputProg(i) ==
  <<On("needIn", i), On("openIn", i), On("runInOrFail", i), Set("setIn", i, "running")>>
StartOutputProg(o) ==
  <<On("needOut", o), On("openOut", o), On("runOutOrFail", o), Set("setOut", o, "running")>>

StatusProg(i, o, st) == <<Set("setIn", i, st), Set("setOut", o, st)>>
OrphanProg(i, o) == <<On("orphanIn", i), On("orphanOut", o)>>

\* Fault: inputs and outputs that run on their own are not restored.
RestorePipesOnly == <<On("restorePipes", 0)>>

RestoreProg == <<On("restorePipes", 0), On("restoreIns", 0), On("restoreOuts", 0)>>

Born(p) == p \notin Fresh

\* A process that has just restored nothing: rows as Create requests left them.
Init ==
  /\ HubInit
  /\ inRow = [i \in Inputs |-> IF Born(i) THEN "stopped" ELSE "none"]
  /\ outRow = [o \in Outputs |-> IF Born(o) THEN "stopped" ELSE "none"]
  /\ pipeRow \in {r \in [PipeIds -> [in : Inputs, out : Outputs, st : {"stopped"}] \cup {NoRow}] :
                    /\ \A p \in PipeIds : Born(p) <=> r[p] # NoRow
                    /\ \A p, q \in PipeIds : Born(p) /\ Born(q) /\ r[p].out = r[q].out => p = q}
  /\ unborn = Fresh
  /\ prog = [c \in Callers |-> <<>>]
  /\ reqs = 0 /\ late = FALSE /\ crashes = 0 /\ panics = 0

Idle(c) == prog[c] = <<>>
Active == {c \in Callers : ~Idle(c)}

-----------------------------------------------------------------------------
(* Requests.  The step that issues one is also its first read of the         *)
(* database; a request that this read rejects changes nothing and is left    *)
(* out.                                                                      *)

Issue(c, kind, q) ==
  /\ kind \in Requests
  /\ Idle(c) /\ reqs < MaxReqs /\ Cardinality(Active) < MaxActive
  /\ prog' = [prog EXCEPT ![c] = q]
  /\ reqs' = reqs + 1
  /\ late' = TRUE
  /\ panics' = 0
  /\ UNCHANGED <<hubVars, rowVars, crashes>>

\* PipeService.Create: reads the input row first.
AskCreatePipe(c, p, i, o) ==
  /\ p \in unborn /\ inRow[i] # "none"
  /\ unborn' = unborn \ {p}
  /\ Issue(c, "createPipe", <<On("needOut", o), For("checkPair", i, o), On("checkOut", o),
                                On("insertPipe", <<p, i, o>>)>>)

\* PipeService.Update: the row read here is written back at the end.
AskUpdatePipe(c, p, i, o) ==
  /\ Exists(p) /\ ~IsRunning(p)
  /\ Issue(c, "updatePipe", <<On("needIn", i), On("needOut", o), On("savePipe", <<p, i, o>>)>>)
  /\ UNCHANGED unborn

AskDeletePipe(c, p) ==
  /\ Exists(p) /\ ~IsRunning(p)
  /\ Issue(c, "deletePipe", <<For("disconnect", pipeRow[p].in, pipeRow[p].out), On("dropPipe", p)>>)
  /\ UNCHANGED unborn

AskStartPipe(c, p) ==
  /\ Exists(p) /\ ~IsRunning(p)
  /\ LET i == pipeRow[p].in
         o == pipeRow[p].out
     IN  Issue(c, "startPipe", StartPipeProg(i, o) \o StatusProg(i, o, "running")
                                 \o <<Set("setPipe", p, "running")>>)
  /\ UNCHANGED unborn

AskStopPipe(c, p) ==
  /\ Exists(p) /\ IsRunning(p)
  /\ LET i == pipeRow[p].in
         o == pipeRow[p].out
     IN  Issue(c, "stopPipe", <<For("disconnect", i, o), Set("setPipe", p, "stopped")>>
                                \o OrphanProg(i, o))
  /\ UNCHANGED unborn

AskCreateInput(c, i) ==
  /\ i \in unborn /\ unborn' = unborn \ {i}
  /\ Issue(c, "createInput", <<On("insertIn", i)>>)

\* Update writes the whole row back, with the status read here.
AskUpdateInput(c, i) ==
  /\ inRow[i] # "none"
  /\ Issue(c, "updateInput", <<Set("saveIn", i, inRow[i])>>)
  /\ UNCHANGED unborn

AskDeleteInput(c, i) ==
  /\ inRow[i] = "stopped"
  /\ Issue(c, "deleteInput", <<On("removeIn", i), On("dropIn", i)>>)
  /\ UNCHANGED unborn

AskStartInput(c, i) ==
  /\ inRow[i] = "stopped"
  /\ Issue(c, "startInput", StartInputProg(i))
  /\ UNCHANGED unborn

AskStopInput(c, i) ==
  /\ inRow[i] = "running"
  /\ Issue(c, "stopInput", <<On("removeIn", i), Set("setIn", i, "stopped"), On("cascadeIn", i)>>)
  /\ UNCHANGED unborn

AskCreateOutput(c, o) ==
  /\ o \in unborn /\ unborn' = unborn \ {o}
  /\ Issue(c, "createOutput", <<On("insertOut", o)>>)

AskUpdateOutput(c, o) ==
  /\ outRow[o] # "none"
  /\ Issue(c, "updateOutput", <<Set("saveOut", o, outRow[o])>>)
  /\ UNCHANGED unborn

AskDeleteOutput(c, o) ==
  /\ outRow[o] = "stopped"
  /\ Issue(c, "deleteOutput", <<On("removeOut", o), On("dropOut", o)>>)
  /\ UNCHANGED unborn

AskStartOutput(c, o) ==
  /\ outRow[o] = "stopped"
  /\ Issue(c, "startOutput", StartOutputProg(o))
  /\ UNCHANGED unborn

AskStopOutput(c, o) ==
  /\ outRow[o] = "running"
  /\ Issue(c, "stopOutput", <<On("removeOut", o), Set("setOut", o, "stopped"), On("cascadeOut", o)>>)
  /\ UNCHANGED unborn

Ask(c) ==
  \/ \E p \in PipeIds, i \in Inputs, o \in Outputs :
       AskCreatePipe(c, p, i, o) \/ AskUpdatePipe(c, p, i, o)
  \/ \E p \in PipeIds : AskDeletePipe(c, p) \/ AskStartPipe(c, p) \/ AskStopPipe(c, p)
  \/ \E i \in Inputs : \/ AskCreateInput(c, i) \/ AskUpdateInput(c, i) \/ AskDeleteInput(c, i)
                       \/ AskStartInput(c, i) \/ AskStopInput(c, i)
  \/ \E o \in Outputs : \/ AskCreateOutput(c, o) \/ AskUpdateOutput(c, o) \/ AskDeleteOutput(c, o)
                        \/ AskStartOutput(c, o) \/ AskStopOutput(c, o)

-----------------------------------------------------------------------------
(* Execution of the first instruction of a program.                          *)

At(c, op) == prog[c] # <<>> /\ prog[c][1].op = op
Arg(c) == prog[c][1].x

Become(c, q) == prog' = [prog EXCEPT ![c] = q \o Tail(@)]
Continue(c) == Become(c, <<>>)
SkipNext(c) == prog' = [prog EXCEPT ![c] = Tail(Tail(@))]

\* Restore goes on after a failed item, marking its row stopped; elsewhere an
\* error ends the handler.
Catches == {"donePipe", "doneIn", "doneOut"}
Rescue(m) == CASE m.op = "donePipe" -> <<Set("setPipe", m.x[1], "stopped")>> \o OrphanProg(m.x[2], m.x[3])
               [] m.op = "doneIn"   -> <<Set("setIn", m.x, "stopped")>>
               [] m.op = "doneOut"  -> <<Set("setOut", m.x, "stopped")>>
Unwind(q) ==
  LET marks == {k \in DOMAIN q : q[k].op \in Catches}
      first == CHOOSE k \in marks : \A j \in marks : k <= j
  IN  IF marks = {} THEN <<>> ELSE Rescue(q[first]) \o SubSeq(q, first + 1, Len(q))
Fail(c) == prog' = [prog EXCEPT ![c] = Unwind(@)]

SameRows == UNCHANGED <<rowVars, unborn, countVars>>
SameHub == UNCHANGED hubVars

\* Reads of the rows.
Need(c) ==
  /\ \/ At(c, "needIn") /\ (IF inRow[Arg(c)] # "none" THEN Continue(c) ELSE Fail(c))
     \/ At(c, "needOut") /\ (IF outRow[Arg(c)] # "none" THEN Continue(c) ELSE Fail(c))
     \/ At(c, "checkPair") /\ (IF PipesOf(Arg(c)[1]) \cap PipesTo(Arg(c)[2]) = {}
                               THEN Continue(c) ELSE Fail(c))
     \/ At(c, "checkOut") /\ (IF PipesTo(Arg(c)) = {} THEN Continue(c) ELSE Fail(c))
  /\ SameHub /\ SameRows

\* Fault: the input is stopped although other pipes use it.
OrphanAlways(c) ==
  /\ \/ At(c, "orphanIn")
        /\ Become(c, <<On("removeIn", Arg(c)), Set("setIn", Arg(c), "stopped")>>)
     \/ At(c, "orphanOut")
        /\ Become(c, <<On("removeOut", Arg(c)), Set("setOut", Arg(c), "stopped")>>)
  /\ SameHub /\ SameRows

\* stopOrphanedInput, stopOrphanedOutput: the test and what it decides.
Orphan(c) ==
  /\ \/ At(c, "orphanIn") /\ ~InUse(Arg(c))
        /\ Become(c, <<On("removeIn", Arg(c)), Set("setIn", Arg(c), "stopped")>>)
     \/ At(c, "orphanIn") /\ InUse(Arg(c)) /\ Continue(c)
     \/ At(c, "orphanOut") /\ ~OutInUse(Arg(c))
        /\ Become(c, <<On("removeOut", Arg(c)), Set("setOut", Arg(c), "stopped")>>)
     \/ At(c, "orphanOut") /\ OutInUse(Arg(c)) /\ Continue(c)
  /\ SameHub /\ SameRows

\* The queries of a cascade or of Restore, and the loops over their results,
\* in any order.
Query(c) ==
  /\ \/ At(c, "cascadeIn")
        /\ Become(c, <<On("eachOut", {<<p, pipeRow[p].out>> : p \in {q \in PipesOf(Arg(c)) : IsRunning(q)}})>>)
     \/ At(c, "cascadeOut")
        /\ Become(c, <<On("eachIn", {<<p, pipeRow[p].in>> : p \in {q \in PipesTo(Arg(c)) : IsRunning(q)}})>>)
     \/ At(c, "restorePipes")
        /\ Become(c, <<On("eachPipe", {<<p, pipeRow[p].in, pipeRow[p].out>> :
                                       p \in {q \in PipeIds : Exists(q) /\ IsRunning(q)}})>>)
     \/ At(c, "restoreIns")
        /\ Become(c, <<On("eachInput", {i \in Inputs : inRow[i] = "running"})>>)
     \/ At(c, "restoreOuts")
        /\ Become(c, <<On("eachOutput", {o \in Outputs : outRow[o] = "running"})>>)
  /\ SameHub /\ SameRows

Loops == {"eachOut", "eachIn", "eachPipe", "eachInput", "eachOutput"}
Body(op, e) ==
  CASE op = "eachOut"    -> <<Set("setPipe", e[1], "stopped"), On("orphanOut", e[2])>>
    [] op = "eachIn"     -> <<Set("setPipe", e[1], "stopped"), On("orphanIn", e[2])>>
    [] op = "eachPipe"   -> StartPipeProg(e[2], e[3]) \o <<On("donePipe", e)>>
    [] op = "eachInput"  -> IF InUse(e) THEN <<>> ELSE StartInputProg(e) \o <<On("doneIn", e)>>
    [] op = "eachOutput" -> IF OutInUse(e) THEN <<>> ELSE StartOutputProg(e) \o <<On("doneOut", e)>>

Loop(c) ==
  /\ \E op \in Loops :
       /\ At(c, op)
       /\ IF Arg(c) = {} THEN Continue(c)
          ELSE \E e \in Arg(c) : Become(c, Body(op, e) \o <<On(op, Arg(c) \ {e})>>)
  /\ SameHub /\ SameRows

Done(c) ==
  /\ \/ At(c, "donePipe") /\ Become(c, StatusProg(Arg(c)[2], Arg(c)[3], "running"))
     \/ At(c, "doneIn") /\ Continue(c)
     \/ At(c, "doneOut") /\ Continue(c)
  /\ SameHub /\ SameRows

\* UpdateStatus touches no row when there is none.
UpdateStatus(c) ==
  LET x == Arg(c)
      st == prog[c][1].st
  IN  /\ \/ At(c, "setIn") /\ UNCHANGED <<outRow, pipeRow>>
            /\ inRow' = IF inRow[x] = "none" THEN inRow ELSE [inRow EXCEPT ![x] = st]
         \/ At(c, "setOut") /\ UNCHANGED <<inRow, pipeRow>>
            /\ outRow' = IF outRow[x] = "none" THEN outRow ELSE [outRow EXCEPT ![x] = st]
         \/ At(c, "setPipe") /\ UNCHANGED <<inRow, outRow>>
            /\ pipeRow' = IF Exists(x) THEN [pipeRow EXCEPT ![x].st = st] ELSE pipeRow
      /\ Continue(c) /\ SameHub /\ UNCHANGED <<unborn, countVars>>

\* Save inserts the row when it is not there.
InsertOrSave(c) ==
  LET x == Arg(c)
  IN  /\ \/ At(c, "insertIn") /\ inRow' = [inRow EXCEPT ![x] = "stopped"] /\ UNCHANGED outRow
         \/ At(c, "saveIn") /\ inRow' = [inRow EXCEPT ![x] = prog[c][1].st] /\ UNCHANGED outRow
         \/ At(c, "insertOut") /\ outRow' = [outRow EXCEPT ![x] = "stopped"] /\ UNCHANGED inRow
         \/ At(c, "saveOut") /\ outRow' = [outRow EXCEPT ![x] = prog[c][1].st] /\ UNCHANGED inRow
      /\ Continue(c) /\ SameHub /\ UNCHANGED <<pipeRow, unborn, countVars>>

\* The unique index on (input_id, output_id).
PairFree(p, i, o) == \A q \in PipesOf(i) \cap PipesTo(o) : q = p

WritePipe(c) ==
  /\ At(c, "insertPipe") \/ At(c, "savePipe")
  /\ LET p == Arg(c)[1]
         i == Arg(c)[2]
         o == Arg(c)[3]
     IN  \/ PairFree(p, i, o)
            /\ pipeRow' = [pipeRow EXCEPT ![p] = [in |-> i, out |-> o, st |-> "stopped"]]
            /\ Continue(c)
         \/ ~PairFree(p, i, o) /\ UNCHANGED pipeRow /\ Fail(c)
  /\ SameHub /\ UNCHANGED <<inRow, outRow, unborn, countVars>>

Drop(c) ==
  LET x == Arg(c)
  IN  /\ \/ At(c, "dropIn") /\ inRow' = [inRow EXCEPT ![x] = "none"] /\ UNCHANGED <<outRow, pipeRow>>
         \/ At(c, "dropOut") /\ outRow' = [outRow EXCEPT ![x] = "none"] /\ UNCHANGED <<inRow, pipeRow>>
         \/ At(c, "dropPipe") /\ pipeRow' = [pipeRow EXCEPT ![x] = NoRow] /\ UNCHANGED <<inRow, outRow>>
      /\ Continue(c) /\ SameHub /\ UNCHANGED <<unborn, countVars>>

-----------------------------------------------------------------------------
(* Calls of the hub.  startPipe only logs the failure of CreateInput,        *)
(* CreateOutput, StartInput and StartOutput and goes on.                     *)

Create(c) ==
  /\ \/ At(c, "createIn") /\ (CreateInput(Arg(c)) \/ InputFound(Arg(c))
                               \/ (sources[Arg(c)] = 0 /\ CreateFails))
     \/ At(c, "createOut") /\ (CreateOutput(Arg(c)) \/ OutputFound(Arg(c))
                                \/ (sinks[Arg(c)] = 0 /\ CreateFails))
  /\ Continue(c) /\ UNCHANGED held /\ SameRows

ConnectPipe(c) ==
  /\ At(c, "connect")
  /\ LET i == Arg(c)[1]
         o == Arg(c)[2]
     IN  \/ (Connect(i, o) \/ AlreadyConnected(i, o)) /\ Continue(c)
         \/ ~CanConnect(i, o) /\ UNCHANGED <<regVars, objVars>> /\ Fail(c)
  /\ UNCHANGED held /\ SameRows

\* Disconnect, RemoveInput, RemoveOutput: "not found" is logged at most.
Remove(c) ==
  LET x == Arg(c)
  IN  /\ \/ At(c, "disconnect") /\ Disconnect(x[1], x[2])
         \/ At(c, "removeIn") /\ (RemoveInput(x) \/ InputMissing(x))
         \/ At(c, "removeOut") /\ (RemoveOutput(x) \/ OutputMissing(x))
      /\ Continue(c) /\ UNCHANGED held /\ SameRows

\* The look-up in StartInput, StartOutput, StartPipe.
Find(c) ==
  LET x == Arg(c)
  IN  /\ \/ At(c, "findIn") /\ FindSource(c, x) /\ Continue(c)
         \/ At(c, "findIn") /\ sources[x] = 0 /\ SkipNext(c) /\ SameHub
         \/ At(c, "findOut") /\ FindSink(c, x) /\ Continue(c)
         \/ At(c, "findOut") /\ sinks[x] = 0 /\ SkipNext(c) /\ SameHub
         \/ At(c, "findPipe") /\ FindPipe(c, x[1], x[2]) /\ Continue(c)
         \/ At(c, "findPipe") /\ pipes[x] = 0 /\ Fail(c) /\ SameHub
      /\ SameRows

\* CreateInput / CreateOutput of startInputOnly / startOutputOnly, which start
\* the object it returns.
Open(c) ==
  LET x == Arg(c)
  IN  /\ \/ At(c, "openIn") /\ OpenInput(c, x) /\ Continue(c)
         \/ At(c, "openIn") /\ sources[x] = 0 /\ CreateFails /\ UNCHANGED held /\ Fail(c)
         \/ At(c, "openOut") /\ OpenOutput(c, x) /\ Continue(c)
         \/ At(c, "openOut") /\ sinks[x] = 0 /\ CreateFails /\ UNCHANGED held /\ Fail(c)
      /\ SameRows

\* Fault: the failure of StartPipe is logged like that of StartInput.
StartPipeSwallowed(c) ==
  At(c, "runPipe") /\ (RunPipe(c) \/ RunPipeAgain(c) \/ RunPipeFails(c)) /\ Continue(c)

StartPipe(c) ==
  \/ At(c, "runPipe") /\ (RunPipe(c) \/ RunPipeAgain(c)) /\ Continue(c)
  \/ At(c, "runPipe") /\ RunPipeFails(c) /\ Fail(c)

Run(c) ==
  /\ \/ At(c, "runIn") /\ (RunSource(c) \/ RunSourceFails(c)) /\ Continue(c)
     \/ At(c, "runOut") /\ (RunSink(c) \/ RunSinkFails(c)) /\ Continue(c)
     \/ At(c, "runInOrFail") /\ RunSource(c) /\ Continue(c)
     \/ At(c, "runInOrFail") /\ RunSourceFails(c) /\ Fail(c)
     \/ At(c, "runOutOrFail") /\ RunSink(c) /\ Continue(c)
     \/ At(c, "runOutOrFail") /\ RunSinkFails(c) /\ Fail(c)
     \/ StartPipe(c)
  /\ SameRows

\* The HTTP server recovers the panic of a request; the handler is gone.
RequestPanics(c) ==
  /\ c # Boot /\ At(c, "runPipe") /\ RunPipePanics(c)
  /\ prog' = [prog EXCEPT ![c] = <<>>]
  /\ SameRows

Exec(c) ==
  \/ Need(c) \/ Orphan(c) \/ Query(c) \/ Loop(c) \/ Done(c)
  \/ UpdateStatus(c) \/ InsertOrSave(c) \/ WritePipe(c) \/ Drop(c)
  \/ Create(c) \/ ConnectPipe(c) \/ Remove(c) \/ Find(c) \/ Open(c) \/ Run(c)
  \/ RequestPanics(c)

-----------------------------------------------------------------------------
\* The process ends and is started again: an empty hub, the rows as they were,
\* and Restore to run.
Reboot ==
  /\ Restart
  /\ prog' = [c \in Callers |-> IF c = Boot THEN RestoreProg ELSE <<>>]
  /\ late' = FALSE
  /\ UNCHANGED <<rowVars, unborn, reqs>>

Crash ==
  /\ crashes < MaxCrashes
  /\ crashes' = crashes + 1
  /\ Reboot
  /\ UNCHANGED panics

\* Nothing recovers a panic on the goroutine of main.
RestorePanics ==
  /\ At(Boot, "runPipe")
  /\ held[Boot][1] = "pipe" /\ NotStarted(held[Boot][2]) /\ WillPanic(held[Boot][2])
  /\ panics' = IF panics < 2 THEN panics + 1 ELSE 2
  /\ Reboot
  /\ UNCHANGED crashes

Next == \/ \E c \in Clients : Ask(c)
        \/ \E c \in Callers : Exec(c)
        \/ Crash
        \/ RestorePanics

Spec == Init /\ [][Next]_vars

-----------------------------------------------------------------------------
(* Properties                                                                *)

Quiet == \A c \in Callers : Idle(c)

InputsMatch == \A i \in Inputs : inRow[i] = "running" <=> sources[i] \in srcOn
OutputsMatch == \A o \in Outputs : outRow[o] = "running" <=> sinks[o] \in snkOn
Stuck(p) == LET e == pipes[<<pipeRow[p].in, pipeRow[p].out>>] IN e # 0 /\ pstate[e] = "stuck"
RowTrue(p) ==
  LET e == pipes[<<pipeRow[p].in, pipeRow[p].out>>]
  IN  IsRunning(p) <=> e # 0 /\ pstate[e] = "running"
PipesMatch == \A p \in PipeIds : Exists(p) => RowTrue(p)
NoZombies ==
  /\ \A i \in srcOn : \E j \in Inputs : sources[j] = i
  /\ \A x \in snkOn : \E o \in Outputs : sinks[o] = x
  /\ \A p \in Objs : pstate[p] \in {"running", "revived"} =>
        \E q \in PipeIds : Exists(q) /\ pipes[<<pipeRow[q].in, pipeRow[q].out>>] = p

(* "Database state and the engine's real state agree" (status_util.go,        *)
(* pipe_service.go): whenever no handler is at work, exactly the inputs,      *)
(* outputs and pipes whose rows say running are running in the hub, and       *)
(* nothing runs that no row accounts for.                                     *)
EngineMatchesDB == Quiet => InputsMatch /\ OutputsMatch /\ PipesMatch /\ NoZombies

(* After a restart and a Restore that no request interfered with, they agree, *)
(* whatever mess concurrent requests and the end of the process in the middle *)
(* of handlers had left in the rows.                                          *)
RestoreHeals == ~late => EngineMatchesDB

(* Whatever calls of the hub fail, a pipe's row says running exactly when the *)
(* pipe runs: a failed start is not recorded as a success, and Stop, the      *)
(* cascades and Restore leave no running pipe behind a stopped row.  Left out *)
(* is a pipe on which a panic of Configure left "started" set: every later    *)
(* start of it succeeds without a writer.                                     *)
PipeRowsTrue == Quiet => \A p \in PipeIds : Exists(p) /\ ~Stuck(p) => RowTrue(p)

(* "Items that fail to be restored are set to stopped, so that the next start *)
(* does not try them again" (Restore): Restore does not end the process twice *)
(* in a row.                                                                  *)
RestoreNeverRetries == panics < 2
=============================================================================
