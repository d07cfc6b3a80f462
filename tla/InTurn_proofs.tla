---------------------------- MODULE InTurn_proofs ----------------------------
(***************************************************************************)
(* Requests that come one after the other: what ControlPlane's properties     *)
(* EngineMatchesDB and PipeRowsTrue say of rows and engine, for any numbers   *)
(* of inputs, outputs, pipes and requests.                                    *)
(*                                                                           *)
(* A handler makes rows and engine disagree for a while: it stops an input    *)
(* and says so one call later, it starts a sink seven calls before its row    *)
(* says running.  The invariant names, for each point a handler can be at,    *)
(* the rows that may be wrong there (True); everywhere else rows and engine   *)
(* agree.  What Restore does between a restart and the first request is       *)
(* BootInv of ControlPlane_proofs.                                            *)
(***************************************************************************)
EXTENDS ControlPlane_proofs, FiniteSetTheorems

(* Every start the hub is asked for succeeds.                                 *)
Sure == "src" \notin Faults /\ "snk" \notin Faults /\ "pipe" \notin Faults

Jammed(i, o) == pipes[<<i, o>>] # 0 /\ pstate[pipes[<<i, o>>]] = "stuck"

(* Nothing runs outside the registry.                                         *)
HubClean ==
  /\ \A s \in srcOn : \E i \in Inputs : sources[i] = s
  /\ \A s \in snkOn : \E o \in Outputs : sinks[o] = s
  /\ \A x \in Objs : pstate[x] # "revived"
  /\ \A x \in Objs : pstate[x] = "running" => Registered(x)

Rowed ==
  \A i \in Inputs, o \in Outputs :
    PipeOn(i, o) => \E p \in PipeIds : Exists(p) /\ pipeRow[p].in = i /\ pipeRow[p].out = o

Unjammed == Sure => \A i \in Inputs, o \in Outputs : ~Jammed(i, o)

(* The row of a pipe says running exactly when the pipe runs, and then the    *)
(* rows of its input and its output say so too.                               *)
RowHolds(p) ==
  Exists(p) =>
    /\ ~Jammed(pipeRow[p].in, pipeRow[p].out) => (IsRunning(p) <=> PipeOn(pipeRow[p].in, pipeRow[p].out))
    /\ IsRunning(p) => inRow[pipeRow[p].in] = "running" /\ outRow[pipeRow[p].out] = "running"

InsTrue(I) == Sure => \A i \in Inputs \ I : inRow[i] = "running" <=> InOn(i)
OutsTrue(O) == Sure => \A o \in Outputs \ O : outRow[o] = "running" <=> OutOn(o)

(* Rows and engine agree, except for the pipes P, the inputs I and the        *)
(* outputs O.                                                                 *)
True(P, I, O) ==
  /\ HubClean /\ Rowed /\ Unjammed
  /\ \A p \in PipeIds \ P : RowHolds(p)
  /\ InsTrue(I) /\ OutsTrue(O)

Calm == True({}, {}, {})

(* Pipes that were stopped and whose rows still say running.                  *)
Dead(P) ==
  P \subseteq PipeIds /\ \A p \in P : Exists(p) /\ IsRunning(p) /\ ~PipeOn(pipeRow[p].in, pipeRow[p].out)

Settling(P) == Dead(P) /\ True(P, {}, {})

-----------------------------------------------------------------------------
(* The programs of the requests, as Ask issues them.                          *)
CreatePipeProg(p, i, o) ==
  <<On("needOut", o), For("checkPair", i, o), On("checkOut", o), On("insertPipe", <<p, i, o>>)>>
UpdatePipeProg(p, i, o) == <<On("needIn", i), On("needOut", o), On("savePipe", <<p, i, o>>)>>
DeletePipeProg(p, i, o) == <<For("disconnect", i, o), On("dropPipe", p)>>
BeginPipeProg(p, i, o) ==
  StartPipeProg(i, o) \o StatusProg(i, o, "running") \o <<Set("setPipe", p, "running")>>
EndPipeProg(p, i, o) == <<For("disconnect", i, o), Set("setPipe", p, "stopped")>>
DeleteInputProg(i) == <<On("removeIn", i), On("dropIn", i)>>
DeleteOutputProg(o) == <<On("removeOut", o), On("dropOut", o)>>
StopInputProg(i) == <<On("removeIn", i), Set("setIn", i, "stopped"), On("cascadeIn", i)>>
StopOutputProg(o) == <<On("removeOut", o), Set("setOut", o, "stopped"), On("cascadeOut", o)>>

\* The rounds of a cascade.
OutRound(p, o) == <<Set("setPipe", p, "stopped"), On("orphanOut", o)>>
InRound(p, i) == <<Set("setPipe", p, "stopped"), On("orphanIn", i)>>

-----------------------------------------------------------------------------
(* Where the handler of goroutine c is, and what holds there.                 *)
OutsOf(P) == {<<p, pipeRow[p].out>> : p \in P}
InsOf(P) == {<<p, pipeRow[p].in>> : p \in P}

\* What is left of a handler that has stopped things, with the rows of the dead
\* pipes P still to be set.
Rest(q, P) ==
  \/ P = {} /\ q = <<>>
  \/ P = {} /\ \E o \in Outputs : q = <<On("orphanOut", o)>>
  \/ q = <<On("eachOut", OutsOf(P))>>
  \/ q = <<On("eachIn", InsOf(P))>>

Resting(c) == \E P \in SUBSET PipeIds : Settling(P) /\ Rest(prog[c], P)

\* stopOrphanedInput, stopOrphanedOutput.
OrphaningIn(c) ==
  \E q \in Seq(Instr), P \in SUBSET PipeIds, i \in Inputs :
    Settling(P) /\ Rest(q, P) /\ prog[c] = <<On("orphanIn", i)>> \o q
OrphaningOut(c) ==
  \E q \in Seq(Instr), P \in SUBSET PipeIds, o \in Outputs :
    Settling(P) /\ Rest(q, P) /\ prog[c] = <<On("orphanOut", o)>> \o q

LosingIn(c) ==
  \E q \in Seq(Instr), P \in SUBSET PipeIds, i \in Inputs, k \in 1 .. 2 :
    /\ Dead(P) /\ Rest(q, P) /\ prog[c] = After(DropIn(i), q, k)
    /\ ~InUse(i) /\ True(P, IF k = 2 THEN {i} ELSE {}, {})
    /\ k = 2 => ~InOn(i)
LosingOut(c) ==
  \E q \in Seq(Instr), P \in SUBSET PipeIds, o \in Outputs, k \in 1 .. 2 :
    /\ Dead(P) /\ Rest(q, P) /\ prog[c] = After(DropOut(o), q, k)
    /\ ~OutInUse(o) /\ True(P, {}, IF k = 2 THEN {o} ELSE {})
    /\ k = 2 => ~OutOn(o)

\* The dead pipe p is next in a cascade.
MarkingOut(c) ==
  \E P \in SUBSET PipeIds, p \in PipeIds, o \in Outputs :
    /\ Settling(P) /\ p \in P
    /\ prog[c] = After(OutRound(p, o), <<On("eachOut", OutsOf(P \ {p}))>>, 1)
MarkingIn(c) ==
  \E P \in SUBSET PipeIds, p \in PipeIds, i \in Inputs :
    /\ Settling(P) /\ p \in P
    /\ prog[c] = After(InRound(p, i), <<On("eachIn", InsOf(P \ {p}))>>, 1)

\* PipeService.
CreatingPipe(c) ==
  \E p \in PipeIds, i \in Inputs, o \in Outputs, k \in 1 .. 4 :
    prog[c] = After(CreatePipeProg(p, i, o), <<>>, k) /\ Calm /\ p \notin unborn /\ ~Exists(p)
UpdatingPipe(c) ==
  \E p \in PipeIds, i \in Inputs, o \in Outputs, k \in 1 .. 3 :
    prog[c] = After(UpdatePipeProg(p, i, o), <<>>, k) /\ Calm /\ Exists(p) /\ ~IsRunning(p)

RowIs(p, i, o) == Exists(p) /\ pipeRow[p].in = i /\ pipeRow[p].out = o

DeletingPipe(c) ==
  \E p \in PipeIds, i \in Inputs, o \in Outputs, k \in 1 .. 2 :
    prog[c] = After(DeletePipeProg(p, i, o), <<>>, k) /\ Calm /\ RowIs(p, i, o) /\ ~IsRunning(p)

StoppingPipe(c) ==
  \E p \in PipeIds, i \in Inputs, o \in Outputs, k \in 1 .. 2 :
    /\ prog[c] = After(EndPipeProg(p, i, o), OrphanProg(i, o), k) /\ RowIs(p, i, o) /\ IsRunning(p)
    /\ k = 1 => Calm
    /\ k = 2 => Settling({p})

\* Before the k-th instruction of Start.
StartFacts(c, k, p, i, o) ==
  /\ RowIs(p, i, o) /\ ~IsRunning(p)
  /\ True(IF k >= 12 THEN {p} ELSE {}, IF k \in 10 .. 12 THEN {i} ELSE {}, IF k \in 8 .. 13 THEN {o} ELSE {})
  /\ k >= 2 => inRow[i] # "none"
  /\ k >= 3 => outRow[o] # "none"
  /\ k >= 6 => pipes[<<i, o>>] # 0
  /\ k = 7 => held[c] = <<"snk", sinks[o]>>
  /\ k >= 8 /\ Sure => OutOn(o)
  /\ k = 9 => held[c] = <<"src", sources[i]>>
  /\ k >= 10 /\ Sure => InOn(i)
  /\ k = 11 => held[c] = <<"pipe", pipes[<<i, o>>]>>
  /\ k >= 12 => PipeOn(i, o) \/ Jammed(i, o)
  /\ k >= 13 => inRow[i] = "running"
  /\ k >= 14 => outRow[o] = "running"

BeginningPipe(c) ==
  \E p \in PipeIds, i \in Inputs, o \in Outputs, k \in 1 .. 14 :
    prog[c] = After(BeginPipeProg(p, i, o), <<>>, k) /\ StartFacts(c, k, p, i, o)

\* InputService.
CreatingInput(c) ==
  \E i \in Inputs : Calm /\ i \notin unborn /\ inRow[i] = "none" /\ prog[c] = <<On("insertIn", i)>>
UpdatingInput(c) == \E i \in Inputs : Calm /\ inRow[i] # "none" /\ prog[c] = <<Set("saveIn", i, inRow[i])>>
DeletingInput(c) ==
  \E i \in Inputs, k \in 1 .. 2 :
    /\ prog[c] = After(DeleteInputProg(i), <<>>, k) /\ inRow[i] = "stopped"
    /\ True({}, IF k = 2 THEN {i} ELSE {}, {})
    /\ k = 2 => ~InOn(i)
BeginningInput(c) ==
  \E i \in Inputs, k \in 1 .. 4 :
    /\ prog[c] = After(StartInputProg(i), <<>>, k)
    /\ True({}, IF k = 4 THEN {i} ELSE {}, {})
    /\ k >= 2 => inRow[i] # "none"
    /\ k = 3 => sources[i] # 0 /\ held[c] = <<"src", sources[i]>>
    /\ k = 4 => InOn(i)
StoppingInput(c) ==
  \E i \in Inputs, P \in SUBSET PipeIds, k \in 1 .. 3 :
    /\ prog[c] = After(StopInputProg(i), <<>>, k) /\ P = {p \in PipesOf(i) : IsRunning(p)}
    /\ k = 1 => Calm
    /\ k >= 2 => Dead(P) /\ ~InOn(i) /\ True(P, IF k = 2 THEN {i} ELSE {}, {})

\* OutputService.
CreatingOutput(c) ==
  \E o \in Outputs : Calm /\ o \notin unborn /\ outRow[o] = "none" /\ prog[c] = <<On("insertOut", o)>>
UpdatingOutput(c) == \E o \in Outputs : Calm /\ outRow[o] # "none" /\ prog[c] = <<Set("saveOut", o, outRow[o])>>
DeletingOutput(c) ==
  \E o \in Outputs, k \in 1 .. 2 :
    /\ prog[c] = After(DeleteOutputProg(o), <<>>, k) /\ outRow[o] = "stopped"
    /\ True({}, {}, IF k = 2 THEN {o} ELSE {})
    /\ k = 2 => ~OutOn(o)
BeginningOutput(c) ==
  \E o \in Outputs, k \in 1 .. 4 :
    /\ prog[c] = After(StartOutputProg(o), <<>>, k)
    /\ True({}, {}, IF k = 4 THEN {o} ELSE {})
    /\ k >= 2 => outRow[o] # "none"
    /\ k = 3 => sinks[o] # 0 /\ held[c] = <<"snk", sinks[o]>>
    /\ k = 4 => OutOn(o)
StoppingOutput(c) ==
  \E o \in Outputs, P \in SUBSET PipeIds, k \in 1 .. 3 :
    /\ prog[c] = After(StopOutputProg(o), <<>>, k) /\ P = {p \in PipesTo(o) : IsRunning(p)}
    /\ k = 1 => Calm
    /\ k >= 2 => Dead(P) /\ ~OutOn(o) /\ True(P, {}, IF k = 2 THEN {o} ELSE {})

ClientInv(c) ==
  \/ Resting(c) \/ OrphaningIn(c) \/ OrphaningOut(c) \/ LosingIn(c) \/ LosingOut(c)
  \/ MarkingIn(c) \/ MarkingOut(c)
  \/ CreatingPipe(c) \/ UpdatingPipe(c) \/ DeletingPipe(c) \/ BeginningPipe(c) \/ StoppingPipe(c)
  \/ CreatingInput(c) \/ UpdatingInput(c) \/ DeletingInput(c) \/ BeginningInput(c) \/ StoppingInput(c)
  \/ CreatingOutput(c) \/ UpdatingOutput(c) \/ DeletingOutput(c) \/ BeginningOutput(c) \/ StoppingOutput(c)

(* Ids no Create request has used have no rows.                               *)
Unused ==
  /\ \A i \in Inputs : i \in unborn => inRow[i] = "none"
  /\ \A o \in Outputs : o \in unborn => outRow[o] = "none"
  /\ \A p \in PipeIds : p \in unborn => ~Exists(p)

\* Programs make rows only under ids that a Create request was given.
Known ==
  {m \in Instr : /\ m.op \in {"insertIn", "saveIn", "insertOut", "saveOut"} => m.x \notin unborn
                 /\ m.op \in {"insertPipe", "savePipe"} => m.x[1] \notin unborn}
OnlyKnown == \A c \in Callers : prog[c] \in Seq(Known)

(* One goroutine is at work, and its place says what may be wrong.            *)
TurnInv ==
  /\ Unused /\ OnlyKnown
  /\ \E c \in Callers : /\ \A d \in Callers \ {c} : Idle(d)
                        /\ IF c = Boot THEN BootInv ELSE ClientInv(c)

-----------------------------------------------------------------------------
(* Handlers' instructions that Restore does not use.                          *)
LEMMA ChecksDo ==
  ASSUME NEW c \in Callers, Exec(c), At(c, "checkPair") \/ At(c, "checkOut")
  PROVE  Still /\ (Continue(c) \/ Fail(c))
<1> USE DEF At, Exec, Need, Orphan, Query, Loop, Loops, Done, UpdateStatus, InsertOrSave, WritePipe, Drop,
            Create, ConnectPipe, Remove, Find, Open, Run, StartPipe, RequestPanics
<1>1. Need(c)
  OBVIOUS
<1> QED
  BY <1>1 DEF Still

LEMMA CascadesDo ==
  ASSUME NEW c \in Callers, Exec(c)
  PROVE  /\ At(c, "cascadeIn") =>
              /\ Still
              /\ Become(c, <<On("eachOut", {<<p, pipeRow[p].out>> : p \in {q \in PipesOf(Arg(c)) : IsRunning(q)}})>>)
         /\ At(c, "cascadeOut") =>
              /\ Still
              /\ Become(c, <<On("eachIn", {<<p, pipeRow[p].in>> : p \in {q \in PipesTo(Arg(c)) : IsRunning(q)}})>>)
<1> USE DEF At, Exec, Need, Orphan, Query, Loop, Loops, Done, UpdateStatus, InsertOrSave, WritePipe, Drop,
            Create, ConnectPipe, Remove, Find, Open, Run, StartPipe, RequestPanics
<1>1. At(c, "cascadeIn") => Query(c) /\ \A op : At(c, op) => op = "cascadeIn"
  OBVIOUS
<1>2. At(c, "cascadeOut") => Query(c) /\ \A op : At(c, op) => op = "cascadeOut"
  OBVIOUS
<1> HIDE DEF At, Exec
<1> QED
  BY <1>1, <1>2 DEF Still

LEMMA InsertsDo ==
  ASSUME NEW c \in Callers, Exec(c)
  PROVE  /\ At(c, "insertIn") =>
              /\ SameHub /\ UNCHANGED <<outRow, pipeRow, unborn>> /\ Continue(c)
              /\ inRow' = [inRow EXCEPT ![Arg(c)] = "stopped"]
         /\ At(c, "saveIn") =>
              /\ SameHub /\ UNCHANGED <<outRow, pipeRow, unborn>> /\ Continue(c)
              /\ inRow' = [inRow EXCEPT ![Arg(c)] = prog[c][1].st]
         /\ At(c, "dropIn") =>
              /\ SameHub /\ UNCHANGED <<outRow, pipeRow, unborn>> /\ Continue(c)
              /\ inRow' = [inRow EXCEPT ![Arg(c)] = "none"]
         /\ At(c, "insertOut") =>
              /\ SameHub /\ UNCHANGED <<inRow, pipeRow, unborn>> /\ Continue(c)
              /\ outRow' = [outRow EXCEPT ![Arg(c)] = "stopped"]
         /\ At(c, "saveOut") =>
              /\ SameHub /\ UNCHANGED <<inRow, pipeRow, unborn>> /\ Continue(c)
              /\ outRow' = [outRow EXCEPT ![Arg(c)] = prog[c][1].st]
         /\ At(c, "dropOut") =>
              /\ SameHub /\ UNCHANGED <<inRow, pipeRow, unborn>> /\ Continue(c)
              /\ outRow' = [outRow EXCEPT ![Arg(c)] = "none"]
         /\ At(c, "dropPipe") =>
              /\ SameHub /\ UNCHANGED <<inRow, outRow, unborn>> /\ Continue(c)
              /\ pipeRow' = [pipeRow EXCEPT ![Arg(c)] = NoRow]
<1> USE DEF At, Exec, Need, Orphan, Query, Loop, Loops, Done, UpdateStatus, InsertOrSave, WritePipe, Drop,
            Create, ConnectPipe, Remove, Find, Open, Run, StartPipe, RequestPanics
<1>1. ASSUME NEW op \in {"insertIn", "saveIn", "insertOut", "saveOut"}, At(c, op)
      PROVE  InsertOrSave(c) /\ \A oq : At(c, oq) => oq = op
  BY <1>1
<1>2. ASSUME NEW op \in {"dropIn", "dropOut", "dropPipe"}, At(c, op)
      PROVE  Drop(c) /\ \A oq : At(c, oq) => oq = op
  BY <1>2
<1> HIDE DEF At, Exec
<1> QED
  BY <1>1, <1>2

LEMMA PipeWritesDo ==
  ASSUME NEW c \in Callers, Exec(c), At(c, "insertPipe") \/ At(c, "savePipe")
  PROVE  /\ SameHub /\ UNCHANGED <<inRow, outRow, unborn>>
         /\ \/ /\ PairFree(Arg(c)[1], Arg(c)[2], Arg(c)[3]) /\ Continue(c)
               /\ pipeRow' = [pipeRow EXCEPT ![Arg(c)[1]] = [in |-> Arg(c)[2], out |-> Arg(c)[3], st |-> "stopped"]]
            \/ UNCHANGED pipeRow /\ Fail(c)
<1> USE DEF At, Exec, Need, Orphan, Query, Loop, Loops, Done, UpdateStatus, InsertOrSave, Drop,
            Create, ConnectPipe, Remove, Find, Open, Run, StartPipe, RequestPanics
<1>1. WritePipe(c)
  OBVIOUS
<1> HIDE DEF At, Exec
<1> QED
  BY <1>1 DEF WritePipe

-----------------------------------------------------------------------------
(* The programs, instruction by instruction.                                  *)
LEMMA WordStep ==
  ASSUME ProgTyped, NEW c \in Callers, NEW w \in Seq(Instr), NEW rest \in Seq(Instr), NEW k \in 1 .. Len(w),
         prog[c] = After(w, rest, k)
  PROVE  /\ prog[c] # <<>> /\ prog[c][1] = w[k] /\ Arg(c) = w[k].x /\ At(c, w[k].op)
         /\ Continue(c) => prog'[c] = After(w, rest, k + 1)
         /\ Continue(c) /\ k = Len(w) => prog'[c] = rest
         /\ \A v \in Seq(Instr) : v # <<>> /\ Become(c, v) => prog'[c] = After(v, After(w, rest, k + 1), 1)
<1>1. prog[c] # <<>> /\ prog[c][1] = w[k] /\ Arg(c) = w[k].x /\ At(c, w[k].op)
  BY HeadIs
<1>2. Continue(c) => prog'[c] = After(w, rest, k + 1)
  BY GoOn
<1>3. After(w, rest, Len(w) + 1) = rest
  BY AfterEnds
<1>4. \A v \in Seq(Instr) : v # <<>> /\ Become(c, v) => prog'[c] = After(v, After(w, rest, k + 1), 1)
  BY GoInto
<1> QED
  BY <1>1, <1>2, <1>3, <1>4

LEMMA GivesUp ==
  ASSUME ProgTyped, NEW c \in Callers, NEW w \in Seq(Instr), NEW k \in 1 .. Len(w),
         \A j \in 1 .. Len(w) : w[j].op \notin Catches,
         prog[c] = After(w, <<>>, k), Fail(c)
  PROVE  prog'[c] = <<>>
<1>1. w \o <<>> = w /\ Len(w) \in Nat
  BY ConcatEmptySeq, LenProperties
<1>2. PICK q : q = SubSeq(w, k, Len(w))
  OBVIOUS
<1>3. \A j \in k .. Len(w) : w[j] \in Instr
  BY ElementOfSeq
<1>4. /\ q \in Seq(Instr) /\ Len(q) = Len(w) - k + 1
      /\ \A j \in 1 .. Len(w) - k + 1 : q[j] = w[k + j - 1]
  <2>1. k \in Int /\ Len(w) \in Int /\ k <= Len(w)
    BY <1>1
  <2> QED
    BY <1>2, <1>3, <2>1, SubSeqProperties
<1>5. prog[c] = q
  BY <1>1, <1>2 DEF After
<1>6. DOMAIN q = 1 .. Len(w) - k + 1
  BY <1>4, LenProperties
<1>7. \A j \in DOMAIN q : q[j].op \notin Catches
  <2>1. TAKE j \in DOMAIN q
  <2>2. q[j] = w[k + j - 1] /\ k + j - 1 \in 1 .. Len(w)
    BY <1>1, <1>4, <1>6
  <2> QED
    BY <2>2
<1>8. Unwind(q) = <<>>
  BY <1>7 DEF Unwind
<1> QED
  BY <1>5, <1>8 DEF Fail, ProgTyped

LEMMA AfterLast ==
  ASSUME NEW w \in Seq(Instr), NEW rest \in Seq(Instr), Len(w) # 0
  PROVE  After(w, rest, Len(w)) = <<w[Len(w)]>> \o rest
<1>1. Len(w) \in 1 .. Len(w) /\ Len(w) \in Nat
  BY LenProperties
<1>2. PICK q : q = After(w, rest, Len(w))
  OBVIOUS
<1>3. q \in Seq(Instr) /\ q # <<>> /\ q[1] = w[Len(w)] /\ Tail(q) = rest
  <2>1. After(w, rest, Len(w) + 1) = rest
    BY AfterEnds
  <2> QED
    BY <1>1, <1>2, <2>1, AfterParts
<1>4. PICK r : r = <<w[Len(w)]>> \o rest
  OBVIOUS
<1>5. w[Len(w)] \in Instr
  BY <1>1, ElementOfSeq
<1>6. /\ r \in Seq(Instr) /\ Len(r) = 1 + Len(rest) /\ Len(rest) \in Nat
      /\ \A j \in 1 .. 1 + Len(rest) : r[j] = IF j <= 1 THEN w[Len(w)] ELSE rest[j - 1]
  <2>1. PICK a : a = w[Len(w)]
    OBVIOUS
  <2>2. <<a>> \in Seq(Instr) /\ Len(<<a>>) = 1 /\ <<a>>[1] = a
    BY <1>5, <2>1
  <2>3. r = <<a>> \o rest
    BY <1>4, <2>1
  <2>4. /\ r \in Seq(Instr) /\ Len(r) = Len(<<a>>) + Len(rest)
        /\ \A j \in 1 .. Len(<<a>>) + Len(rest) : r[j] = IF j <= Len(<<a>>) THEN <<a>>[j] ELSE rest[j - Len(<<a>>)]
    BY <2>2, <2>3, ConcatProperties
  <2>5. Len(rest) \in Nat
    BY LenProperties
  <2>6. \A j \in 1 .. 1 + Len(rest) : j <= 1 => j = 1
    OBVIOUS
  <2> QED
    BY <2>1, <2>2, <2>4, <2>5, <2>6
<1>7. Len(q) \in Nat /\ Len(q) = 1 + Len(rest) /\ \A j \in 1 .. Len(rest) : rest[j] = q[j + 1]
  <2>1. Len(Tail(q)) = Len(q) - 1 /\ \A j \in 1 .. Len(Tail(q)) : Tail(q)[j] = q[j + 1]
    BY <1>3, HeadTailProperties
  <2>2. Len(q) \in Nat
    BY <1>3, LenProperties
  <2>3. Len(rest) = Len(q) - 1
    BY <1>3, <2>1
  <2>4. \A j \in 1 .. Len(rest) : rest[j] = q[j + 1]
    BY <1>3, <2>1
  <2>5. Len(q) = 1 + Len(rest)
    BY <2>2, <2>3
  <2> QED
    BY <2>2, <2>4, <2>5
<1>8. \A j \in 1 .. 1 + Len(rest) : r[j] = q[j]
  <2>1. TAKE j \in 1 .. 1 + Len(rest)
  <2>2. CASE j = 1
    BY <1>3, <1>6, <2>2
  <2>3. CASE j # 1
    <3>1. j - 1 \in 1 .. Len(rest) /\ ~(j <= 1) /\ (j - 1) + 1 = j
      BY <1>6, <2>3
    <3>2. r[j] = rest[j - 1]
      BY <1>6, <3>1
    <3>3. rest[j - 1] = q[(j - 1) + 1]
      BY <1>7, <3>1
    <3> QED
      BY <3>1, <3>2, <3>3
  <2> QED
    BY <2>2, <2>3
<1>9. q = r
  BY <1>3, <1>6, <1>7, <1>8, SeqEqual
<1> QED
  BY <1>2, <1>4, <1>9

-----------------------------------------------------------------------------
(* The words, instruction by instruction.                                     *)
\* Nothing in w catches an error.
Plain(w) == \A j \in 1 .. Len(w) : w[j].op \notin Catches

LEMMA PlainStep ==
  ASSUME ProgTyped, NEW c \in Callers, NEW w \in Seq(Instr), NEW k \in 1 .. Len(w), Plain(w),
         prog[c] = After(w, <<>>, k)
  PROVE  /\ prog[c] # <<>> /\ prog[c][1] = w[k] /\ Arg(c) = w[k].x /\ At(c, w[k].op)
         /\ Continue(c) => prog'[c] = After(w, <<>>, k + 1)
         /\ Continue(c) /\ k = Len(w) => prog'[c] = <<>>
         /\ Fail(c) => prog'[c] = <<>>
<1>1. Fail(c) => prog'[c] = <<>>
  BY GivesUp DEF Plain
<1>2. PICK rest : rest = <<>>
  OBVIOUS
<1>3. rest \in Seq(Instr) /\ prog[c] = After(w, rest, k)
  BY <1>2
<1>4. /\ prog[c] # <<>> /\ prog[c][1] = w[k] /\ Arg(c) = w[k].x /\ At(c, w[k].op)
      /\ Continue(c) => prog'[c] = After(w, rest, k + 1)
      /\ Continue(c) /\ k = Len(w) => prog'[c] = rest
  BY <1>3, WordStep
<1> QED
  BY <1>1, <1>2, <1>4

LEMMA CreatePipeIs ==
  ASSUME NEW p \in PipeIds, NEW i \in Inputs, NEW o \in Outputs
  PROVE  /\ CreatePipeProg(p, i, o) \in Seq(Instr) /\ Len(CreatePipeProg(p, i, o)) = 4 /\ CreatePipeProg(p, i, o) # <<>> /\ Plain(CreatePipeProg(p, i, o))
         /\ CreatePipeProg(p, i, o)[1] = On("needOut", o)
         /\ CreatePipeProg(p, i, o)[2] = For("checkPair", i, o)
         /\ CreatePipeProg(p, i, o)[3] = On("checkOut", o)
         /\ CreatePipeProg(p, i, o)[4] = On("insertPipe", <<p, i, o>>)
<1>1. /\ On("needOut", o) \in Instr /\ For("checkPair", i, o) \in Instr /\ On("checkOut", o) \in Instr
      /\ On("insertPipe", <<p, i, o>>) \in Instr
  BY PlainInstr, StampedInstr DEF InOps, OutOps, KeyOps, PipeOps, Status, Triples
<1>2. /\ CreatePipeProg(p, i, o) \in Seq(Instr) /\ Len(CreatePipeProg(p, i, o)) = 4 /\ CreatePipeProg(p, i, o) # <<>>
      /\ CreatePipeProg(p, i, o)[1] = On("needOut", o)
      /\ CreatePipeProg(p, i, o)[2] = For("checkPair", i, o)
      /\ CreatePipeProg(p, i, o)[3] = On("checkOut", o)
      /\ CreatePipeProg(p, i, o)[4] = On("insertPipe", <<p, i, o>>)
  BY <1>1 DEF CreatePipeProg
<1>3. /\ On("needOut", o).op \notin Catches /\ For("checkPair", i, o).op \notin Catches
      /\ On("checkOut", o).op \notin Catches /\ On("insertPipe", <<p, i, o>>).op \notin Catches
  BY DEF Catches, On, For, Set
<1>4. Plain(CreatePipeProg(p, i, o))
  <2>1. \A j \in 1 .. 4 : j = 1 \/ j = 2 \/ j = 3 \/ j = 4
    OBVIOUS
  <2> QED
    BY <1>2, <1>3, <2>1 DEF Plain
<1> QED
  BY <1>2, <1>4

LEMMA UpdatePipeIs ==
  ASSUME NEW p \in PipeIds, NEW i \in Inputs, NEW o \in Outputs
  PROVE  /\ UpdatePipeProg(p, i, o) \in Seq(Instr) /\ Len(UpdatePipeProg(p, i, o)) = 3 /\ UpdatePipeProg(p, i, o) # <<>> /\ Plain(UpdatePipeProg(p, i, o))
         /\ UpdatePipeProg(p, i, o)[1] = On("needIn", i)
         /\ UpdatePipeProg(p, i, o)[2] = On("needOut", o)
         /\ UpdatePipeProg(p, i, o)[3] = On("savePipe", <<p, i, o>>)
<1>1. /\ On("needIn", i) \in Instr /\ On("needOut", o) \in Instr /\ On("savePipe", <<p, i, o>>) \in Instr
  BY PlainInstr, StampedInstr DEF InOps, OutOps, KeyOps, PipeOps, Status, Triples
<1>2. /\ UpdatePipeProg(p, i, o) \in Seq(Instr) /\ Len(UpdatePipeProg(p, i, o)) = 3 /\ UpdatePipeProg(p, i, o) # <<>>
      /\ UpdatePipeProg(p, i, o)[1] = On("needIn", i)
      /\ UpdatePipeProg(p, i, o)[2] = On("needOut", o)
      /\ UpdatePipeProg(p, i, o)[3] = On("savePipe", <<p, i, o>>)
  BY <1>1 DEF UpdatePipeProg
<1>3. /\ On("needIn", i).op \notin Catches /\ On("needOut", o).op \notin Catches
      /\ On("savePipe", <<p, i, o>>).op \notin Catches
  BY DEF Catches, On, For, Set
<1>4. Plain(UpdatePipeProg(p, i, o))
  <2>1. \A j \in 1 .. 3 : j = 1 \/ j = 2 \/ j = 3
    OBVIOUS
  <2> QED
    BY <1>2, <1>3, <2>1 DEF Plain
<1> QED
  BY <1>2, <1>4

LEMMA DeletePipeIs ==
  ASSUME NEW p \in PipeIds, NEW i \in Inputs, NEW o \in Outputs
  PROVE  /\ DeletePipeProg(p, i, o) \in Seq(Instr) /\ Len(DeletePipeProg(p, i, o)) = 2 /\ DeletePipeProg(p, i, o) # <<>> /\ Plain(DeletePipeProg(p, i, o))
         /\ DeletePipeProg(p, i, o)[1] = For("disconnect", i, o)
         /\ DeletePipeProg(p, i, o)[2] = On("dropPipe", p)
<1>1. /\ For("disconnect", i, o) \in Instr /\ On("dropPipe", p) \in Instr
  BY PlainInstr, StampedInstr DEF InOps, OutOps, KeyOps, PipeOps, Status, Triples
<1>2. /\ DeletePipeProg(p, i, o) \in Seq(Instr) /\ Len(DeletePipeProg(p, i, o)) = 2 /\ DeletePipeProg(p, i, o) # <<>>
      /\ DeletePipeProg(p, i, o)[1] = For("disconnect", i, o)
      /\ DeletePipeProg(p, i, o)[2] = On("dropPipe", p)
  BY <1>1 DEF DeletePipeProg
<1>3. /\ For("disconnect", i, o).op \notin Catches /\ On("dropPipe", p).op \notin Catches
  BY DEF Catches, On, For, Set
<1>4. Plain(DeletePipeProg(p, i, o))
  <2>1. \A j \in 1 .. 2 : j = 1 \/ j = 2
    OBVIOUS
  <2> QED
    BY <1>2, <1>3, <2>1 DEF Plain
<1> QED
  BY <1>2, <1>4

LEMMA EndPipeIs ==
  ASSUME NEW p \in PipeIds, NEW i \in Inputs, NEW o \in Outputs
  PROVE  /\ EndPipeProg(p, i, o) \in Seq(Instr) /\ Len(EndPipeProg(p, i, o)) = 2 /\ EndPipeProg(p, i, o) # <<>> /\ Plain(EndPipeProg(p, i, o))
         /\ EndPipeProg(p, i, o)[1] = For("disconnect", i, o)
         /\ EndPipeProg(p, i, o)[2] = Set("setPipe", p, "stopped")
<1>1. /\ For("disconnect", i, o) \in Instr /\ Set("setPipe", p, "stopped") \in Instr
  BY PlainInstr, StampedInstr DEF InOps, OutOps, KeyOps, PipeOps, Status, Triples
<1>2. /\ EndPipeProg(p, i, o) \in Seq(Instr) /\ Len(EndPipeProg(p, i, o)) = 2 /\ EndPipeProg(p, i, o) # <<>>
      /\ EndPipeProg(p, i, o)[1] = For("disconnect", i, o)
      /\ EndPipeProg(p, i, o)[2] = Set("setPipe", p, "stopped")
  BY <1>1 DEF EndPipeProg
<1>3. /\ For("disconnect", i, o).op \notin Catches /\ Set("setPipe", p, "stopped").op \notin Catches
  BY DEF Catches, On, For, Set
<1>4. Plain(EndPipeProg(p, i, o))
  <2>1. \A j \in 1 .. 2 : j = 1 \/ j = 2
    OBVIOUS
  <2> QED
    BY <1>2, <1>3, <2>1 DEF Plain
<1> QED
  BY <1>2, <1>4

LEMMA DeleteInputIs ==
  ASSUME NEW i \in Inputs
  PROVE  /\ DeleteInputProg(i) \in Seq(Instr) /\ Len(DeleteInputProg(i)) = 2 /\ DeleteInputProg(i) # <<>> /\ Plain(DeleteInputProg(i))
         /\ DeleteInputProg(i)[1] = On("removeIn", i)
         /\ DeleteInputProg(i)[2] = On("dropIn", i)
<1>1. /\ On("removeIn", i) \in Instr /\ On("dropIn", i) \in Instr
  BY PlainInstr, StampedInstr DEF InOps, OutOps, KeyOps, PipeOps, Status, Triples
<1>2. /\ DeleteInputProg(i) \in Seq(Instr) /\ Len(DeleteInputProg(i)) = 2 /\ DeleteInputProg(i) # <<>>
      /\ DeleteInputProg(i)[1] = On("removeIn", i)
      /\ DeleteInputProg(i)[2] = On("dropIn", i)
  BY <1>1 DEF DeleteInputProg
<1>3. /\ On("removeIn", i).op \notin Catches /\ On("dropIn", i).op \notin Catches
  BY DEF Catches, On, For, Set
<1>4. Plain(DeleteInputProg(i))
  <2>1. \A j \in 1 .. 2 : j = 1 \/ j = 2
    OBVIOUS
  <2> QED
    BY <1>2, <1>3, <2>1 DEF Plain
<1> QED
  BY <1>2, <1>4

LEMMA DeleteOutputIs ==
  ASSUME NEW o \in Outputs
  PROVE  /\ DeleteOutputProg(o) \in Seq(Instr) /\ Len(DeleteOutputProg(o)) = 2 /\ DeleteOutputProg(o) # <<>> /\ Plain(DeleteOutputProg(o))
         /\ DeleteOutputProg(o)[1] = On("removeOut", o)
         /\ DeleteOutputProg(o)[2] = On("dropOut", o)
<1>1. /\ On("removeOut", o) \in Instr /\ On("dropOut", o) \in Instr
  BY PlainInstr, StampedInstr DEF InOps, OutOps, KeyOps, PipeOps, Status, Triples
<1>2. /\ DeleteOutputProg(o) \in Seq(Instr) /\ Len(DeleteOutputProg(o)) = 2 /\ DeleteOutputProg(o) # <<>>
      /\ DeleteOutputProg(o)[1] = On("removeOut", o)
      /\ DeleteOutputProg(o)[2] = On("dropOut", o)
  BY <1>1 DEF DeleteOutputProg
<1>3. /\ On("removeOut", o).op \notin Catches /\ On("dropOut", o).op \notin Catches
  BY DEF Catches, On, For, Set
<1>4. Plain(DeleteOutputProg(o))
  <2>1. \A j \in 1 .. 2 : j = 1 \/ j = 2
    OBVIOUS
  <2> QED
    BY <1>2, <1>3, <2>1 DEF Plain
<1> QED
  BY <1>2, <1>4

LEMMA BeginInputIs ==
  ASSUME NEW i \in Inputs
  PROVE  /\ StartInputProg(i) \in Seq(Instr) /\ Len(StartInputProg(i)) = 4 /\ StartInputProg(i) # <<>> /\ Plain(StartInputProg(i))
         /\ StartInputProg(i)[1] = On("needIn", i)
         /\ StartInputProg(i)[2] = On("openIn", i)
         /\ StartInputProg(i)[3] = On("runInOrFail", i)
         /\ StartInputProg(i)[4] = Set("setIn", i, "running")
<1>1. /\ On("needIn", i) \in Instr /\ On("openIn", i) \in Instr /\ On("runInOrFail", i) \in Instr
      /\ Set("setIn", i, "running") \in Instr
  BY PlainInstr, StampedInstr DEF InOps, OutOps, KeyOps, PipeOps, Status, Triples
<1>2. /\ StartInputProg(i) \in Seq(Instr) /\ Len(StartInputProg(i)) = 4 /\ StartInputProg(i) # <<>>
      /\ StartInputProg(i)[1] = On("needIn", i)
      /\ StartInputProg(i)[2] = On("openIn", i)
      /\ StartInputProg(i)[3] = On("runInOrFail", i)
      /\ StartInputProg(i)[4] = Set("setIn", i, "running")
  BY <1>1 DEF StartInputProg
<1>3. /\ On("needIn", i).op \notin Catches /\ On("openIn", i).op \notin Catches
      /\ On("runInOrFail", i).op \notin Catches /\ Set("setIn", i, "running").op \notin Catches
  BY DEF Catches, On, For, Set
<1>4. Plain(StartInputProg(i))
  <2>1. \A j \in 1 .. 4 : j = 1 \/ j = 2 \/ j = 3 \/ j = 4
    OBVIOUS
  <2> QED
    BY <1>2, <1>3, <2>1 DEF Plain
<1> QED
  BY <1>2, <1>4

LEMMA BeginOutputIs ==
  ASSUME NEW o \in Outputs
  PROVE  /\ StartOutputProg(o) \in Seq(Instr) /\ Len(StartOutputProg(o)) = 4 /\ StartOutputProg(o) # <<>> /\ Plain(StartOutputProg(o))
         /\ StartOutputProg(o)[1] = On("needOut", o)
         /\ StartOutputProg(o)[2] = On("openOut", o)
         /\ StartOutputProg(o)[3] = On("runOutOrFail", o)
         /\ StartOutputProg(o)[4] = Set("setOut", o, "running")
<1>1. /\ On("needOut", o) \in Instr /\ On("openOut", o) \in Instr /\ On("runOutOrFail", o) \in Instr
      /\ Set("setOut", o, "running") \in Instr
  BY PlainInstr, StampedInstr DEF InOps, OutOps, KeyOps, PipeOps, Status, Triples
<1>2. /\ StartOutputProg(o) \in Seq(Instr) /\ Len(StartOutputProg(o)) = 4 /\ StartOutputProg(o) # <<>>
      /\ StartOutputProg(o)[1] = On("needOut", o)
      /\ StartOutputProg(o)[2] = On("openOut", o)
      /\ StartOutputProg(o)[3] = On("runOutOrFail", o)
      /\ StartOutputProg(o)[4] = Set("setOut", o, "running")
  BY <1>1 DEF StartOutputProg
<1>3. /\ On("needOut", o).op \notin Catches /\ On("openOut", o).op \notin Catches
      /\ On("runOutOrFail", o).op \notin Catches /\ Set("setOut", o, "running").op \notin Catches
  BY DEF Catches, On, For, Set
<1>4. Plain(StartOutputProg(o))
  <2>1. \A j \in 1 .. 4 : j = 1 \/ j = 2 \/ j = 3 \/ j = 4
    OBVIOUS
  <2> QED
    BY <1>2, <1>3, <2>1 DEF Plain
<1> QED
  BY <1>2, <1>4

LEMMA StopInputIs ==
  ASSUME NEW i \in Inputs
  PROVE  /\ StopInputProg(i) \in Seq(Instr) /\ Len(StopInputProg(i)) = 3 /\ StopInputProg(i) # <<>> /\ Plain(StopInputProg(i))
         /\ StopInputProg(i)[1] = On("removeIn", i)
         /\ StopInputProg(i)[2] = Set("setIn", i, "stopped")
         /\ StopInputProg(i)[3] = On("cascadeIn", i)
<1>1. /\ On("removeIn", i) \in Instr /\ Set("setIn", i, "stopped") \in Instr /\ On("cascadeIn", i) \in Instr
  BY PlainInstr, StampedInstr DEF InOps, OutOps, KeyOps, PipeOps, Status, Triples
<1>2. /\ StopInputProg(i) \in Seq(Instr) /\ Len(StopInputProg(i)) = 3 /\ StopInputProg(i) # <<>>
      /\ StopInputProg(i)[1] = On("removeIn", i)
      /\ StopInputProg(i)[2] = Set("setIn", i, "stopped")
      /\ StopInputProg(i)[3] = On("cascadeIn", i)
  BY <1>1 DEF StopInputProg
<1>3. /\ On("removeIn", i).op \notin Catches /\ Set("setIn", i, "stopped").op \notin Catches
      /\ On("cascadeIn", i).op \notin Catches
  BY DEF Catches, On, For, Set
<1>4. Plain(StopInputProg(i))
  <2>1. \A j \in 1 .. 3 : j = 1 \/ j = 2 \/ j = 3
    OBVIOUS
  <2> QED
    BY <1>2, <1>3, <2>1 DEF Plain
<1> QED
  BY <1>2, <1>4

LEMMA StopOutputIs ==
  ASSUME NEW o \in Outputs
  PROVE  /\ StopOutputProg(o) \in Seq(Instr) /\ Len(StopOutputProg(o)) = 3 /\ StopOutputProg(o) # <<>> /\ Plain(StopOutputProg(o))
         /\ StopOutputProg(o)[1] = On("removeOut", o)
         /\ StopOutputProg(o)[2] = Set("setOut", o, "stopped")
         /\ StopOutputProg(o)[3] = On("cascadeOut", o)
<1>1. /\ On("removeOut", o) \in Instr /\ Set("setOut", o, "stopped") \in Instr
      /\ On("cascadeOut", o) \in Instr
  BY PlainInstr, StampedInstr DEF InOps, OutOps, KeyOps, PipeOps, Status, Triples
<1>2. /\ StopOutputProg(o) \in Seq(Instr) /\ Len(StopOutputProg(o)) = 3 /\ StopOutputProg(o) # <<>>
      /\ StopOutputProg(o)[1] = On("removeOut", o)
      /\ StopOutputProg(o)[2] = Set("setOut", o, "stopped")
      /\ StopOutputProg(o)[3] = On("cascadeOut", o)
  BY <1>1 DEF StopOutputProg
<1>3. /\ On("removeOut", o).op \notin Catches /\ Set("setOut", o, "stopped").op \notin Catches
      /\ On("cascadeOut", o).op \notin Catches
  BY DEF Catches, On, For, Set
<1>4. Plain(StopOutputProg(o))
  <2>1. \A j \in 1 .. 3 : j = 1 \/ j = 2 \/ j = 3
    OBVIOUS
  <2> QED
    BY <1>2, <1>3, <2>1 DEF Plain
<1> QED
  BY <1>2, <1>4

LEMMA OutRoundIs ==
  ASSUME NEW p \in PipeIds, NEW o \in Outputs
  PROVE  /\ OutRound(p, o) \in Seq(Instr) /\ Len(OutRound(p, o)) = 2 /\ OutRound(p, o) # <<>> /\ Plain(OutRound(p, o))
         /\ OutRound(p, o)[1] = Set("setPipe", p, "stopped")
         /\ OutRound(p, o)[2] = On("orphanOut", o)
<1>1. /\ Set("setPipe", p, "stopped") \in Instr /\ On("orphanOut", o) \in Instr
  BY PlainInstr, StampedInstr DEF InOps, OutOps, KeyOps, PipeOps, Status, Triples
<1>2. /\ OutRound(p, o) \in Seq(Instr) /\ Len(OutRound(p, o)) = 2 /\ OutRound(p, o) # <<>>
      /\ OutRound(p, o)[1] = Set("setPipe", p, "stopped")
      /\ OutRound(p, o)[2] = On("orphanOut", o)
  BY <1>1 DEF OutRound
<1>3. /\ Set("setPipe", p, "stopped").op \notin Catches /\ On("orphanOut", o).op \notin Catches
  BY DEF Catches, On, For, Set
<1>4. Plain(OutRound(p, o))
  <2>1. \A j \in 1 .. 2 : j = 1 \/ j = 2
    OBVIOUS
  <2> QED
    BY <1>2, <1>3, <2>1 DEF Plain
<1> QED
  BY <1>2, <1>4

LEMMA InRoundIs ==
  ASSUME NEW p \in PipeIds, NEW i \in Inputs
  PROVE  /\ InRound(p, i) \in Seq(Instr) /\ Len(InRound(p, i)) = 2 /\ InRound(p, i) # <<>> /\ Plain(InRound(p, i))
         /\ InRound(p, i)[1] = Set("setPipe", p, "stopped")
         /\ InRound(p, i)[2] = On("orphanIn", i)
<1>1. /\ Set("setPipe", p, "stopped") \in Instr /\ On("orphanIn", i) \in Instr
  BY PlainInstr, StampedInstr DEF InOps, OutOps, KeyOps, PipeOps, Status, Triples
<1>2. /\ InRound(p, i) \in Seq(Instr) /\ Len(InRound(p, i)) = 2 /\ InRound(p, i) # <<>>
      /\ InRound(p, i)[1] = Set("setPipe", p, "stopped")
      /\ InRound(p, i)[2] = On("orphanIn", i)
  BY <1>1 DEF InRound
<1>3. /\ Set("setPipe", p, "stopped").op \notin Catches /\ On("orphanIn", i).op \notin Catches
  BY DEF Catches, On, For, Set
<1>4. Plain(InRound(p, i))
  <2>1. \A j \in 1 .. 2 : j = 1 \/ j = 2
    OBVIOUS
  <2> QED
    BY <1>2, <1>3, <2>1 DEF Plain
<1> QED
  BY <1>2, <1>4

LEMMA BeginPipeIs ==
  ASSUME NEW p \in PipeIds, NEW i \in Inputs, NEW o \in Outputs
  PROVE  /\ BeginPipeProg(p, i, o) \in Seq(Instr) /\ Len(BeginPipeProg(p, i, o)) = 14 /\ BeginPipeProg(p, i, o) # <<>> /\ Plain(BeginPipeProg(p, i, o))
         /\ BeginPipeProg(p, i, o)[1] = On("needIn", i)
         /\ BeginPipeProg(p, i, o)[2] = On("needOut", o)
         /\ BeginPipeProg(p, i, o)[3] = On("createIn", i)
         /\ BeginPipeProg(p, i, o)[4] = On("createOut", o)
         /\ BeginPipeProg(p, i, o)[5] = For("connect", i, o)
         /\ BeginPipeProg(p, i, o)[6] = On("findOut", o)
         /\ BeginPipeProg(p, i, o)[7] = On("runOut", o)
         /\ BeginPipeProg(p, i, o)[8] = On("findIn", i)
         /\ BeginPipeProg(p, i, o)[9] = On("runIn", i)
         /\ BeginPipeProg(p, i, o)[10] = For("findPipe", i, o)
         /\ BeginPipeProg(p, i, o)[11] = For("runPipe", i, o)
         /\ BeginPipeProg(p, i, o)[12] = Set("setIn", i, "running")
         /\ BeginPipeProg(p, i, o)[13] = Set("setOut", o, "running")
         /\ BeginPipeProg(p, i, o)[14] = Set("setPipe", p, "running")
<1> DEFINE u == StartPipeProg(i, o)
           v == StatusProg(i, o, "running")
           d == <<Set("setPipe", p, "running")>>
<1>1. u \in Seq(Instr) /\ v \in Seq(Instr) /\ d \in Seq(Instr)
  <2>1. Set("setPipe", p, "running") \in Instr
    BY StampedInstr DEF Status
  <2>2. "running" \in Status
    BY DEF Status
  <2> QED
    BY <2>1, <2>2, StartPipeMade, PairMade DEF Prog
<1>2. /\ Len(u) = 11 /\ Len(v) = 2 /\ Len(d) = 1
      /\ u[1] = On("needIn", i)
      /\ u[2] = On("needOut", o)
      /\ u[3] = On("createIn", i)
      /\ u[4] = On("createOut", o)
      /\ u[5] = For("connect", i, o)
      /\ u[6] = On("findOut", o)
      /\ u[7] = On("runOut", o)
      /\ u[8] = On("findIn", i)
      /\ u[9] = On("runIn", i)
      /\ u[10] = For("findPipe", i, o)
      /\ u[11] = For("runPipe", i, o)
      /\ v[1] = Set("setIn", i, "running") /\ v[2] = Set("setOut", o, "running") /\ d[1] = Set("setPipe", p, "running")
  BY DEF StartPipeProg, StatusProg
<1> HIDE DEF u, v, d
<1>3. PICK s : s = u \o v
  OBVIOUS
<1>4. /\ s \in Seq(Instr) /\ Len(s) = 13
      /\ \A j \in 1 .. 13 : s[j] = IF j <= 11 THEN u[j] ELSE v[j - 11]
  <2>1. /\ s \in Seq(Instr) /\ Len(s) = Len(u) + Len(v)
        /\ \A j \in 1 .. Len(u) + Len(v) : s[j] = IF j <= Len(u) THEN u[j] ELSE v[j - Len(u)]
    BY <1>1, <1>3, ConcatProperties
  <2>2. Len(u) + Len(v) = 13 /\ Len(u) = 11
    BY <1>2
  <2> QED
    BY <2>1, <2>2
<1>5. PICK r : r = s \o d
  OBVIOUS
<1>6. /\ r \in Seq(Instr) /\ Len(r) = 14
      /\ \A j \in 1 .. 14 : r[j] = IF j <= 13 THEN s[j] ELSE d[j - 13]
  <2>1. /\ r \in Seq(Instr) /\ Len(r) = Len(s) + Len(d)
        /\ \A j \in 1 .. Len(s) + Len(d) : r[j] = IF j <= Len(s) THEN s[j] ELSE d[j - Len(s)]
    BY <1>1, <1>4, <1>5, ConcatProperties
  <2>2. Len(s) + Len(d) = 14 /\ Len(s) = 13
    BY <1>2, <1>4
  <2> QED
    BY <2>1, <2>2
<1>7. r[14] = d[1]
  BY <1>6
<1>8. r[12] = v[1] /\ r[13] = v[2]
  <2>1. r[12] = s[12] /\ r[13] = s[13]
    BY <1>6
  <2>2. s[12] = v[1] /\ s[13] = v[2]
    BY <1>4
  <2> QED
    BY <2>1, <2>2
<1>9. \A j \in 1 .. 11 : r[j] = u[j]
  <2>1. TAKE j \in 1 .. 11
  <2>2. r[j] = s[j]
    BY <1>6
  <2>3. s[j] = u[j]
    BY <1>4
  <2> QED
    BY <2>2, <2>3
<1>10. /\ r[1] = u[1] /\ r[2] = u[2] /\ r[3] = u[3] /\ r[4] = u[4] /\ r[5] = u[5] /\ r[6] = u[6]
       /\ r[7] = u[7] /\ r[8] = u[8] /\ r[9] = u[9] /\ r[10] = u[10] /\ r[11] = u[11]
  BY <1>9
<1>11. BeginPipeProg(p, i, o) = r
  BY <1>3, <1>5 DEF BeginPipeProg, u, v, d
<1>12. r # <<>>
  <2>1. Len(r) # 0
    BY <1>6
  <2> QED
    BY <1>6, <2>1, EmptySeq
<1>13. /\ BeginPipeProg(p, i, o) \in Seq(Instr) /\ Len(BeginPipeProg(p, i, o)) = 14 /\ BeginPipeProg(p, i, o) # <<>>
      /\ BeginPipeProg(p, i, o)[1] = On("needIn", i)
      /\ BeginPipeProg(p, i, o)[2] = On("needOut", o)
      /\ BeginPipeProg(p, i, o)[3] = On("createIn", i)
      /\ BeginPipeProg(p, i, o)[4] = On("createOut", o)
      /\ BeginPipeProg(p, i, o)[5] = For("connect", i, o)
      /\ BeginPipeProg(p, i, o)[6] = On("findOut", o)
      /\ BeginPipeProg(p, i, o)[7] = On("runOut", o)
      /\ BeginPipeProg(p, i, o)[8] = On("findIn", i)
      /\ BeginPipeProg(p, i, o)[9] = On("runIn", i)
      /\ BeginPipeProg(p, i, o)[10] = For("findPipe", i, o)
      /\ BeginPipeProg(p, i, o)[11] = For("runPipe", i, o)
      /\ BeginPipeProg(p, i, o)[12] = Set("setIn", i, "running")
      /\ BeginPipeProg(p, i, o)[13] = Set("setOut", o, "running")
      /\ BeginPipeProg(p, i, o)[14] = Set("setPipe", p, "running")
  BY <1>2, <1>6, <1>7, <1>8, <1>10, <1>11, <1>12
<1>14. Plain(BeginPipeProg(p, i, o))
  <2>1. \A j \in 1 .. 14 : \/ j = 1 \/ j = 2 \/ j = 3 \/ j = 4 \/ j = 5 \/ j = 6 \/ j = 7
                            \/ j = 8 \/ j = 9 \/ j = 10 \/ j = 11 \/ j = 12 \/ j = 13 \/ j = 14
    OBVIOUS
  <2>2. /\ On("needIn", i).op \notin Catches /\ On("needOut", o).op \notin Catches
        /\ On("createIn", i).op \notin Catches /\ On("createOut", o).op \notin Catches
        /\ For("connect", i, o).op \notin Catches /\ On("findOut", o).op \notin Catches
        /\ On("runOut", o).op \notin Catches /\ On("findIn", i).op \notin Catches
        /\ On("runIn", i).op \notin Catches /\ For("findPipe", i, o).op \notin Catches
        /\ For("runPipe", i, o).op \notin Catches /\ Set("setIn", i, "running").op \notin Catches
        /\ Set("setOut", o, "running").op \notin Catches /\ Set("setPipe", p, "running").op \notin Catches
    BY DEF Catches, On, For, Set
  <2> QED
    BY <1>13, <2>1, <2>2 DEF Plain
<1> QED
  BY <1>13, <1>14

-----------------------------------------------------------------------------
(* What a call of the hub changes of what runs.                               *)
SameJams == \A i \in Inputs, o \in Outputs : Jammed(i, o)' <=> Jammed(i, o)
SameRun == SameIns /\ SameOuts /\ SamePipes /\ SameJams

LEMMA NothingMoves ==
  ASSUME UNCHANGED <<regVars, srcOn, snkOn, pstate>>
  PROVE  SameRun /\ (HubClean => HubClean')
  BY DEF SameRun, SameIns, SameOuts, SamePipes, SameJams, InOn, OutOn, PipeOn, Jammed, HubClean, regVars, Registered

LEMMA InputMade ==
  ASSUME Steady, HubClean, NEW i \in Inputs, CreateInput(i)
  PROVE  SameRun /\ HubClean' /\ sources'[i] # 0
<1> DEFINE s == made["src"] + 1
<1>1. UNCHANGED <<sinks, pipes, srcOn, snkOn, pstate>> /\ sources[i] = 0 /\ s \in Nat /\ s # 0
      /\ \A j \in Inputs : sources'[j] = IF j = i THEN s ELSE sources[j]
  BY HubAssumption DEF CreateInput, Steady, PlaneInv, HubInv, HubTypeOK
<1>2. \A j \in Inputs : sources[j] # s
  BY HubAssumption DEF Steady, PlaneInv, HubInv, HubTypeOK, RegInv
<1>3. s \notin srcOn /\ 0 \notin srcOn
  BY <1>2, OnTyped DEF HubClean, Steady, PlaneInv, HubInv, HubTypeOK
<1>4. SameIns
  BY <1>1, <1>3 DEF SameIns, InOn
<1>5. SameOuts /\ SamePipes /\ SameJams
  BY <1>1 DEF SameOuts, OutOn, SamePipes, PipeOn, SameJams, Jammed
<1>6. \A z \in srcOn' : \E j \in Inputs : sources'[j] = z
  BY <1>1, <1>3 DEF HubClean
<1>7. HubClean'
  BY <1>1, <1>6 DEF HubClean, Registered
<1> QED
  BY <1>1, <1>4, <1>5, <1>7 DEF SameRun

LEMMA OutputMade ==
  ASSUME Steady, HubClean, NEW o \in Outputs, CreateOutput(o)
  PROVE  SameRun /\ HubClean' /\ sinks'[o] # 0
<1> DEFINE s == made["snk"] + 1
<1>1. UNCHANGED <<sources, pipes, srcOn, snkOn, pstate>> /\ sinks[o] = 0 /\ s \in Nat /\ s # 0
      /\ \A j \in Outputs : sinks'[j] = IF j = o THEN s ELSE sinks[j]
  BY HubAssumption DEF CreateOutput, Steady, PlaneInv, HubInv, HubTypeOK
<1>2. \A j \in Outputs : sinks[j] # s
  BY HubAssumption DEF Steady, PlaneInv, HubInv, HubTypeOK, RegInv
<1>3. s \notin snkOn /\ 0 \notin snkOn
  BY <1>2, OnTyped DEF HubClean, Steady, PlaneInv, HubInv, HubTypeOK
<1>4. SameOuts
  BY <1>1, <1>3 DEF SameOuts, OutOn
<1>5. SameIns /\ SamePipes /\ SameJams
  BY <1>1 DEF SameIns, InOn, SamePipes, PipeOn, SameJams, Jammed
<1>6. \A z \in snkOn' : \E j \in Outputs : sinks'[j] = z
  BY <1>1, <1>3 DEF HubClean
<1>7. HubClean'
  BY <1>1, <1>6 DEF HubClean, Registered
<1> QED
  BY <1>1, <1>4, <1>5, <1>7 DEF SameRun

LEMMA PipeMade ==
  ASSUME Steady, HubClean, NEW i \in Inputs, NEW o \in Outputs, Connect(i, o)
  PROVE  SameRun /\ HubClean' /\ pipes'[<<i, o>>] # 0
<1> DEFINE n == made["pipe"] + 1
<1>1. n \in Objs /\ n # 0 /\ <<i, o>> \in Keys /\ pipes[<<i, o>>] = 0
  BY HubAssumption DEF Connect, Steady, PlaneInv, HubInv, HubTypeOK, Objs, Keys
<1>2. \A k \in Keys : pipes'[k] = IF k = <<i, o>> THEN n ELSE pipes[k]
  BY DEF Connect, Steady, PlaneInv, HubInv, HubTypeOK
<1>3. \A x \in Objs : pstate'[x] = IF x = n THEN "bound" ELSE pstate[x]
  BY DEF Connect, Steady, PlaneInv, HubInv, HubTypeOK
<1>4. \A k \in Keys : pipes[k] # n
  BY HubAssumption DEF Steady, PlaneInv, HubInv, HubTypeOK, RegInv
<1>5. UNCHANGED <<sources, sinks, srcOn, snkOn>>
  BY DEF Connect
<1>6. SameIns /\ SameOuts
  BY <1>5 DEF SameIns, InOn, SameOuts, OutOn
<1>7. ASSUME NEW j \in Inputs, NEW q \in Outputs
      PROVE  (PipeOn(j, q)' <=> PipeOn(j, q)) /\ (Jammed(j, q)' <=> Jammed(j, q))
  <2>1. CASE <<j, q>> = <<i, o>>
    BY <1>1, <1>2, <1>3, <2>1 DEF PipeOn, Jammed
  <2>2. CASE <<j, q>> # <<i, o>>
    <3>1. <<j, q>> \in Keys /\ pipes'[<<j, q>>] = pipes[<<j, q>>] /\ pipes[<<j, q>>] # n
      BY <1>2, <1>4, <2>2, OnTyped
    <3>2. pipes[<<j, q>>] # 0 => pipes[<<j, q>>] \in Objs
      BY OnTyped
    <3> QED
      BY <1>3, <3>1, <3>2 DEF PipeOn, Jammed
  <2> QED
    BY <2>1, <2>2
<1>8. HubClean'
  <2>1. ASSUME NEW x \in Objs, pstate'[x] = "running"
        PROVE  \E k \in Keys : pipes'[k] = x
    <3>1. x # n /\ pstate[x] = "running" /\ x # 0
      BY <1>3, <2>1, OnTyped
    <3>2. PICK k \in Keys : pipes[k] = x
      BY <3>1 DEF HubClean, Registered
    <3>3. pipes'[k] = x
      BY <1>1, <1>2, <3>1, <3>2
    <3> QED
      BY <3>3
  <2>2. \A x \in Objs : pstate'[x] # "revived"
    BY <1>3 DEF HubClean
  <2> QED
    BY <1>5, <2>1, <2>2 DEF HubClean, Registered
<1> QED
  BY <1>1, <1>2, <1>6, <1>7, <1>8 DEF SameRun, SamePipes, SameJams

LEMMA SourceRuns ==
  ASSUME Steady, HubClean, NEW c \in Callers, NEW i \in Inputs,
         RunSource(c), held[c] = <<"src", sources[i]>>, sources[i] # 0
  PROVE  /\ \A j \in Inputs : InOn(j)' <=> InOn(j) \/ j = i
         /\ SameOuts /\ SamePipes /\ SameJams /\ HubClean' /\ UNCHANGED regVars
<1>1. UNCHANGED <<regVars, snkOn, pstate>> /\ srcOn' = srcOn \cup {sources[i]}
  BY DEF RunSource
<1>2. UNCHANGED <<sources, sinks, pipes>>
  BY <1>1 DEF regVars
<1>3. \A j \in Inputs : sources[j] = sources[i] => j = i
  BY DEF Steady, PlaneInv, HubInv, HubConsistent, NoneTwice
<1>4. \A j \in Inputs : InOn(j)' <=> InOn(j) \/ j = i
  BY <1>1, <1>2, <1>3 DEF InOn
<1>5. SameOuts /\ SamePipes /\ SameJams
  BY <1>1, <1>2 DEF SameOuts, OutOn, SamePipes, PipeOn, SameJams, Jammed
<1>6. HubClean'
  BY <1>1, <1>2 DEF HubClean, Registered
<1> QED
  BY <1>1, <1>4, <1>5, <1>6

LEMMA SinkRuns ==
  ASSUME Steady, HubClean, NEW c \in Callers, NEW o \in Outputs,
         RunSink(c), held[c] = <<"snk", sinks[o]>>, sinks[o] # 0
  PROVE  /\ \A j \in Outputs : OutOn(j)' <=> OutOn(j) \/ j = o
         /\ SameIns /\ SamePipes /\ SameJams /\ HubClean' /\ UNCHANGED regVars
<1>1. UNCHANGED <<regVars, srcOn, pstate>> /\ snkOn' = snkOn \cup {sinks[o]}
  BY DEF RunSink
<1>2. UNCHANGED <<sources, sinks, pipes>>
  BY <1>1 DEF regVars
<1>3. \A j \in Outputs : sinks[j] = sinks[o] => j = o
  BY DEF Steady, PlaneInv, HubInv, HubConsistent, NoneTwice
<1>4. \A j \in Outputs : OutOn(j)' <=> OutOn(j) \/ j = o
  BY <1>1, <1>2, <1>3 DEF OutOn
<1>5. SameIns /\ SamePipes /\ SameJams
  BY <1>1, <1>2 DEF SameIns, InOn, SamePipes, PipeOn, SameJams, Jammed
<1>6. HubClean'
  BY <1>1, <1>2 DEF HubClean, Registered
<1> QED
  BY <1>1, <1>4, <1>5, <1>6

(* The start of a registered pipe that is not started: the writer of this     *)
(* very pipe, or the panic that leaves it without one.                        *)
LEMMA PipeTurns ==
  ASSUME Steady, HubClean, NEW c \in Callers, NEW i \in Inputs, NEW o \in Outputs,
         held[c] = <<"pipe", pipes[<<i, o>>]>>, pipes[<<i, o>>] # 0, RunPipe(c) \/ RunPipePanics(c)
  PROVE  /\ SameIns /\ SameOuts /\ HubClean' /\ UNCHANGED regVars
         /\ RunPipe(c) =>
              SameJams /\ \A j \in Inputs, q \in Outputs : PipeOn(j, q)' <=> PipeOn(j, q) \/ <<j, q>> = <<i, o>>
         /\ RunPipePanics(c) =>
              SamePipes /\ \A j \in Inputs, q \in Outputs : Jammed(j, q)' <=> Jammed(j, q) \/ <<j, q>> = <<i, o>>
<1> DEFINE x == pipes[<<i, o>>]
<1>1. /\ UNCHANGED <<regVars, srcOn, snkOn>> /\ NotStarted(x)
      /\ RunPipe(c) => pstate' = [pstate EXCEPT ![x] = IF @ = "bound" THEN "running" ELSE "revived"]
      /\ RunPipePanics(c) => pstate' = [pstate EXCEPT ![x] = "stuck"]
  BY DEF RunPipe, RunPipePanics
<1>2. UNCHANGED <<sources, sinks, pipes>>
  BY <1>1 DEF regVars
<1>3. pstate[x] = "bound" /\ x \in Objs /\ <<i, o>> \in Keys
  <2>1. x \in Objs /\ <<i, o>> \in Keys
    BY OnTyped
  <2>2. pstate[x] \in {"bound", "running", "stuck"}
    BY DEF Steady, PlaneInv, HubInv, HubConsistent, PipesBound
  <2> QED
    BY <1>1, <2>1, <2>2 DEF NotStarted
<1>4. /\ RunPipe(c) => \A y \in Objs : pstate'[y] = IF y = x THEN "running" ELSE pstate[y]
      /\ RunPipePanics(c) => \A y \in Objs : pstate'[y] = IF y = x THEN "stuck" ELSE pstate[y]
  BY <1>1, <1>3 DEF Steady, PlaneInv, HubInv, HubTypeOK
<1>5. SameIns /\ SameOuts
  BY <1>1, <1>2 DEF SameIns, InOn, SameOuts, OutOn
<1>6. ASSUME NEW j \in Inputs, NEW q \in Outputs
      PROVE  /\ RunPipe(c) => /\ PipeOn(j, q)' <=> PipeOn(j, q) \/ <<j, q>> = <<i, o>>
                              /\ Jammed(j, q)' <=> Jammed(j, q)
             /\ RunPipePanics(c) => /\ PipeOn(j, q)' <=> PipeOn(j, q)
                                    /\ Jammed(j, q)' <=> Jammed(j, q) \/ <<j, q>> = <<i, o>>
  <2>1. /\ <<j, q>> \in Keys /\ <<i, o>> \in Keys
        /\ pipes[<<j, q>>] # 0 => pipes[<<j, q>>] \in Objs
    BY OnTyped
  <2>2. pipes[<<j, q>>] = x => <<j, q>> = <<i, o>>
    BY <2>1 DEF Steady, PlaneInv, HubInv, HubConsistent, NoneTwice
  <2>3. CASE <<j, q>> = <<i, o>>
    BY <1>2, <1>3, <1>4, <2>1, <2>3 DEF PipeOn, Jammed
  <2>4. CASE <<j, q>> # <<i, o>>
    <3>1. pipes[<<j, q>>] # x
      BY <2>2, <2>4
    <3> HIDE DEF x
    <3> QED
      BY <1>2, <1>4, <2>1, <2>4, <3>1 DEF PipeOn, Jammed
  <2> QED
    BY <2>3, <2>4
<1>7. HubClean'
  <2>1. ASSUME NEW y \in Objs, pstate'[y] = "running"
        PROVE  \E k \in Keys : pipes[k] = y
    BY <1>3, <1>4, <2>1 DEF HubClean, Registered
  <2>2. \A y \in Objs : pstate'[y] # "revived"
    BY <1>4 DEF HubClean
  <2> QED
    BY <1>1, <1>2, <2>1, <2>2 DEF HubClean, Registered
<1> QED
  BY <1>1, <1>5, <1>6, <1>7 DEF SamePipes, SameJams

(* Stopping the pipes under K and forgetting them.                            *)
LEMMA PipesDropped ==
  ASSUME Steady, HubClean, NEW K \in SUBSET Keys, DropPipes(K)
  PROVE  /\ \A j \in Inputs, q \in Outputs : PipeOn(j, q)' <=> PipeOn(j, q) /\ <<j, q>> \notin K
         /\ \A j \in Inputs, q \in Outputs : Jammed(j, q)' <=> Jammed(j, q) /\ <<j, q>> \notin K
         /\ \A y \in Objs : pstate'[y] # "revived"
         /\ \A y \in Objs : pstate'[y] = "running" => \E k \in Keys : pipes'[k] = y
<1>1. \A k \in Keys : pipes'[k] = IF k \in K THEN 0 ELSE pipes[k]
  BY DEF DropPipes
<1>2. \A y \in Objs : pstate'[y] = IF \E k \in K : pipes[k] = y THEN AfterStop(pstate[y]) ELSE pstate[y]
  BY DEF DropPipes
<1>3. \A y \in Objs : AfterStop(pstate[y]) # "running" /\ (pstate[y] # "revived" => AfterStop(pstate[y]) # "revived")
  BY DEF AfterStop
<1>4. ASSUME NEW j \in Inputs, NEW q \in Outputs
      PROVE  /\ PipeOn(j, q)' <=> PipeOn(j, q) /\ <<j, q>> \notin K
             /\ Jammed(j, q)' <=> Jammed(j, q) /\ <<j, q>> \notin K
  <2>1. /\ <<j, q>> \in Keys
        /\ pipes[<<j, q>>] # 0 => pipes[<<j, q>>] \in Objs
    BY OnTyped
  <2>2. CASE <<j, q>> \in K
    BY <1>1, <2>1, <2>2 DEF PipeOn, Jammed
  <2>3. CASE <<j, q>> \notin K /\ pipes[<<j, q>>] # 0
    <3>1. ~ \E k \in K : pipes[k] = pipes[<<j, q>>]
      BY <2>1, <2>3 DEF Steady, PlaneInv, HubInv, HubConsistent, NoneTwice
    <3> QED
      BY <1>1, <1>2, <2>1, <2>3, <3>1 DEF PipeOn, Jammed
  <2>4. CASE <<j, q>> \notin K /\ pipes[<<j, q>>] = 0
    BY <1>1, <2>1, <2>4 DEF PipeOn, Jammed
  <2> QED
    BY <2>2, <2>3, <2>4
<1>5. \A y \in Objs : pstate'[y] # "revived"
  BY <1>2, <1>3 DEF HubClean
<1>6. ASSUME NEW y \in Objs, pstate'[y] = "running"
      PROVE  \E k \in Keys : pipes'[k] = y
  <2>1. pstate[y] = "running" /\ ~ \E k \in K : pipes[k] = y
    BY <1>2, <1>3, <1>6
  <2>2. PICK k \in Keys : pipes[k] = y
    BY <2>1 DEF HubClean, Registered
  <2>3. k \notin K
    BY <2>1, <2>2
  <2> QED
    BY <1>1, <2>2, <2>3
<1> QED
  BY <1>4, <1>5, <1>6

LEMMA Disconnected ==
  ASSUME Steady, HubClean, NEW i \in Inputs, NEW o \in Outputs, Disconnect(i, o)
  PROVE  /\ SameIns /\ SameOuts /\ HubClean'
         /\ \A j \in Inputs, q \in Outputs : PipeOn(j, q)' <=> PipeOn(j, q) /\ ~(j = i /\ q = o)
         /\ \A j \in Inputs, q \in Outputs : Jammed(j, q)' <=> Jammed(j, q) /\ ~(j = i /\ q = o)
<1>1. {<<i, o>>} \in SUBSET Keys /\ DropPipes({<<i, o>>})
      /\ \A j \in Inputs, q \in Outputs : <<j, q>> \in {<<i, o>>} <=> j = i /\ q = o
  BY OnTyped DEF Disconnect
<1>2. UNCHANGED <<sources, sinks, srcOn, snkOn>>
  BY DEF Disconnect
<1>3. /\ \A j \in Inputs, q \in Outputs : PipeOn(j, q)' <=> PipeOn(j, q) /\ <<j, q>> \notin {<<i, o>>}
      /\ \A j \in Inputs, q \in Outputs : Jammed(j, q)' <=> Jammed(j, q) /\ <<j, q>> \notin {<<i, o>>}
      /\ \A y \in Objs : pstate'[y] # "revived"
      /\ \A y \in Objs : pstate'[y] = "running" => \E k \in Keys : pipes'[k] = y
  BY <1>1, PipesDropped
<1>4. SameIns /\ SameOuts
  BY <1>2 DEF SameIns, InOn, SameOuts, OutOn
<1>5. HubClean'
  BY <1>2, <1>3 DEF HubClean, Registered
<1> QED
  BY <1>1, <1>3, <1>4, <1>5

LEMMA InputRemoved ==
  ASSUME Steady, HubClean, NEW i \in Inputs, RemoveInput(i) \/ InputMissing(i)
  PROVE  /\ \A j \in Inputs : InOn(j)' <=> InOn(j) /\ j # i
         /\ \A j \in Inputs, q \in Outputs : PipeOn(j, q)' <=> PipeOn(j, q) /\ j # i
         /\ \A j \in Inputs, q \in Outputs : Jammed(j, q)' <=> Jammed(j, q) /\ j # i
         /\ SameOuts /\ HubClean'
<1>1. CASE RemoveInput(i)
  <2>1. /\ srcOn' = srcOn \ {sources[i]} /\ UNCHANGED <<sinks, snkOn>>
        /\ \A j \in Inputs : sources'[j] = IF j = i THEN 0 ELSE sources[j]
    BY <1>1 DEF RemoveInput, Steady, PlaneInv, HubInv, HubTypeOK
  <2>2. KeysOfInput(i) \in SUBSET Keys /\ DropPipes(KeysOfInput(i))
        /\ \A j \in Inputs, q \in Outputs : <<j, q>> \in KeysOfInput(i) <=> j = i
    BY <1>1 DEF RemoveInput, KeysOfInput, Keys
  <2>3. \A j \in Inputs : sources[j] = sources[i] /\ sources[i] # 0 => j = i
    BY DEF Steady, PlaneInv, HubInv, HubConsistent, NoneTwice
  <2>4. 0 \notin srcOn /\ sources[i] # 0
    BY <1>1, OnTyped DEF RemoveInput, Steady, PlaneInv, HubInv, HubTypeOK
  <2>5. \A j \in Inputs : InOn(j)' <=> InOn(j) /\ j # i
    BY <2>1, <2>3, <2>4 DEF InOn
  <2>6. SameOuts
    BY <2>1 DEF SameOuts, OutOn
  <2>7. \A s \in srcOn' : \E j \in Inputs : sources'[j] = s
    <3>1. TAKE s \in srcOn'
    <3>2. s \in srcOn /\ s # sources[i]
      BY <2>1
    <3>3. PICK j \in Inputs : sources[j] = s
      BY <3>2 DEF HubClean
    <3> QED
      BY <2>1, <3>2, <3>3
  <2>8. /\ \A j \in Inputs, q \in Outputs : PipeOn(j, q)' <=> PipeOn(j, q) /\ <<j, q>> \notin KeysOfInput(i)
        /\ \A j \in Inputs, q \in Outputs : Jammed(j, q)' <=> Jammed(j, q) /\ <<j, q>> \notin KeysOfInput(i)
        /\ \A y \in Objs : pstate'[y] # "revived"
        /\ \A y \in Objs : pstate'[y] = "running" => \E k \in Keys : pipes'[k] = y
    BY <2>2, PipesDropped
  <2>9. HubClean'
    BY <2>1, <2>7, <2>8 DEF HubClean, Registered
  <2>10. \A j \in Inputs, q \in Outputs : /\ PipeOn(j, q)' <=> PipeOn(j, q) /\ j # i
                                          /\ Jammed(j, q)' <=> Jammed(j, q) /\ j # i
    BY <2>2, <2>8
  <2> QED
    BY <2>5, <2>6, <2>9, <2>10
<1>2. CASE InputMissing(i)
  <2>1. UNCHANGED <<regVars, srcOn, snkOn, pstate>> /\ sources[i] = 0
    BY <1>2 DEF InputMissing, objVars
  <2>2. \A q \in Outputs : pipes[<<i, q>>] = 0
    BY <2>1 DEF Steady, PlaneInv, HubInv, HubConsistent, PipesBound
  <2>3. ~InOn(i) /\ \A q \in Outputs : ~PipeOn(i, q) /\ ~Jammed(i, q)
    BY <2>1, <2>2, OnTyped DEF PipeOn, Jammed
  <2> QED
    BY <2>1, <2>3, NothingMoves DEF SameRun, SameIns, SamePipes, SameJams
<1> QED
  BY <1>1, <1>2

LEMMA OutputRemoved ==
  ASSUME Steady, HubClean, NEW o \in Outputs, RemoveOutput(o) \/ OutputMissing(o)
  PROVE  /\ \A j \in Outputs : OutOn(j)' <=> OutOn(j) /\ j # o
         /\ \A j \in Inputs, q \in Outputs : PipeOn(j, q)' <=> PipeOn(j, q) /\ q # o
         /\ \A j \in Inputs, q \in Outputs : Jammed(j, q)' <=> Jammed(j, q) /\ q # o
         /\ SameIns /\ HubClean'
<1>1. CASE RemoveOutput(o)
  <2>1. /\ snkOn' = snkOn \ {sinks[o]} /\ UNCHANGED <<sources, srcOn>>
        /\ \A j \in Outputs : sinks'[j] = IF j = o THEN 0 ELSE sinks[j]
    BY <1>1 DEF RemoveOutput, Steady, PlaneInv, HubInv, HubTypeOK
  <2>2. KeysOfOutput(o) \in SUBSET Keys /\ DropPipes(KeysOfOutput(o))
        /\ \A j \in Inputs, q \in Outputs : <<j, q>> \in KeysOfOutput(o) <=> q = o
    BY <1>1 DEF RemoveOutput, KeysOfOutput, Keys
  <2>3. \A j \in Outputs : sinks[j] = sinks[o] /\ sinks[o] # 0 => j = o
    BY DEF Steady, PlaneInv, HubInv, HubConsistent, NoneTwice
  <2>4. 0 \notin snkOn /\ sinks[o] # 0
    BY <1>1, OnTyped DEF RemoveOutput, Steady, PlaneInv, HubInv, HubTypeOK
  <2>5. \A j \in Outputs : OutOn(j)' <=> OutOn(j) /\ j # o
    BY <2>1, <2>3, <2>4 DEF OutOn
  <2>6. SameIns
    BY <2>1 DEF SameIns, InOn
  <2>7. \A s \in snkOn' : \E j \in Outputs : sinks'[j] = s
    <3>1. TAKE s \in snkOn'
    <3>2. s \in snkOn /\ s # sinks[o]
      BY <2>1
    <3>3. PICK j \in Outputs : sinks[j] = s
      BY <3>2 DEF HubClean
    <3> QED
      BY <2>1, <3>2, <3>3
  <2>8. /\ \A j \in Inputs, q \in Outputs : PipeOn(j, q)' <=> PipeOn(j, q) /\ <<j, q>> \notin KeysOfOutput(o)
        /\ \A j \in Inputs, q \in Outputs : Jammed(j, q)' <=> Jammed(j, q) /\ <<j, q>> \notin KeysOfOutput(o)
        /\ \A y \in Objs : pstate'[y] # "revived"
        /\ \A y \in Objs : pstate'[y] = "running" => \E k \in Keys : pipes'[k] = y
    BY <2>2, PipesDropped
  <2>9. HubClean'
    BY <2>1, <2>7, <2>8 DEF HubClean, Registered
  <2>10. \A j \in Inputs, q \in Outputs : /\ PipeOn(j, q)' <=> PipeOn(j, q) /\ q # o
                                          /\ Jammed(j, q)' <=> Jammed(j, q) /\ q # o
    BY <2>2, <2>8
  <2> QED
    BY <2>5, <2>6, <2>9, <2>10
<1>2. CASE OutputMissing(o)
  <2>1. UNCHANGED <<regVars, srcOn, snkOn, pstate>> /\ sinks[o] = 0
    BY <1>2 DEF OutputMissing, objVars
  <2>2. \A j \in Inputs : pipes[<<j, o>>] = 0
    BY <2>1 DEF Steady, PlaneInv, HubInv, HubConsistent, PipesBound
  <2>3. ~OutOn(o) /\ \A j \in Inputs : ~PipeOn(j, o) /\ ~Jammed(j, o)
    BY <2>1, <2>2, OnTyped DEF PipeOn, Jammed
  <2> QED
    BY <2>1, <2>3, NothingMoves DEF SameRun, SameOuts, SamePipes, SameJams
<1> QED
  BY <1>1, <1>2

-----------------------------------------------------------------------------
(* How True survives a step.                                                  *)
LEMMA TrueGrows ==
  ASSUME NEW P, NEW I, NEW O, NEW Q, NEW J, NEW U, True(P, I, O), P \subseteq Q, I \subseteq J, O \subseteq U
  PROVE  True(Q, J, U)
  BY DEF True, InsTrue, OutsTrue

LEMMA Kept ==
  ASSUME Steady, NEW P, NEW I, NEW O, True(P, I, O), SameRun, HubClean', UNCHANGED rowVars
  PROVE  True(P, I, O)'
<1>1. UNCHANGED <<inRow, outRow, pipeRow>>
  BY DEF rowVars
<1>2. Rowed'
  BY <1>1 DEF True, Rowed, SameRun, SamePipes, Exists
<1>3. Unjammed'
  BY DEF True, Unjammed, SameRun, SameJams, Sure
<1>4. \A p \in PipeIds \ P : RowHolds(p)'
  <2>1. TAKE p \in PipeIds \ P
  <2>2. Exists(p) => pipeRow[p].in \in Inputs /\ pipeRow[p].out \in Outputs
    BY KeyTyped
  <2>3. RowHolds(p)
    BY DEF True
  <2> QED
    BY <1>1, <2>2, <2>3 DEF RowHolds, SameRun, SamePipes, SameJams, Exists, IsRunning
<1>5. InsTrue(I)' /\ OutsTrue(O)'
  BY <1>1 DEF True, InsTrue, OutsTrue, SameRun, SameIns, SameOuts, Sure
<1> QED
  BY <1>2, <1>3, <1>4, <1>5 DEF True

LEMMA KeptStill ==
  ASSUME Steady, NEW P, NEW I, NEW O, True(P, I, O), SameHub, UNCHANGED rowVars
  PROVE  True(P, I, O)'
<1>1. SameRun /\ HubClean'
  BY NothingMoves DEF True, SameHub, hubVars, objVars
<1> QED
  BY <1>1, Kept

LEMMA InputTurnsOn ==
  ASSUME Steady, NEW P, NEW I, NEW O, True(P, I, O), NEW i \in Inputs, HubClean', UNCHANGED rowVars,
         \A j \in Inputs : InOn(j)' <=> InOn(j) \/ j = i, SameOuts, SamePipes, SameJams
  PROVE  True(P, I \cup {i}, O)'
<1>1. UNCHANGED <<inRow, outRow, pipeRow>>
  BY DEF rowVars
<1>2. Rowed'
  BY <1>1 DEF True, Rowed, SamePipes, Exists
<1>3. Unjammed'
  BY DEF True, Unjammed, SameJams, Sure
<1>4. \A p \in PipeIds \ P : RowHolds(p)'
  <2>1. TAKE p \in PipeIds \ P
  <2>2. Exists(p) => pipeRow[p].in \in Inputs /\ pipeRow[p].out \in Outputs
    BY KeyTyped
  <2>3. RowHolds(p)
    BY DEF True
  <2> QED
    BY <1>1, <2>2, <2>3 DEF RowHolds, SamePipes, SameJams, Exists, IsRunning
<1>5. InsTrue(I \cup {i})' /\ OutsTrue(O)'
  BY <1>1 DEF True, InsTrue, OutsTrue, SameOuts, Sure
<1> QED
  BY <1>2, <1>3, <1>4, <1>5 DEF True

LEMMA OutputTurnsOn ==
  ASSUME Steady, NEW P, NEW I, NEW O, True(P, I, O), NEW o \in Outputs, HubClean', UNCHANGED rowVars,
         \A j \in Outputs : OutOn(j)' <=> OutOn(j) \/ j = o, SameIns, SamePipes, SameJams
  PROVE  True(P, I, O \cup {o})'
<1>1. UNCHANGED <<inRow, outRow, pipeRow>>
  BY DEF rowVars
<1>2. Rowed'
  BY <1>1 DEF True, Rowed, SamePipes, Exists
<1>3. Unjammed'
  BY DEF True, Unjammed, SameJams, Sure
<1>4. \A p \in PipeIds \ P : RowHolds(p)'
  <2>1. TAKE p \in PipeIds \ P
  <2>2. Exists(p) => pipeRow[p].in \in Inputs /\ pipeRow[p].out \in Outputs
    BY KeyTyped
  <2>3. RowHolds(p)
    BY DEF True
  <2> QED
    BY <1>1, <2>2, <2>3 DEF RowHolds, SamePipes, SameJams, Exists, IsRunning
<1>5. InsTrue(I)' /\ OutsTrue(O \cup {o})'
  BY <1>1 DEF True, InsTrue, OutsTrue, SameIns, Sure
<1> QED
  BY <1>2, <1>3, <1>4, <1>5 DEF True

LEMMA PipeTurnsOn ==
  ASSUME Steady, NEW P, NEW I, NEW O, True(P, I, O), HubClean', UNCHANGED rowVars,
         NEW p \in PipeIds, NEW i \in Inputs, NEW o \in Outputs, RowIs(p, i, o),
         \A j \in Inputs, q \in Outputs : PipeOn(j, q)' <=> PipeOn(j, q) \/ <<j, q>> = <<i, o>>,
         SameIns, SameOuts, SameJams
  PROVE  True(P \cup {p}, I, O)'
<1>1. UNCHANGED <<inRow, outRow, pipeRow>>
  BY DEF rowVars
<1>2. Rowed'
  <2>1. \A j \in Inputs, q \in Outputs : PipeOn(j, q)' => PipeOn(j, q) \/ (j = i /\ q = o)
    OBVIOUS
  <2> QED
    BY <1>1, <2>1 DEF True, Rowed, Exists, RowIs
<1>3. Unjammed'
  BY DEF True, Unjammed, SameJams, Sure
<1>4. \A q \in PipeIds \ (P \cup {p}) : RowHolds(q)'
  <2>1. TAKE q \in PipeIds \ (P \cup {p})
  <2>2. Exists(q) => pipeRow[q].in \in Inputs /\ pipeRow[q].out \in Outputs
    BY KeyTyped
  <2>3. RowHolds(q)
    BY DEF True
  <2>4. Exists(q) => ~(pipeRow[q].in = i /\ pipeRow[q].out = o)
    BY DEF RowIs, Steady, PairUnique
  <2>5. Exists(q) => /\ PipeOn(pipeRow[q].in, pipeRow[q].out)' <=> PipeOn(pipeRow[q].in, pipeRow[q].out)
                     /\ Jammed(pipeRow[q].in, pipeRow[q].out)' <=> Jammed(pipeRow[q].in, pipeRow[q].out)
    BY <1>1, <2>2, <2>4 DEF SameJams
  <2> QED
    BY <1>1, <2>3, <2>5 DEF RowHolds, Exists, IsRunning
<1>5. InsTrue(I)' /\ OutsTrue(O)'
  BY <1>1 DEF True, InsTrue, OutsTrue, SameIns, SameOuts, Sure
<1> QED
  BY <1>2, <1>3, <1>4, <1>5 DEF True

(* A pipe that Configure's panic jams stays out of the account.               *)
LEMMA PipeJams ==
  ASSUME Steady, NEW P, NEW I, NEW O, NEW J, NEW U, True(P, I, O), HubClean', UNCHANGED rowVars, ~Sure,
         \A i \in Inputs, o \in Outputs : Jammed(i, o) => Jammed(i, o)', SamePipes
  PROVE  True(P, J, U)'
<1>1. UNCHANGED <<inRow, outRow, pipeRow>>
  BY DEF rowVars
<1>2. Rowed'
  BY <1>1 DEF True, Rowed, SamePipes, Exists
<1>3. Unjammed' /\ InsTrue(J)' /\ OutsTrue(U)'
  BY DEF Unjammed, InsTrue, OutsTrue, Sure
<1>4. \A p \in PipeIds \ P : RowHolds(p)'
  <2>1. TAKE p \in PipeIds \ P
  <2>2. Exists(p) => pipeRow[p].in \in Inputs /\ pipeRow[p].out \in Outputs
    BY KeyTyped
  <2>3. RowHolds(p)
    BY DEF True
  <2> QED
    BY <1>1, <2>2, <2>3 DEF RowHolds, SamePipes, Exists, IsRunning
<1> QED
  BY <1>2, <1>3, <1>4 DEF True

(* The pipes under K stop.                                                    *)
LEMMA PipesTurnOff ==
  ASSUME Steady, NEW P, NEW I, NEW O, True(P, I, O), HubClean', UNCHANGED rowVars, NEW K, NEW Q,
         \A j \in Inputs, q \in Outputs : PipeOn(j, q)' <=> PipeOn(j, q) /\ <<j, q>> \notin K,
         \A j \in Inputs, q \in Outputs : Jammed(j, q)' <=> Jammed(j, q) /\ <<j, q>> \notin K,
         \A p \in PipeIds \ (P \cup Q) : Exists(p) /\ IsRunning(p) => Key(p) \notin K,
         NEW J, NEW U, InsTrue(J)', OutsTrue(U)'
  PROVE  True(P \cup Q, J, U)'
<1>1. UNCHANGED <<inRow, outRow, pipeRow>>
  BY DEF rowVars
<1>2. Rowed'
  <2>1. \A j \in Inputs, q \in Outputs : PipeOn(j, q)' => PipeOn(j, q)
    OBVIOUS
  <2> QED
    BY <1>1, <2>1 DEF True, Rowed, Exists
<1>3. Unjammed'
  BY DEF True, Unjammed, Sure
<1>4. \A p \in PipeIds \ (P \cup Q) : RowHolds(p)'
  <2>1. TAKE p \in PipeIds \ (P \cup Q)
  <2>2. Exists(p) => pipeRow[p].in \in Inputs /\ pipeRow[p].out \in Outputs
    BY KeyTyped
  <2>3. RowHolds(p)
    BY DEF True
  <2>4. Exists(p) =>
          /\ PipeOn(pipeRow[p].in, pipeRow[p].out)' <=> PipeOn(pipeRow[p].in, pipeRow[p].out) /\ Key(p) \notin K
          /\ Jammed(pipeRow[p].in, pipeRow[p].out)' <=> Jammed(pipeRow[p].in, pipeRow[p].out) /\ Key(p) \notin K
    BY <1>1, <2>2 DEF Key
  <2>5. Exists(p) /\ IsRunning(p) => Key(p) \notin K
    OBVIOUS
  <2> QED
    BY <1>1, <2>3, <2>4, <2>5 DEF RowHolds, Exists, IsRunning
<1> QED
  BY <1>2, <1>3, <1>4 DEF True

(* The row of an input is written.                                            *)
LEMMA InputRowWritten ==
  ASSUME Steady, NEW P, NEW I, NEW O, True(P, I, O), SameHub, UNCHANGED <<outRow, pipeRow>>, NEW i \in Inputs,
         \A j \in Inputs \ {i} : inRow'[j] = inRow[j],
         Sure => (inRow'[i] = "running" <=> InOn(i)),
         \/ inRow'[i] = "running"
         \/ \A p \in PipeIds \ P : Exists(p) /\ IsRunning(p) => pipeRow[p].in # i,
         NEW J, I \subseteq J \cup {i}
  PROVE  True(P, J, O)'
<1>1. SameRun /\ HubClean'
  BY NothingMoves DEF True, SameHub, hubVars, objVars
<1>2. Rowed'
  BY <1>1 DEF True, Rowed, SameRun, SamePipes, Exists
<1>3. Unjammed'
  BY <1>1 DEF True, Unjammed, SameRun, SameJams, Sure
<1>4. \A p \in PipeIds \ P : RowHolds(p)'
  <2>1. TAKE p \in PipeIds \ P
  <2>2. Exists(p) => pipeRow[p].in \in Inputs /\ pipeRow[p].out \in Outputs
    BY KeyTyped
  <2>3. RowHolds(p)
    BY DEF True
  <2>4. Exists(p) /\ IsRunning(p) => inRow'[pipeRow[p].in] = "running"
    BY <2>2, <2>3 DEF RowHolds
  <2> QED
    BY <1>1, <2>2, <2>3, <2>4 DEF RowHolds, SameRun, SamePipes, SameJams, Exists, IsRunning
<1>5. InsTrue(J)'
  <2>1. ASSUME Sure, NEW j \in Inputs \ J PROVE inRow'[j] = "running" <=> InOn(j)
    <3>1. CASE j = i
      BY <2>1, <3>1
    <3>2. CASE j # i
      BY <2>1, <3>2 DEF True, InsTrue
    <3> QED
      BY <3>1, <3>2
  <2> QED
    BY <1>1, <2>1 DEF InsTrue, SameRun, SameIns, Sure
<1>6. OutsTrue(O)'
  BY <1>1 DEF True, OutsTrue, SameRun, SameOuts, Sure
<1> QED
  BY <1>1, <1>2, <1>3, <1>4, <1>5, <1>6 DEF True

LEMMA OutputRowWritten ==
  ASSUME Steady, NEW P, NEW I, NEW O, True(P, I, O), SameHub, UNCHANGED <<inRow, pipeRow>>, NEW o \in Outputs,
         \A j \in Outputs \ {o} : outRow'[j] = outRow[j],
         Sure => (outRow'[o] = "running" <=> OutOn(o)),
         \/ outRow'[o] = "running"
         \/ \A p \in PipeIds \ P : Exists(p) /\ IsRunning(p) => pipeRow[p].out # o,
         NEW U, O \subseteq U \cup {o}
  PROVE  True(P, I, U)'
<1>1. SameRun /\ HubClean'
  BY NothingMoves DEF True, SameHub, hubVars, objVars
<1>2. Rowed'
  BY <1>1 DEF True, Rowed, SameRun, SamePipes, Exists
<1>3. Unjammed'
  BY <1>1 DEF True, Unjammed, SameRun, SameJams, Sure
<1>4. \A p \in PipeIds \ P : RowHolds(p)'
  <2>1. TAKE p \in PipeIds \ P
  <2>2. Exists(p) => pipeRow[p].in \in Inputs /\ pipeRow[p].out \in Outputs
    BY KeyTyped
  <2>3. RowHolds(p)
    BY DEF True
  <2>4. Exists(p) /\ IsRunning(p) => outRow'[pipeRow[p].out] = "running"
    BY <2>2, <2>3 DEF RowHolds
  <2> QED
    BY <1>1, <2>2, <2>3, <2>4 DEF RowHolds, SameRun, SamePipes, SameJams, Exists, IsRunning
<1>5. OutsTrue(U)'
  <2>1. ASSUME Sure, NEW j \in Outputs \ U PROVE outRow'[j] = "running" <=> OutOn(j)
    <3>1. CASE j = o
      BY <2>1, <3>1
    <3>2. CASE j # o
      BY <2>1, <3>2 DEF True, OutsTrue
    <3> QED
      BY <3>1, <3>2
  <2> QED
    BY <1>1, <2>1 DEF OutsTrue, SameRun, SameOuts, Sure
<1>6. InsTrue(I)'
  BY <1>1 DEF True, InsTrue, SameRun, SameIns, Sure
<1> QED
  BY <1>1, <1>2, <1>3, <1>4, <1>5, <1>6 DEF True

(* The row of a pipe is written.                                              *)
LEMMA PipeRowWritten ==
  ASSUME Steady, NEW P, NEW I, NEW O, True(P, I, O), SameHub, UNCHANGED <<inRow, outRow>>, NEW p \in PipeIds,
         \A q \in PipeIds \ {p} : pipeRow'[q] = pipeRow[q], Rowed', RowHolds(p)',
         NEW Q, P \subseteq Q \cup {p}
  PROVE  True(Q, I, O)'
<1>1. SameRun /\ HubClean'
  BY NothingMoves DEF True, SameHub, hubVars, objVars
<1>2. Unjammed'
  BY <1>1 DEF True, Unjammed, SameRun, SameJams, Sure
<1>3. \A q \in PipeIds \ Q : RowHolds(q)'
  <2>1. TAKE q \in PipeIds \ Q
  <2>2. CASE q = p
    BY <2>2
  <2>3. CASE q # p
    <3>1. Exists(q) => pipeRow[q].in \in Inputs /\ pipeRow[q].out \in Outputs
      BY KeyTyped
    <3>2. RowHolds(q) /\ pipeRow'[q] = pipeRow[q]
      BY <2>3 DEF True
    <3> QED
      BY <1>1, <3>1, <3>2 DEF RowHolds, SameRun, SamePipes, SameJams, Exists, IsRunning
  <2> QED
    BY <2>2, <2>3
<1>4. InsTrue(I)' /\ OutsTrue(O)'
  BY <1>1 DEF True, InsTrue, OutsTrue, SameRun, SameIns, SameOuts, Sure
<1> QED
  BY <1>1, <1>2, <1>3, <1>4 DEF True

-----------------------------------------------------------------------------
(* The steps of a handler.  First what several of them do.                    *)
LEMMA StillRows ==
  ASSUME Still
  PROVE  SameHub /\ UNCHANGED <<inRow, outRow, pipeRow, unborn, rowVars>>
  BY DEF Still, SameRows, rowVars

LEMMA StillTrue ==
  ASSUME Steady, Still, NEW P, NEW I, NEW O, True(P, I, O)
  PROVE  True(P, I, O)'
  BY StillRows, KeptStill

LEMMA RestsCalm ==
  ASSUME NEW c, Calm', prog'[c] = <<>>
  PROVE  Resting(c)'
  BY DEF Resting, Settling, Dead, Rest, Calm

LEMMA GivesUpStill ==
  ASSUME Steady, NEW c, Calm, Still, prog'[c] = <<>>
  PROVE  ClientInv(c)'
  BY StillTrue, RestsCalm DEF Calm, ClientInv

(* The row of a pipe that does not run is made, changed or deleted.           *)
LEMMA NotOn ==
  ASSUME NEW p \in PipeIds, RowHolds(p), Exists(p), ~IsRunning(p)
  PROVE  ~PipeOn(pipeRow[p].in, pipeRow[p].out)
  BY DEF RowHolds, PipeOn, Jammed

LEMMA SaveKeeps ==
  ASSUME Steady, Calm, SameHub, UNCHANGED <<inRow, outRow>>, NEW p \in PipeIds, NEW i \in Inputs, NEW o \in Outputs,
         Exists(p) => ~IsRunning(p), PairFree(p, i, o),
         pipeRow' = [pipeRow EXCEPT ![p] = [in |-> i, out |-> o, st |-> "stopped"]]
  PROVE  Calm'
<1>1. True({}, {}, {})
  BY DEF Calm
<1>2. SameRun /\ HubClean'
  BY <1>1, NothingMoves DEF True, SameHub, hubVars, objVars
<1>3. Exists(p) => ~PipeOn(pipeRow[p].in, pipeRow[p].out)
  BY <1>1, NotOn DEF True
<1>4. ~PipeOn(i, o)
  <2> SUFFICES ASSUME PipeOn(i, o) PROVE FALSE
    OBVIOUS
  <2>1. PICK q \in PipeIds : Exists(q) /\ pipeRow[q].in = i /\ pipeRow[q].out = o
    BY <1>1 DEF True, Rowed
  <2>2. q = p
    BY <2>1 DEF PairFree, PipesOf, PipesTo
  <2> QED
    BY <1>3, <2>1, <2>2
<1>5. /\ pipeRow'[p] = [in |-> i, out |-> o, st |-> "stopped"]
      /\ \A q \in PipeIds \ {p} : pipeRow'[q] = pipeRow[q]
  BY DEF Steady, PlaneInv, RowsTyped
<1>6. RowHolds(p)'
  <2>1. ~IsRunning(p)' /\ pipeRow'[p].in = i /\ pipeRow'[p].out = o
    BY <1>5 DEF IsRunning
  <2>2. ~PipeOn(i, o)'
    BY <1>2, <1>4 DEF SameRun, SamePipes
  <2> QED
    BY <2>1, <2>2 DEF RowHolds
<1>7. Rowed'
  <2>1. ASSUME NEW j \in Inputs, NEW x \in Outputs, PipeOn(j, x)'
        PROVE  \E q \in PipeIds : Exists(q)' /\ pipeRow'[q].in = j /\ pipeRow'[q].out = x
    <3>1. PipeOn(j, x)
      BY <1>2, <2>1 DEF SameRun, SamePipes
    <3>2. PICK q \in PipeIds : Exists(q) /\ pipeRow[q].in = j /\ pipeRow[q].out = x
      BY <1>1, <3>1 DEF True, Rowed
    <3>3. q # p
      BY <1>3, <3>1, <3>2
    <3> QED
      BY <1>5, <3>2, <3>3 DEF Exists
  <2> QED
    BY <2>1 DEF Rowed
<1>8. True({}, {}, {})'
  BY <1>1, <1>5, <1>6, <1>7, PipeRowWritten
<1> QED
  BY <1>8 DEF Calm

LEMMA DropKeeps ==
  ASSUME Steady, Calm, SameHub, UNCHANGED <<inRow, outRow>>, NEW p \in PipeIds, Exists(p), ~IsRunning(p),
         pipeRow' = [pipeRow EXCEPT ![p] = NoRow]
  PROVE  Calm'
<1>1. True({}, {}, {})
  BY DEF Calm
<1>2. SameRun /\ HubClean'
  BY <1>1, NothingMoves DEF True, SameHub, hubVars, objVars
<1>3. ~PipeOn(pipeRow[p].in, pipeRow[p].out)
  BY <1>1, NotOn DEF True
<1>4. pipeRow'[p] = NoRow /\ \A q \in PipeIds \ {p} : pipeRow'[q] = pipeRow[q]
  BY DEF Steady, PlaneInv, RowsTyped
<1>5. RowHolds(p)'
  BY <1>4 DEF RowHolds, Exists
<1>6. Rowed'
  <2>1. ASSUME NEW j \in Inputs, NEW x \in Outputs, PipeOn(j, x)'
        PROVE  \E q \in PipeIds : Exists(q)' /\ pipeRow'[q].in = j /\ pipeRow'[q].out = x
    <3>1. PipeOn(j, x)
      BY <1>2, <2>1 DEF SameRun, SamePipes
    <3>2. PICK q \in PipeIds : Exists(q) /\ pipeRow[q].in = j /\ pipeRow[q].out = x
      BY <1>1, <3>1 DEF True, Rowed
    <3>3. q # p
      BY <1>3, <3>1, <3>2
    <3> QED
      BY <1>4, <3>2, <3>3 DEF Exists
  <2> QED
    BY <2>1 DEF Rowed
<1>7. True({}, {}, {})'
  BY <1>1, <1>4, <1>5, <1>6, PipeRowWritten
<1> QED
  BY <1>7 DEF Calm

(* The row of a dead pipe is marked stopped.                                  *)
LEMMA MarkSettles ==
  ASSUME Steady, SameHub, UNCHANGED <<inRow, outRow>>, NEW P \in SUBSET PipeIds, NEW p \in P, Settling(P),
         pipeRow' = IF Exists(p) THEN [pipeRow EXCEPT ![p].st = "stopped"] ELSE pipeRow
  PROVE  /\ Settling(P \ {p})'
         /\ \A q \in PipeIds \ {p} : pipeRow'[q] = pipeRow[q]
<1>1. True(P, {}, {}) /\ Dead(P)
  BY DEF Settling
<1>2. SameRun /\ HubClean'
  BY <1>1, NothingMoves DEF True, SameHub, hubVars, objVars
<1>3. p \in PipeIds /\ Exists(p) /\ ~PipeOn(pipeRow[p].in, pipeRow[p].out)
  BY <1>1 DEF Dead
<1>4. pipeRow[p].in \in Inputs /\ pipeRow[p].out \in Outputs
      /\ pipeRow[p] = [in |-> pipeRow[p].in, out |-> pipeRow[p].out, st |-> pipeRow[p].st]
  BY <1>3, KeyTyped
<1>5. /\ pipeRow'[p] = [in |-> pipeRow[p].in, out |-> pipeRow[p].out, st |-> "stopped"]
      /\ \A q \in PipeIds \ {p} : pipeRow'[q] = pipeRow[q]
  <2>1. pipeRow' = [pipeRow EXCEPT ![p].st = "stopped"]
    BY <1>3
  <2>2. \A q \in PipeIds \ {p} : pipeRow'[q] = pipeRow[q]
    BY <2>1 DEF Steady, PlaneInv, RowsTyped
  <2>3. pipeRow'[p] = [pipeRow[p] EXCEPT !.st = "stopped"]
    BY <1>3, <2>1 DEF Steady, PlaneInv, RowsTyped
  <2>4. [pipeRow[p] EXCEPT !.st = "stopped"] = [in |-> pipeRow[p].in, out |-> pipeRow[p].out, st |-> "stopped"]
    BY <1>4
  <2> QED
    BY <2>2, <2>3, <2>4
<1>6. pipeRow'[p].in = pipeRow[p].in /\ pipeRow'[p].out = pipeRow[p].out /\ ~IsRunning(p)'
  BY <1>5 DEF IsRunning
<1>7. RowHolds(p)'
  <2>1. ~PipeOn(pipeRow[p].in, pipeRow[p].out)'
    BY <1>2, <1>3, <1>4, <1>6 DEF SameRun, SamePipes
  <2> QED
    BY <1>6, <2>1 DEF RowHolds
<1>8. Exists(p)'
  <2>1. NoRow \notin Rows
    BY PlaneAssumption DEF Rows, Status
  <2>2. pipeRow'[p] \in Rows
    BY <1>4, <1>5 DEF Rows, Status
  <2> QED
    BY <2>1, <2>2 DEF Exists
<1>9. Rowed'
  <2>1. ASSUME NEW j \in Inputs, NEW x \in Outputs, PipeOn(j, x)'
        PROVE  \E q \in PipeIds : Exists(q)' /\ pipeRow'[q].in = j /\ pipeRow'[q].out = x
    <3>1. PipeOn(j, x)
      BY <1>2, <2>1 DEF SameRun, SamePipes
    <3>2. PICK q \in PipeIds : Exists(q) /\ pipeRow[q].in = j /\ pipeRow[q].out = x
      BY <1>1, <3>1 DEF True, Rowed
    <3>3. CASE q = p
      BY <1>6, <1>8, <3>2, <3>3
    <3>4. CASE q # p
      BY <1>5, <3>2, <3>4 DEF Exists
    <3> QED
      BY <3>3, <3>4
  <2> QED
    BY <2>1 DEF Rowed
<1>10. True(P \ {p}, {}, {})'
  BY <1>1, <1>3, <1>5, <1>7, <1>9, PipeRowWritten
<1>11. Dead(P \ {p})'
  <2>1. ASSUME NEW q \in P \ {p}
        PROVE  Exists(q)' /\ IsRunning(q)' /\ ~PipeOn(pipeRow[q].in, pipeRow[q].out)'
    <3>1. q \in PipeIds /\ Exists(q) /\ IsRunning(q) /\ ~PipeOn(pipeRow[q].in, pipeRow[q].out)
      BY <1>1 DEF Dead
    <3>2. pipeRow[q].in \in Inputs /\ pipeRow[q].out \in Outputs /\ pipeRow'[q] = pipeRow[q]
      BY <1>5, <3>1, KeyTyped
    <3> QED
      BY <1>2, <3>1, <3>2 DEF SameRun, SamePipes, Exists, IsRunning
  <2> QED
    BY <2>1 DEF Dead
<1> QED
  BY <1>5, <1>10, <1>11 DEF Settling

(* What stays of dead pipes and of what is left to do about them.             *)
LEMMA DeadStays ==
  ASSUME Steady, NEW P, Dead(P), UNCHANGED pipeRow,
         \A i \in Inputs, o \in Outputs : PipeOn(i, o)' => PipeOn(i, o)
  PROVE  Dead(P)'
<1>1. ASSUME NEW q \in P
      PROVE  Exists(q)' /\ IsRunning(q)' /\ ~PipeOn(pipeRow[q].in, pipeRow[q].out)'
  <2>1. q \in PipeIds /\ Exists(q) /\ IsRunning(q) /\ ~PipeOn(pipeRow[q].in, pipeRow[q].out)
    BY DEF Dead
  <2>2. pipeRow[q].in \in Inputs /\ pipeRow[q].out \in Outputs
    BY <2>1, KeyTyped
  <2> QED
    BY <2>1, <2>2 DEF Exists, IsRunning
<1> QED
  BY <1>1 DEF Dead

LEMMA RestStays ==
  ASSUME NEW q, NEW P, Rest(q, P), \A p \in P : pipeRow'[p] = pipeRow[p]
  PROVE  Rest(q, P)'
<1>1. OutsOf(P)' = OutsOf(P) /\ InsOf(P)' = InsOf(P)
  BY DEF OutsOf, InsOf
<1> QED
  BY <1>1 DEF Rest

LEMMA SettlingStill ==
  ASSUME Steady, Still, NEW P, Settling(P)
  PROVE  Settling(P)' /\ \A q : Rest(q, P) => Rest(q, P)'
<1>1. True(P, {}, {})'
  BY StillTrue DEF Settling
<1>2. \A i \in Inputs, o \in Outputs : PipeOn(i, o)' => PipeOn(i, o)
  BY NothingMoves, StillRows DEF SameHub, hubVars, objVars, SameRun, SamePipes
<1>3. Dead(P)' /\ \A p \in P : pipeRow'[p] = pipeRow[p]
  BY <1>2, StillRows, DeadStays DEF Settling
<1> QED
  BY <1>1, <1>3, RestStays DEF Settling

-----------------------------------------------------------------------------
(* Orphans and cascades.                                                      *)
LEMMA OrphaningInStep ==
  ASSUME Steady, NEW c \in Callers, Exec(c), OrphaningIn(c)
  PROVE  ClientInv(c)'
<1>1. PICK q \in Seq(Instr), P \in SUBSET PipeIds, i \in Inputs :
        Settling(P) /\ Rest(q, P) /\ prog[c] = <<On("orphanIn", i)>> \o q
  BY DEF OrphaningIn
<1>2. On("orphanIn", i) \in Instr /\ On("orphanIn", i).op = "orphanIn" /\ On("orphanIn", i).x = i
  BY PlainInstr DEF InOps, On
<1>3. ProgTyped
  BY DEF Steady, PlaneInv
<1>4. /\ At(c, "orphanIn") /\ Arg(c) = i
      /\ Continue(c) => prog'[c] = q
      /\ \A v \in Seq(Instr) : Become(c, v) => prog'[c] = v \o q
  BY <1>1, <1>2, <1>3, FrontIs
<1>5. /\ Still
      /\ InUse(i) => Continue(c)
      /\ ~InUse(i) => Become(c, DropIn(i))
  BY <1>4, ReadsDo
<1>6. Settling(P)' /\ Rest(q, P)'
  BY <1>1, <1>5, SettlingStill
<1>7. CASE InUse(i)
  <2>1. prog'[c] = q
    BY <1>4, <1>5, <1>7
  <2> QED
    BY <1>6, <2>1 DEF ClientInv, Resting
<1>8. CASE ~InUse(i)
  <2>1. DropIn(i) \in Seq(Instr) /\ DropIn(i) # <<>>
    <3>1. DropIn(i) \in Seq(Instr) /\ Len(DropIn(i)) = 2
      BY DropsAre
    <3> QED
      BY <3>1, EmptySeq
  <2>2. prog'[c] = After(DropIn(i), q, 1)
    BY <1>4, <1>5, <1>8, <2>1, AfterEnds
  <2>3. ~InUse(i)'
    BY <1>5, <1>8, StillRows DEF InUse, PipesOf, Exists, IsRunning
  <2>4. Dead(P)' /\ True(P, IF 1 = 2 THEN {i} ELSE {}, {})'
    BY <1>6 DEF Settling
  <2>5. LosingIn(c)'
    <3>1. 1 \in 1 .. 2 /\ 1 # 2
      OBVIOUS
    <3> QED
      BY <1>6, <2>2, <2>3, <2>4, <3>1 DEF LosingIn
  <2> QED
    BY <2>5 DEF ClientInv
<1> QED
  BY <1>7, <1>8

LEMMA LosingInStep ==
  ASSUME Steady, NEW c \in Callers, Exec(c), LosingIn(c)
  PROVE  ClientInv(c)'
<1>1. PICK q \in Seq(Instr), P \in SUBSET PipeIds, i \in Inputs, k \in 1 .. 2 :
        /\ Dead(P) /\ Rest(q, P) /\ prog[c] = After(DropIn(i), q, k)
        /\ ~InUse(i) /\ True(P, IF k = 2 THEN {i} ELSE {}, {})
        /\ k = 2 => ~InOn(i)
  BY DEF LosingIn
<1>2. /\ DropIn(i) \in Seq(Instr) /\ Len(DropIn(i)) = 2
      /\ DropIn(i)[1] = On("removeIn", i) /\ DropIn(i)[2] = Set("setIn", i, "stopped")
  BY DropsAre
<1>3. /\ prog[c][1] = DropIn(i)[k] /\ Arg(c) = DropIn(i)[k].x /\ At(c, DropIn(i)[k].op)
      /\ Continue(c) => prog'[c] = After(DropIn(i), q, k + 1)
      /\ Continue(c) /\ k = 2 => prog'[c] = q
  <2>1. ProgTyped /\ k \in 1 .. Len(DropIn(i))
    BY <1>2 DEF Steady, PlaneInv
  <2>2. PICK w : w = DropIn(i)
    OBVIOUS
  <2>3. w \in Seq(Instr) /\ k \in 1 .. Len(w) /\ prog[c] = After(w, q, k)
    BY <1>1, <1>2, <2>1, <2>2
  <2>4. /\ prog[c][1] = w[k] /\ Arg(c) = w[k].x /\ At(c, w[k].op)
        /\ Continue(c) => prog'[c] = After(w, q, k + 1)
        /\ Continue(c) /\ k = Len(w) => prog'[c] = q
    BY <2>1, <2>3, WordStep
  <2> QED
    BY <1>2, <2>2, <2>4
<1>4. \A p \in PipeIds : Exists(p) /\ IsRunning(p) => pipeRow[p].in # i
  BY <1>1 DEF InUse, PipesOf
<1>5. CASE k = 1
  <2>1. At(c, "removeIn") /\ Arg(c) = i
    BY <1>2, <1>3, <1>5 DEF On
  <2>2. (RemoveInput(i) \/ InputMissing(i)) /\ Continue(c) /\ SameRows
    BY <2>1, CallsDo
  <2>3. True(P, {}, {}) /\ HubClean
    BY <1>1, <1>5 DEF True
  <2>4. /\ \A j \in Inputs : InOn(j)' <=> InOn(j) /\ j # i
        /\ \A j \in Inputs, x \in Outputs : PipeOn(j, x)' <=> PipeOn(j, x) /\ j # i
        /\ \A j \in Inputs, x \in Outputs : Jammed(j, x)' <=> Jammed(j, x) /\ j # i
        /\ SameOuts /\ HubClean'
    BY <2>2, <2>3, InputRemoved
  <2>5. UNCHANGED <<rowVars, inRow, outRow, pipeRow>>
    BY <2>2 DEF SameRows, rowVars
  <2>6. InsTrue({i})' /\ OutsTrue({})'
    BY <2>3, <2>4, <2>5 DEF True, InsTrue, OutsTrue, SameOuts, Sure
  <2>7. True(P, {i}, {})'
    <3> DEFINE K == KeysOfInput(i)
    <3>1. \A j \in Inputs, x \in Outputs : <<j, x>> \in K <=> j = i
      BY DEF KeysOfInput
    <3>2. \A p \in PipeIds : Exists(p) /\ IsRunning(p) => Key(p) \notin K
      BY <1>4, <3>1, KeyTyped DEF Key
    <3> HIDE DEF K
    <3>3. /\ \A j \in Inputs, x \in Outputs : PipeOn(j, x)' <=> PipeOn(j, x) /\ <<j, x>> \notin K
          /\ \A j \in Inputs, x \in Outputs : Jammed(j, x)' <=> Jammed(j, x) /\ <<j, x>> \notin K
      BY <2>4, <3>1
    <3>4. True(P \cup {}, {i}, {})'
      BY <2>3, <2>4, <2>5, <2>6, <3>2, <3>3, PipesTurnOff
    <3>5. P \cup {} = P
      OBVIOUS
    <3> QED
      BY <3>4, <3>5
  <2>8. Dead(P)' /\ Rest(q, P)' /\ ~InUse(i)'
    <3>1. Dead(P)'
      BY <1>1, <2>4, <2>5, DeadStays
    <3>2. Rest(q, P)'
      BY <1>1, <2>5, RestStays
    <3> QED
      BY <1>1, <2>5, <3>1, <3>2 DEF InUse, PipesOf, Exists, IsRunning
  <2>9. prog'[c] = After(DropIn(i), q, 2)
    BY <1>3, <1>5, <2>2
  <2>10. LosingIn(c)'
    <3>1. True(P, IF 2 = 2 THEN {i} ELSE {}, {})' /\ ~InOn(i)' /\ 2 \in 1 .. 2
      BY <2>4, <2>7
    <3> QED
      BY <2>8, <2>9, <3>1 DEF LosingIn
  <2> QED
    BY <2>10 DEF ClientInv
<1>6. CASE k = 2
  <2>1. At(c, "setIn") /\ Arg(c) = i /\ prog[c][1].st = "stopped"
    BY <1>2, <1>3, <1>6 DEF Set
  <2>2. /\ SameHub /\ UNCHANGED <<outRow, pipeRow>> /\ Continue(c)
        /\ inRow' = IF inRow[i] = "none" THEN inRow ELSE [inRow EXCEPT ![i] = "stopped"]
    BY <2>1, WritesDo
  <2>3. (\A j \in Inputs \ {i} : inRow'[j] = inRow[j]) /\ inRow'[i] # "running"
    BY <2>2 DEF Steady, PlaneInv, RowsTyped
  <2>4. True(P, {i}, {}) /\ ~InOn(i)
    BY <1>1, <1>6
  <2>5. True(P, {}, {})'
    <3>1. {i} \subseteq {} \cup {i}
      OBVIOUS
    <3>2. inRow'[i] = "running" <=> InOn(i)
      BY <2>3, <2>4
    <3> QED
      BY <1>4, <2>2, <2>3, <2>4, <3>1, <3>2, InputRowWritten
  <2>6. \A j \in Inputs, x \in Outputs : PipeOn(j, x)' => PipeOn(j, x)
    BY <2>2, NothingMoves DEF SameHub, hubVars, objVars, SameRun, SamePipes
  <2>7. Dead(P)' /\ Rest(q, P)'
    <3>1. Dead(P)'
      BY <1>1, <2>2, <2>6, DeadStays
    <3>2. Rest(q, P)'
      BY <1>1, <2>2, RestStays
    <3> QED
      BY <3>1, <3>2
  <2>8. prog'[c] = q
    BY <1>3, <1>6, <2>2
  <2> QED
    BY <2>5, <2>7, <2>8 DEF ClientInv, Resting, Settling
<1> QED
  BY <1>5, <1>6

LEMMA InsOfTyped ==
  ASSUME Steady, NEW P, Dead(P)
  PROVE  /\ InsOf(P) \in SUBSET (PipeIds \X Inputs)
         /\ On("eachIn", InsOf(P)) \in Instr /\ <<On("eachIn", InsOf(P))>> \in Seq(Instr)
<1>1. InsOf(P) \in SUBSET (PipeIds \X Inputs)
  <2>1. \A p \in P : p \in PipeIds /\ Exists(p)
    BY DEF Dead
  <2>2. \A p \in P : pipeRow[p].in \in Inputs
    BY <2>1, KeyTyped
  <2> QED
    BY <2>1, <2>2 DEF InsOf
<1>2. On("eachIn", InsOf(P)) \in Instr
  BY <1>1, LoopInstr
<1> QED
  BY <1>1, <1>2

LEMMA MarkingInStep ==
  ASSUME Steady, NEW c \in Callers, Exec(c), MarkingIn(c)
  PROVE  ClientInv(c)'
<1>1. PICK P \in SUBSET PipeIds, p \in PipeIds, i \in Inputs :
        /\ Settling(P) /\ p \in P
        /\ prog[c] = After(InRound(p, i), <<On("eachIn", InsOf(P \ {p}))>>, 1)
  BY DEF MarkingIn
<1>2. PICK t : t = <<On("eachIn", InsOf(P \ {p}))>>
  OBVIOUS
<1>3. PICK w : w = InRound(p, i)
  OBVIOUS
<1>4. t \in Seq(Instr)
  <2>1. Dead(P \ {p})
    BY <1>1 DEF Settling, Dead
  <2> QED
    BY <1>2, <2>1, InsOfTyped
<1>5. /\ w \in Seq(Instr) /\ Len(w) = 2
      /\ w[1] = Set("setPipe", p, "stopped") /\ w[2] = On("orphanIn", i)
  BY <1>3, InRoundIs
<1>6. /\ prog[c][1] = w[1] /\ Arg(c) = w[1].x /\ At(c, w[1].op)
      /\ Continue(c) => prog'[c] = After(w, t, 1 + 1)
  <2>1. ProgTyped /\ 1 \in 1 .. Len(w) /\ prog[c] = After(w, t, 1)
    BY <1>1, <1>2, <1>3, <1>5 DEF Steady, PlaneInv
  <2> QED
    BY <1>4, <1>5, <2>1, WordStep
<1>7. At(c, "setPipe") /\ Arg(c) = p /\ prog[c][1].st = "stopped"
  BY <1>5, <1>6 DEF Set
<1>8. /\ SameHub /\ UNCHANGED <<inRow, outRow>> /\ Continue(c)
      /\ pipeRow' = IF Exists(p) THEN [pipeRow EXCEPT ![p].st = "stopped"] ELSE pipeRow
  BY <1>7, WritesDo
<1>9. Settling(P \ {p})' /\ \A q \in PipeIds \ {p} : pipeRow'[q] = pipeRow[q]
  BY <1>1, <1>8, MarkSettles
<1>10. Rest(t, P \ {p})'
  <2>1. \A q \in P \ {p} : pipeRow'[q] = pipeRow[q]
    BY <1>9
  <2>2. Rest(t, P \ {p})
    BY <1>2 DEF Rest
  <2> QED
    BY <2>1, <2>2, RestStays
<1>11. prog'[c] = <<On("orphanIn", i)>> \o t
  <2>1. After(w, t, Len(w)) = <<w[Len(w)]>> \o t
    BY <1>4, <1>5, AfterLast
  <2>2. prog'[c] = After(w, t, 2)
    BY <1>6, <1>8
  <2> QED
    BY <1>5, <2>1, <2>2
<1>12. OrphaningIn(c)'
  BY <1>4, <1>9, <1>10, <1>11 DEF OrphaningIn
<1> QED
  BY <1>12 DEF ClientInv

(* Before the next round of the loop over the inputs of the dead pipes P.     *)
LEMMA EachInStep ==
  ASSUME Steady, NEW c \in Callers, Exec(c), NEW P \in SUBSET PipeIds, Settling(P),
         prog[c] = <<On("eachIn", InsOf(P))>>
  PROVE  ClientInv(c)'
<1>1. PICK a : a = On("eachIn", InsOf(P))
  OBVIOUS
<1>2. a \in Instr /\ a.op = "eachIn" /\ a.x = InsOf(P) /\ <<>> \in Seq(Instr)
  BY <1>1, InsOfTyped DEF Settling, On
<1>3. ProgTyped /\ prog[c] = <<a>> \o <<>>
  BY <1>1, <1>2, Joins DEF Steady, PlaneInv
<1>4. At(c, "eachIn") /\ Arg(c) = InsOf(P) /\ (Continue(c) => prog'[c] = <<>>)
  <2>1. PICK t : t = <<>>
    OBVIOUS
  <2>2. t \in Seq(Instr) /\ prog[c] = <<a>> \o t
    BY <1>3, <2>1
  <2>3. At(c, a.op) /\ Arg(c) = a.x /\ (Continue(c) => prog'[c] = t)
    BY <1>2, <1>3, <2>2, FrontIs
  <2> QED
    BY <1>2, <2>1, <2>3
<1>5. /\ Still
      /\ \/ InsOf(P) = {} /\ Continue(c)
         \/ \E e \in InsOf(P) : Become(c, Body("eachIn", e) \o <<On("eachIn", InsOf(P) \ {e})>>)
  BY <1>4, LoopsDo DEF Loops
<1>6. Settling(P)'
  BY <1>5, SettlingStill
<1>7. CASE InsOf(P) = {} /\ Continue(c)
  <2>1. P = {}
    BY <1>7 DEF InsOf
  <2>2. Rest(<<>>, P)'
    BY <2>1 DEF Rest
  <2> QED
    BY <1>4, <1>6, <1>7, <2>2 DEF ClientInv, Resting
<1>8. ASSUME NEW e \in InsOf(P), Become(c, Body("eachIn", e) \o <<On("eachIn", InsOf(P) \ {e})>>)
      PROVE  ClientInv(c)'
  <2>1. PICK p \in P : e = <<p, pipeRow[p].in>>
    BY <1>8 DEF InsOf
  <2>2. PICK i : i = pipeRow[p].in
    OBVIOUS
  <2>3. p \in PipeIds /\ i \in Inputs /\ e[1] = p /\ e[2] = i
    BY <2>1, <2>2, KeyTyped DEF Settling, Dead
  <2>4. InsOf(P) \ {e} = InsOf(P \ {p})
    BY <2>1 DEF InsOf
  <2>5. PICK b : b = On("eachIn", InsOf(P \ {p}))
    OBVIOUS
  <2>6. b \in Instr
    <3>1. Dead(P \ {p})
      BY DEF Settling, Dead
    <3> QED
      BY <2>5, <3>1, InsOfTyped
  <2>7. PICK w : w = InRound(p, i)
    OBVIOUS
  <2>8. w \in Seq(Instr) /\ w # <<>>
    BY <2>3, <2>7, InRoundIs
  <2>9. Body("eachIn", e) = w
    BY <2>3, <2>7 DEF Body, InRound
  <2>10. Become(c, w \o <<b>>)
    BY <1>8, <2>4, <2>5, <2>9
  <2>11. prog'[c] = After(w, <<b>> \o <<>>, 1)
    BY <1>2, <1>3, <2>6, <2>8, <2>10, Round
  <2>12. prog'[c] = After(w, <<b>>, 1)
    BY <2>6, <2>11, Joins
  <2>13. InsOf(P \ {p})' = InsOf(P \ {p})
    BY <1>5, StillRows DEF InsOf
  <2>14. MarkingIn(c)'
    BY <1>6, <2>1, <2>3, <2>5, <2>7, <2>12, <2>13 DEF MarkingIn
  <2> QED
    BY <2>14 DEF ClientInv
<1> QED
  BY <1>5, <1>7, <1>8

LEMMA OrphaningOutStep ==
  ASSUME Steady, NEW c \in Callers, Exec(c), OrphaningOut(c)
  PROVE  ClientInv(c)'
<1>1. PICK q \in Seq(Instr), P \in SUBSET PipeIds, o \in Outputs :
        Settling(P) /\ Rest(q, P) /\ prog[c] = <<On("orphanOut", o)>> \o q
  BY DEF OrphaningOut
<1>2. On("orphanOut", o) \in Instr /\ On("orphanOut", o).op = "orphanOut" /\ On("orphanOut", o).x = o
  BY PlainInstr DEF OutOps, On
<1>3. ProgTyped
  BY DEF Steady, PlaneInv
<1>4. /\ At(c, "orphanOut") /\ Arg(c) = o
      /\ Continue(c) => prog'[c] = q
      /\ \A v \in Seq(Instr) : Become(c, v) => prog'[c] = v \o q
  BY <1>1, <1>2, <1>3, FrontIs
<1>5. /\ Still
      /\ OutInUse(o) => Continue(c)
      /\ ~OutInUse(o) => Become(c, DropOut(o))
  BY <1>4, ReadsDo
<1>6. Settling(P)' /\ Rest(q, P)'
  BY <1>1, <1>5, SettlingStill
<1>7. CASE OutInUse(o)
  <2>1. prog'[c] = q
    BY <1>4, <1>5, <1>7
  <2> QED
    BY <1>6, <2>1 DEF ClientInv, Resting
<1>8. CASE ~OutInUse(o)
  <2>1. DropOut(o) \in Seq(Instr) /\ DropOut(o) # <<>>
    <3>1. DropOut(o) \in Seq(Instr) /\ Len(DropOut(o)) = 2
      BY DropsAre
    <3> QED
      BY <3>1, EmptySeq
  <2>2. prog'[c] = After(DropOut(o), q, 1)
    BY <1>4, <1>5, <1>8, <2>1, AfterEnds
  <2>3. ~OutInUse(o)'
    BY <1>5, <1>8, StillRows DEF OutInUse, PipesTo, Exists, IsRunning
  <2>4. Dead(P)' /\ True(P, {}, IF 1 = 2 THEN {o} ELSE {})'
    BY <1>6 DEF Settling
  <2>5. LosingOut(c)'
    <3>1. 1 \in 1 .. 2 /\ 1 # 2
      OBVIOUS
    <3> QED
      BY <1>6, <2>2, <2>3, <2>4, <3>1 DEF LosingOut
  <2> QED
    BY <2>5 DEF ClientInv
<1> QED
  BY <1>7, <1>8

LEMMA LosingOutStep ==
  ASSUME Steady, NEW c \in Callers, Exec(c), LosingOut(c)
  PROVE  ClientInv(c)'
<1>1. PICK q \in Seq(Instr), P \in SUBSET PipeIds, o \in Outputs, k \in 1 .. 2 :
        /\ Dead(P) /\ Rest(q, P) /\ prog[c] = After(DropOut(o), q, k)
        /\ ~OutInUse(o) /\ True(P, {}, IF k = 2 THEN {o} ELSE {})
        /\ k = 2 => ~OutOn(o)
  BY DEF LosingOut
<1>2. /\ DropOut(o) \in Seq(Instr) /\ Len(DropOut(o)) = 2
      /\ DropOut(o)[1] = On("removeOut", o) /\ DropOut(o)[2] = Set("setOut", o, "stopped")
  BY DropsAre
<1>3. /\ prog[c][1] = DropOut(o)[k] /\ Arg(c) = DropOut(o)[k].x /\ At(c, DropOut(o)[k].op)
      /\ Continue(c) => prog'[c] = After(DropOut(o), q, k + 1)
      /\ Continue(c) /\ k = 2 => prog'[c] = q
  <2>1. ProgTyped /\ k \in 1 .. Len(DropOut(o))
    BY <1>2 DEF Steady, PlaneInv
  <2>2. PICK w : w = DropOut(o)
    OBVIOUS
  <2>3. w \in Seq(Instr) /\ k \in 1 .. Len(w) /\ prog[c] = After(w, q, k)
    BY <1>1, <1>2, <2>1, <2>2
  <2>4. /\ prog[c][1] = w[k] /\ Arg(c) = w[k].x /\ At(c, w[k].op)
        /\ Continue(c) => prog'[c] = After(w, q, k + 1)
        /\ Continue(c) /\ k = Len(w) => prog'[c] = q
    BY <2>1, <2>3, WordStep
  <2> QED
    BY <1>2, <2>2, <2>4
<1>4. \A p \in PipeIds : Exists(p) /\ IsRunning(p) => pipeRow[p].out # o
  BY <1>1 DEF OutInUse, PipesTo
<1>5. CASE k = 1
  <2>1. At(c, "removeOut") /\ Arg(c) = o
    BY <1>2, <1>3, <1>5 DEF On
  <2>2. (RemoveOutput(o) \/ OutputMissing(o)) /\ Continue(c) /\ SameRows
    BY <2>1, CallsDo
  <2>3. True(P, {}, {}) /\ HubClean
    BY <1>1, <1>5 DEF True
  <2>4. /\ \A j \in Outputs : OutOn(j)' <=> OutOn(j) /\ j # o
        /\ \A j \in Outputs, x \in Inputs : PipeOn(x, j)' <=> PipeOn(x, j) /\ j # o
        /\ \A j \in Outputs, x \in Inputs : Jammed(x, j)' <=> Jammed(x, j) /\ j # o
        /\ SameIns /\ HubClean'
    BY <2>2, <2>3, OutputRemoved
  <2>5. UNCHANGED <<rowVars, outRow, inRow, pipeRow>>
    BY <2>2 DEF SameRows, rowVars
  <2>6. OutsTrue({o})' /\ InsTrue({})'
    BY <2>3, <2>4, <2>5 DEF True, OutsTrue, InsTrue, SameIns, Sure
  <2>7. True(P, {}, {o})'
    <3> DEFINE K == KeysOfOutput(o)
    <3>1. \A j \in Outputs, x \in Inputs : <<x, j>> \in K <=> j = o
      BY DEF KeysOfOutput
    <3>2. \A p \in PipeIds : Exists(p) /\ IsRunning(p) => Key(p) \notin K
      BY <1>4, <3>1, KeyTyped DEF Key
    <3> HIDE DEF K
    <3>3. /\ \A j \in Outputs, x \in Inputs : PipeOn(x, j)' <=> PipeOn(x, j) /\ <<x, j>> \notin K
          /\ \A j \in Outputs, x \in Inputs : Jammed(x, j)' <=> Jammed(x, j) /\ <<x, j>> \notin K
      BY <2>4, <3>1
    <3>4. True(P \cup {}, {}, {o})'
      BY <2>3, <2>4, <2>5, <2>6, <3>2, <3>3, PipesTurnOff
    <3>5. P \cup {} = P
      OBVIOUS
    <3> QED
      BY <3>4, <3>5
  <2>8. Dead(P)' /\ Rest(q, P)' /\ ~OutInUse(o)'
    <3>1. Dead(P)'
      BY <1>1, <2>4, <2>5, DeadStays
    <3>2. Rest(q, P)'
      BY <1>1, <2>5, RestStays
    <3> QED
      BY <1>1, <2>5, <3>1, <3>2 DEF OutInUse, PipesTo, Exists, IsRunning
  <2>9. prog'[c] = After(DropOut(o), q, 2)
    BY <1>3, <1>5, <2>2
  <2>10. LosingOut(c)'
    <3>1. True(P, {}, IF 2 = 2 THEN {o} ELSE {})' /\ ~OutOn(o)' /\ 2 \in 1 .. 2
      BY <2>4, <2>7
    <3> QED
      BY <2>8, <2>9, <3>1 DEF LosingOut
  <2> QED
    BY <2>10 DEF ClientInv
<1>6. CASE k = 2
  <2>1. At(c, "setOut") /\ Arg(c) = o /\ prog[c][1].st = "stopped"
    BY <1>2, <1>3, <1>6 DEF Set
  <2>2. /\ SameHub /\ UNCHANGED <<inRow, pipeRow>> /\ Continue(c)
        /\ outRow' = IF outRow[o] = "none" THEN outRow ELSE [outRow EXCEPT ![o] = "stopped"]
    BY <2>1, WritesDo
  <2>3. (\A j \in Outputs \ {o} : outRow'[j] = outRow[j]) /\ outRow'[o] # "running"
    BY <2>2 DEF Steady, PlaneInv, RowsTyped
  <2>4. True(P, {}, {o}) /\ ~OutOn(o)
    BY <1>1, <1>6
  <2>5. True(P, {}, {})'
    <3>1. {o} \subseteq {} \cup {o}
      OBVIOUS
    <3>2. outRow'[o] = "running" <=> OutOn(o)
      BY <2>3, <2>4
    <3> QED
      BY <1>4, <2>2, <2>3, <2>4, <3>1, <3>2, OutputRowWritten
  <2>6. \A j \in Outputs, x \in Inputs : PipeOn(x, j)' => PipeOn(x, j)
    BY <2>2, NothingMoves DEF SameHub, hubVars, objVars, SameRun, SamePipes
  <2>7. Dead(P)' /\ Rest(q, P)'
    <3>1. Dead(P)'
      BY <1>1, <2>2, <2>6, DeadStays
    <3>2. Rest(q, P)'
      BY <1>1, <2>2, RestStays
    <3> QED
      BY <3>1, <3>2
  <2>8. prog'[c] = q
    BY <1>3, <1>6, <2>2
  <2> QED
    BY <2>5, <2>7, <2>8 DEF ClientInv, Resting, Settling
<1> QED
  BY <1>5, <1>6

LEMMA OutsOfTyped ==
  ASSUME Steady, NEW P, Dead(P)
  PROVE  /\ OutsOf(P) \in SUBSET (PipeIds \X Outputs)
         /\ On("eachOut", OutsOf(P)) \in Instr /\ <<On("eachOut", OutsOf(P))>> \in Seq(Instr)
<1>1. OutsOf(P) \in SUBSET (PipeIds \X Outputs)
  <2>1. \A p \in P : p \in PipeIds /\ Exists(p)
    BY DEF Dead
  <2>2. \A p \in P : pipeRow[p].out \in Outputs
    BY <2>1, KeyTyped
  <2> QED
    BY <2>1, <2>2 DEF OutsOf
<1>2. On("eachOut", OutsOf(P)) \in Instr
  BY <1>1, LoopInstr
<1> QED
  BY <1>1, <1>2

LEMMA MarkingOutStep ==
  ASSUME Steady, NEW c \in Callers, Exec(c), MarkingOut(c)
  PROVE  ClientInv(c)'
<1>1. PICK P \in SUBSET PipeIds, p \in PipeIds, o \in Outputs :
        /\ Settling(P) /\ p \in P
        /\ prog[c] = After(OutRound(p, o), <<On("eachOut", OutsOf(P \ {p}))>>, 1)
  BY DEF MarkingOut
<1>2. PICK t : t = <<On("eachOut", OutsOf(P \ {p}))>>
  OBVIOUS
<1>3. PICK w : w = OutRound(p, o)
  OBVIOUS
<1>4. t \in Seq(Instr)
  <2>1. Dead(P \ {p})
    BY <1>1 DEF Settling, Dead
  <2> QED
    BY <1>2, <2>1, OutsOfTyped
<1>5. /\ w \in Seq(Instr) /\ Len(w) = 2
      /\ w[1] = Set("setPipe", p, "stopped") /\ w[2] = On("orphanOut", o)
  BY <1>3, OutRoundIs
<1>6. /\ prog[c][1] = w[1] /\ Arg(c) = w[1].x /\ At(c, w[1].op)
      /\ Continue(c) => prog'[c] = After(w, t, 1 + 1)
  <2>1. ProgTyped /\ 1 \in 1 .. Len(w) /\ prog[c] = After(w, t, 1)
    BY <1>1, <1>2, <1>3, <1>5 DEF Steady, PlaneInv
  <2> QED
    BY <1>4, <1>5, <2>1, WordStep
<1>7. At(c, "setPipe") /\ Arg(c) = p /\ prog[c][1].st = "stopped"
  BY <1>5, <1>6 DEF Set
<1>8. /\ SameHub /\ UNCHANGED <<outRow, inRow>> /\ Continue(c)
      /\ pipeRow' = IF Exists(p) THEN [pipeRow EXCEPT ![p].st = "stopped"] ELSE pipeRow
  BY <1>7, WritesDo
<1>9. Settling(P \ {p})' /\ \A q \in PipeIds \ {p} : pipeRow'[q] = pipeRow[q]
  BY <1>1, <1>8, MarkSettles
<1>10. Rest(t, P \ {p})'
  <2>1. \A q \in P \ {p} : pipeRow'[q] = pipeRow[q]
    BY <1>9
  <2>2. Rest(t, P \ {p})
    BY <1>2 DEF Rest
  <2> QED
    BY <2>1, <2>2, RestStays
<1>11. prog'[c] = <<On("orphanOut", o)>> \o t
  <2>1. After(w, t, Len(w)) = <<w[Len(w)]>> \o t
    BY <1>4, <1>5, AfterLast
  <2>2. prog'[c] = After(w, t, 2)
    BY <1>6, <1>8
  <2> QED
    BY <1>5, <2>1, <2>2
<1>12. OrphaningOut(c)'
  BY <1>4, <1>9, <1>10, <1>11 DEF OrphaningOut
<1> QED
  BY <1>12 DEF ClientInv

(* Before the next round of the loop over the outputs of the dead pipes P.     *)
LEMMA EachOutStep ==
  ASSUME Steady, NEW c \in Callers, Exec(c), NEW P \in SUBSET PipeIds, Settling(P),
         prog[c] = <<On("eachOut", OutsOf(P))>>
  PROVE  ClientInv(c)'
<1>1. PICK a : a = On("eachOut", OutsOf(P))
  OBVIOUS
<1>2. a \in Instr /\ a.op = "eachOut" /\ a.x = OutsOf(P) /\ <<>> \in Seq(Instr)
  BY <1>1, OutsOfTyped DEF Settling, On
<1>3. ProgTyped /\ prog[c] = <<a>> \o <<>>
  BY <1>1, <1>2, Joins DEF Steady, PlaneInv
<1>4. At(c, "eachOut") /\ Arg(c) = OutsOf(P) /\ (Continue(c) => prog'[c] = <<>>)
  <2>1. PICK t : t = <<>>
    OBVIOUS
  <2>2. t \in Seq(Instr) /\ prog[c] = <<a>> \o t
    BY <1>3, <2>1
  <2>3. At(c, a.op) /\ Arg(c) = a.x /\ (Continue(c) => prog'[c] = t)
    BY <1>2, <1>3, <2>2, FrontIs
  <2> QED
    BY <1>2, <2>1, <2>3
<1>5. /\ Still
      /\ \/ OutsOf(P) = {} /\ Continue(c)
         \/ \E e \in OutsOf(P) : Become(c, Body("eachOut", e) \o <<On("eachOut", OutsOf(P) \ {e})>>)
  BY <1>4, LoopsDo DEF Loops
<1>6. Settling(P)'
  BY <1>5, SettlingStill
<1>7. CASE OutsOf(P) = {} /\ Continue(c)
  <2>1. P = {}
    BY <1>7 DEF OutsOf
  <2>2. Rest(<<>>, P)'
    BY <2>1 DEF Rest
  <2> QED
    BY <1>4, <1>6, <1>7, <2>2 DEF ClientInv, Resting
<1>8. ASSUME NEW e \in OutsOf(P), Become(c, Body("eachOut", e) \o <<On("eachOut", OutsOf(P) \ {e})>>)
      PROVE  ClientInv(c)'
  <2>1. PICK p \in P : e = <<p, pipeRow[p].out>>
    BY <1>8 DEF OutsOf
  <2>2. PICK o : o = pipeRow[p].out
    OBVIOUS
  <2>3. p \in PipeIds /\ o \in Outputs /\ e[1] = p /\ e[2] = o
    BY <2>1, <2>2, KeyTyped DEF Settling, Dead
  <2>4. OutsOf(P) \ {e} = OutsOf(P \ {p})
    BY <2>1 DEF OutsOf
  <2>5. PICK b : b = On("eachOut", OutsOf(P \ {p}))
    OBVIOUS
  <2>6. b \in Instr
    <3>1. Dead(P \ {p})
      BY DEF Settling, Dead
    <3> QED
      BY <2>5, <3>1, OutsOfTyped
  <2>7. PICK w : w = OutRound(p, o)
    OBVIOUS
  <2>8. w \in Seq(Instr) /\ w # <<>>
    BY <2>3, <2>7, OutRoundIs
  <2>9. Body("eachOut", e) = w
    BY <2>3, <2>7 DEF Body, OutRound
  <2>10. Become(c, w \o <<b>>)
    BY <1>8, <2>4, <2>5, <2>9
  <2>11. prog'[c] = After(w, <<b>> \o <<>>, 1)
    BY <1>2, <1>3, <2>6, <2>8, <2>10, Round
  <2>12. prog'[c] = After(w, <<b>>, 1)
    BY <2>6, <2>11, Joins
  <2>13. OutsOf(P \ {p})' = OutsOf(P \ {p})
    BY <1>5, StillRows DEF OutsOf
  <2>14. MarkingOut(c)'
    BY <1>6, <2>1, <2>3, <2>5, <2>7, <2>12, <2>13 DEF MarkingOut
  <2> QED
    BY <2>14 DEF ClientInv
<1> QED
  BY <1>5, <1>7, <1>8

LEMMA RestingStep ==
  ASSUME Steady, NEW c \in Callers, Exec(c), Resting(c)
  PROVE  ClientInv(c)'
<1>1. PICK P \in SUBSET PipeIds : Settling(P) /\ Rest(prog[c], P)
  BY DEF Resting
<1>2. prog[c] # <<>>
  BY NothingToDo DEF Idle
<1>3. ASSUME P = {}, NEW o \in Outputs, prog[c] = <<On("orphanOut", o)>>
      PROVE  ClientInv(c)'
  <2>1. On("orphanOut", o) \in Instr
    BY PlainInstr DEF OutOps
  <2>2. prog[c] = <<On("orphanOut", o)>> \o <<>>
    BY <1>3, <2>1, Joins
  <2>3. <<>> \in Seq(Instr) /\ Rest(<<>>, P)
    BY <1>3 DEF Rest
  <2>4. OrphaningOut(c)
    BY <1>1, <2>2, <2>3 DEF OrphaningOut
  <2> QED
    BY <2>4, OrphaningOutStep
<1>4. ASSUME prog[c] = <<On("eachOut", OutsOf(P))>> PROVE ClientInv(c)'
  BY <1>1, <1>4, EachOutStep
<1>5. ASSUME prog[c] = <<On("eachIn", InsOf(P))>> PROVE ClientInv(c)'
  BY <1>1, <1>5, EachInStep
<1> QED
  BY <1>1, <1>2, <1>3, <1>4, <1>5 DEF Rest

-----------------------------------------------------------------------------
(* PipeService: Create, Update, Delete, Stop.                                 *)
LEMMA CreatingPipeStep ==
  ASSUME Steady, NEW c \in Callers, Exec(c), CreatingPipe(c)
  PROVE  ClientInv(c)'
<1>1. PICK p \in PipeIds, i \in Inputs, o \in Outputs, k \in 1 .. 4 :
        prog[c] = After(CreatePipeProg(p, i, o), <<>>, k) /\ Calm /\ p \notin unborn /\ ~Exists(p)
  BY DEF CreatingPipe
<1>2. PICK w : w = CreatePipeProg(p, i, o)
  OBVIOUS
<1>3. /\ w \in Seq(Instr) /\ Len(w) = 4 /\ Plain(w)
      /\ w[1] = On("needOut", o) /\ w[2] = For("checkPair", i, o) /\ w[3] = On("checkOut", o)
      /\ w[4] = On("insertPipe", <<p, i, o>>)
  BY <1>2, CreatePipeIs
<1>4. /\ Arg(c) = w[k].x /\ At(c, w[k].op)
      /\ Continue(c) => prog'[c] = After(w, <<>>, k + 1)
      /\ Continue(c) /\ k = 4 => prog'[c] = <<>>
      /\ Fail(c) => prog'[c] = <<>>
  <2>1. ProgTyped /\ k \in 1 .. Len(w) /\ prog[c] = After(w, <<>>, k)
    BY <1>1, <1>2, <1>3 DEF Steady, PlaneInv
  <2>2. w \in Seq(Instr) /\ Plain(w)
    BY <1>3
  <2>3. /\ Arg(c) = w[k].x /\ At(c, w[k].op)
        /\ Continue(c) => prog'[c] = After(w, <<>>, k + 1)
        /\ Continue(c) /\ k = Len(w) => prog'[c] = <<>>
        /\ Fail(c) => prog'[c] = <<>>
    BY <2>1, <2>2, PlainStep
  <2> QED
    BY <1>3, <2>3
<1>5. CASE k # 4
  <2>1. k = 1 \/ k = 2 \/ k = 3
    BY <1>5
  <2>2. At(c, "needOut") \/ At(c, "checkPair") \/ At(c, "checkOut")
    BY <1>3, <1>4, <2>1, OnOp
  <2>3. Still /\ (Continue(c) \/ Fail(c))
    BY <2>2, ReadsDo, ChecksDo
  <2>4. CASE Continue(c)
    <3>1. Calm' /\ p \notin unborn' /\ ~Exists(p)'
      BY <1>1, <2>3, StillTrue, StillRows DEF Calm, Exists
    <3>2. k + 1 \in 1 .. 4
      BY <2>1
    <3>3. CreatingPipe(c)'
      BY <1>2, <1>4, <2>4, <3>1, <3>2 DEF CreatingPipe
    <3> QED
      BY <3>3 DEF ClientInv
  <2>5. CASE Fail(c)
    BY <1>1, <1>4, <2>3, <2>5, GivesUpStill
  <2> QED
    BY <2>3, <2>4, <2>5
<1>6. CASE k = 4
  <2>1. /\ At(c, "insertPipe") /\ Arg(c) = <<p, i, o>>
        /\ Arg(c)[1] = p /\ Arg(c)[2] = i /\ Arg(c)[3] = o
    BY <1>3, <1>4, <1>6 DEF On
  <2>2. /\ SameHub /\ UNCHANGED <<inRow, outRow>>
        /\ \/ /\ PairFree(p, i, o) /\ Continue(c)
              /\ pipeRow' = [pipeRow EXCEPT ![p] = [in |-> i, out |-> o, st |-> "stopped"]]
           \/ UNCHANGED pipeRow /\ Fail(c)
    BY <2>1, PipeWritesDo
  <2>3. Calm'
    <3>1. CASE PairFree(p, i, o)
               /\ pipeRow' = [pipeRow EXCEPT ![p] = [in |-> i, out |-> o, st |-> "stopped"]]
      BY <1>1, <2>2, <3>1, SaveKeeps
    <3>2. CASE UNCHANGED pipeRow
      BY <1>1, <2>2, <3>2, KeptStill DEF Calm, rowVars
    <3> QED
      BY <2>2, <3>1, <3>2
  <2>4. prog'[c] = <<>>
    BY <1>4, <1>6, <2>2
  <2> QED
    BY <2>3, <2>4, RestsCalm DEF ClientInv
<1> QED
  BY <1>5, <1>6

LEMMA UpdatingPipeStep ==
  ASSUME Steady, NEW c \in Callers, Exec(c), UpdatingPipe(c)
  PROVE  ClientInv(c)'
<1>1. PICK p \in PipeIds, i \in Inputs, o \in Outputs, k \in 1 .. 3 :
        prog[c] = After(UpdatePipeProg(p, i, o), <<>>, k) /\ Calm /\ Exists(p) /\ ~IsRunning(p)
  BY DEF UpdatingPipe
<1>2. PICK w : w = UpdatePipeProg(p, i, o)
  OBVIOUS
<1>3. /\ w \in Seq(Instr) /\ Len(w) = 3 /\ Plain(w)
      /\ w[1] = On("needIn", i) /\ w[2] = On("needOut", o) /\ w[3] = On("savePipe", <<p, i, o>>)
  BY <1>2, UpdatePipeIs
<1>4. /\ Arg(c) = w[k].x /\ At(c, w[k].op)
      /\ Continue(c) => prog'[c] = After(w, <<>>, k + 1)
      /\ Continue(c) /\ k = 3 => prog'[c] = <<>>
      /\ Fail(c) => prog'[c] = <<>>
  <2>1. ProgTyped /\ k \in 1 .. Len(w) /\ prog[c] = After(w, <<>>, k)
    BY <1>1, <1>2, <1>3 DEF Steady, PlaneInv
  <2>2. w \in Seq(Instr) /\ Plain(w)
    BY <1>3
  <2>3. /\ Arg(c) = w[k].x /\ At(c, w[k].op)
        /\ Continue(c) => prog'[c] = After(w, <<>>, k + 1)
        /\ Continue(c) /\ k = Len(w) => prog'[c] = <<>>
        /\ Fail(c) => prog'[c] = <<>>
    BY <2>1, <2>2, PlainStep
  <2> QED
    BY <1>3, <2>3
<1>5. CASE k # 3
  <2>1. k = 1 \/ k = 2
    BY <1>5
  <2>2. At(c, "needIn") \/ At(c, "needOut")
    BY <1>3, <1>4, <2>1, OnOp
  <2>3. Still /\ (Continue(c) \/ Fail(c))
    BY <2>2, ReadsDo
  <2>4. CASE Continue(c)
    <3>1. Calm' /\ Exists(p)' /\ ~IsRunning(p)'
      BY <1>1, <2>3, StillTrue, StillRows DEF Calm, Exists, IsRunning
    <3>2. k + 1 \in 1 .. 3
      BY <2>1
    <3>3. UpdatingPipe(c)'
      BY <1>2, <1>4, <2>4, <3>1, <3>2 DEF UpdatingPipe
    <3> QED
      BY <3>3 DEF ClientInv
  <2>5. CASE Fail(c)
    BY <1>1, <1>4, <2>3, <2>5, GivesUpStill
  <2> QED
    BY <2>3, <2>4, <2>5
<1>6. CASE k = 3
  <2>1. /\ At(c, "savePipe") /\ Arg(c) = <<p, i, o>>
        /\ Arg(c)[1] = p /\ Arg(c)[2] = i /\ Arg(c)[3] = o
    BY <1>3, <1>4, <1>6 DEF On
  <2>2. /\ SameHub /\ UNCHANGED <<inRow, outRow>>
        /\ \/ /\ PairFree(p, i, o) /\ Continue(c)
              /\ pipeRow' = [pipeRow EXCEPT ![p] = [in |-> i, out |-> o, st |-> "stopped"]]
           \/ UNCHANGED pipeRow /\ Fail(c)
    BY <2>1, PipeWritesDo
  <2>3. Calm'
    <3>1. CASE PairFree(p, i, o)
               /\ pipeRow' = [pipeRow EXCEPT ![p] = [in |-> i, out |-> o, st |-> "stopped"]]
      BY <1>1, <2>2, <3>1, SaveKeeps
    <3>2. CASE UNCHANGED pipeRow
      BY <1>1, <2>2, <3>2, KeptStill DEF Calm, rowVars
    <3> QED
      BY <2>2, <3>1, <3>2
  <2>4. prog'[c] = <<>>
    BY <1>4, <1>6, <2>2
  <2> QED
    BY <2>3, <2>4, RestsCalm DEF ClientInv
<1> QED
  BY <1>5, <1>6

(* Disconnect takes the pipe of the row p away.                               *)
LEMMA DisconnectSettles ==
  ASSUME Steady, Calm, UNCHANGED rowVars, NEW p \in PipeIds, NEW i \in Inputs, NEW o \in Outputs,
         RowIs(p, i, o), Disconnect(i, o)
  PROVE  /\ True({p}, {}, {})' /\ ~PipeOn(i, o)'
         /\ ~IsRunning(p) => Calm'
<1>1. True({}, {}, {}) /\ HubClean
  BY DEF Calm, True
<1>2. /\ SameIns /\ SameOuts /\ HubClean'
      /\ \A j \in Inputs, q \in Outputs : PipeOn(j, q)' <=> PipeOn(j, q) /\ ~(j = i /\ q = o)
      /\ \A j \in Inputs, q \in Outputs : Jammed(j, q)' <=> Jammed(j, q) /\ ~(j = i /\ q = o)
  BY <1>1, Disconnected
<1>3. PICK K : K = {<<i, o>>}
  OBVIOUS
<1>4. /\ \A j \in Inputs, q \in Outputs : PipeOn(j, q)' <=> PipeOn(j, q) /\ <<j, q>> \notin K
      /\ \A j \in Inputs, q \in Outputs : Jammed(j, q)' <=> Jammed(j, q) /\ <<j, q>> \notin K
  BY <1>2, <1>3
<1>5. \A q \in PipeIds \ {p} : Exists(q) => Key(q) \notin K
  BY <1>3 DEF RowIs, Steady, PairUnique, Key
<1>6. InsTrue({})' /\ OutsTrue({})'
  <2>1. UNCHANGED <<inRow, outRow>>
    BY DEF rowVars
  <2> QED
    BY <1>1, <1>2, <2>1 DEF True, InsTrue, OutsTrue, SameIns, SameOuts, Sure
<1>7. True({} \cup {p}, {}, {})'
  BY <1>1, <1>2, <1>4, <1>5, <1>6, PipesTurnOff
<1>8. ~IsRunning(p) => True({} \cup {}, {}, {})'
  BY <1>1, <1>2, <1>4, <1>5, <1>6, PipesTurnOff
<1> QED
  BY <1>2, <1>7, <1>8 DEF Calm

LEMMA DeletingPipeStep ==
  ASSUME Steady, NEW c \in Callers, Exec(c), DeletingPipe(c)
  PROVE  ClientInv(c)'
<1>1. PICK p \in PipeIds, i \in Inputs, o \in Outputs, k \in 1 .. 2 :
        prog[c] = After(DeletePipeProg(p, i, o), <<>>, k) /\ Calm /\ RowIs(p, i, o) /\ ~IsRunning(p)
  BY DEF DeletingPipe
<1>2. PICK w : w = DeletePipeProg(p, i, o)
  OBVIOUS
<1>3. /\ w \in Seq(Instr) /\ Len(w) = 2 /\ Plain(w)
      /\ w[1] = For("disconnect", i, o) /\ w[2] = On("dropPipe", p)
  BY <1>2, DeletePipeIs
<1>4. /\ Arg(c) = w[k].x /\ At(c, w[k].op)
      /\ Continue(c) => prog'[c] = After(w, <<>>, k + 1)
      /\ Continue(c) /\ k = 2 => prog'[c] = <<>>
  <2>1. ProgTyped /\ k \in 1 .. Len(w) /\ prog[c] = After(w, <<>>, k)
    BY <1>1, <1>2, <1>3 DEF Steady, PlaneInv
  <2>2. w \in Seq(Instr) /\ Plain(w)
    BY <1>3
  <2>3. /\ Arg(c) = w[k].x /\ At(c, w[k].op)
        /\ Continue(c) => prog'[c] = After(w, <<>>, k + 1)
        /\ Continue(c) /\ k = Len(w) => prog'[c] = <<>>
        /\ Fail(c) => prog'[c] = <<>>
    BY <2>1, <2>2, PlainStep
  <2> QED
    BY <1>3, <2>3
<1>5. CASE k = 1
  <2>1. At(c, "disconnect") /\ Arg(c)[1] = i /\ Arg(c)[2] = o
    BY <1>3, <1>4, <1>5 DEF For, On
  <2>2. Disconnect(i, o) /\ Continue(c) /\ SameRows
    BY <2>1, CallsDo
  <2>3. UNCHANGED <<rowVars, pipeRow>>
    BY <2>2 DEF SameRows, rowVars
  <2>4. Calm'
    BY <1>1, <2>2, <2>3, DisconnectSettles
  <2>5. RowIs(p, i, o)' /\ ~IsRunning(p)'
    BY <1>1, <2>3 DEF RowIs, IsRunning, Exists
  <2>6. DeletingPipe(c)'
    <3>1. prog'[c] = After(w, <<>>, 2) /\ 2 \in 1 .. 2
      BY <1>4, <1>5, <2>2
    <3> QED
      BY <1>2, <2>4, <2>5, <3>1 DEF DeletingPipe
  <2> QED
    BY <2>6 DEF ClientInv
<1>6. CASE k = 2
  <2>1. At(c, "dropPipe") /\ Arg(c) = p
    BY <1>3, <1>4, <1>6 DEF On
  <2>2. /\ SameHub /\ UNCHANGED <<inRow, outRow>> /\ Continue(c)
        /\ pipeRow' = [pipeRow EXCEPT ![p] = NoRow]
    BY <2>1, InsertsDo
  <2>3. Calm'
    BY <1>1, <2>2, DropKeeps DEF RowIs
  <2>4. prog'[c] = <<>>
    BY <1>4, <1>6, <2>2
  <2> QED
    BY <2>3, <2>4, RestsCalm DEF ClientInv
<1> QED
  BY <1>5, <1>6

LEMMA StoppingPipeStep ==
  ASSUME Steady, NEW c \in Callers, Exec(c), StoppingPipe(c)
  PROVE  ClientInv(c)'
<1>1. PICK p \in PipeIds, i \in Inputs, o \in Outputs, k \in 1 .. 2 :
        /\ prog[c] = After(EndPipeProg(p, i, o), OrphanProg(i, o), k) /\ RowIs(p, i, o) /\ IsRunning(p)
        /\ k = 1 => Calm
        /\ k = 2 => Settling({p})
  BY DEF StoppingPipe
<1>2. PICK w : w = EndPipeProg(p, i, o)
  OBVIOUS
<1>3. /\ w \in Seq(Instr) /\ Len(w) = 2
      /\ w[1] = For("disconnect", i, o) /\ w[2] = Set("setPipe", p, "stopped")
  BY <1>2, EndPipeIs
<1>4. PICK t : t = OrphanProg(i, o)
  OBVIOUS
<1>5. t \in Seq(Instr) /\ t = <<On("orphanIn", i)>> \o <<On("orphanOut", o)>> /\ <<On("orphanOut", o)>> \in Seq(Instr)
  <2>1. On("orphanIn", i) \in Instr /\ On("orphanOut", o) \in Instr
    BY PlainInstr DEF InOps, OutOps
  <2>2. t = <<On("orphanIn", i), On("orphanOut", o)>>
    BY <1>4 DEF OrphanProg
  <2> QED
    BY <2>1, <2>2, Joins
<1>6. /\ prog[c][1] = w[k] /\ Arg(c) = w[k].x /\ At(c, w[k].op)
      /\ Continue(c) => prog'[c] = After(w, t, k + 1)
      /\ Continue(c) /\ k = 2 => prog'[c] = t
  <2>1. ProgTyped /\ k \in 1 .. Len(w) /\ prog[c] = After(w, t, k)
    BY <1>1, <1>2, <1>3, <1>4 DEF Steady, PlaneInv
  <2>2. /\ prog[c][1] = w[k] /\ Arg(c) = w[k].x /\ At(c, w[k].op)
        /\ Continue(c) => prog'[c] = After(w, t, k + 1)
        /\ Continue(c) /\ k = Len(w) => prog'[c] = t
    <3>1. w \in Seq(Instr) /\ t \in Seq(Instr)
      BY <1>3, <1>5
    <3> QED
      BY <2>1, <3>1, WordStep
  <2> QED
    BY <1>3, <2>2
<1>7. CASE k = 1
  <2>1. At(c, "disconnect") /\ Arg(c)[1] = i /\ Arg(c)[2] = o
    BY <1>3, <1>6, <1>7 DEF For, On
  <2>2. Disconnect(i, o) /\ Continue(c) /\ SameRows
    BY <2>1, CallsDo
  <2>3. UNCHANGED <<rowVars, pipeRow>>
    BY <2>2 DEF SameRows, rowVars
  <2>4. True({p}, {}, {})' /\ ~PipeOn(i, o)'
    BY <1>1, <1>7, <2>2, <2>3, DisconnectSettles
  <2>5. RowIs(p, i, o)' /\ IsRunning(p)'
    BY <1>1, <2>3 DEF RowIs, IsRunning, Exists
  <2>6. Settling({p})'
    BY <2>4, <2>5 DEF Settling, Dead, RowIs
  <2>7. StoppingPipe(c)'
    <3>1. prog'[c] = After(w, t, 2) /\ 2 \in 1 .. 2 /\ 2 # 1
      BY <1>6, <1>7, <2>2
    <3> QED
      BY <1>2, <1>4, <2>5, <2>6, <3>1 DEF StoppingPipe
  <2> QED
    BY <2>7 DEF ClientInv
<1>8. CASE k = 2
  <2>1. At(c, "setPipe") /\ Arg(c) = p /\ prog[c][1].st = "stopped"
    BY <1>3, <1>6, <1>8 DEF Set
  <2>2. /\ SameHub /\ UNCHANGED <<inRow, outRow>> /\ Continue(c)
        /\ pipeRow' = IF Exists(p) THEN [pipeRow EXCEPT ![p].st = "stopped"] ELSE pipeRow
    BY <2>1, WritesDo
  <2>3. Settling({p} \ {p})'
    BY <1>1, <1>8, <2>2, MarkSettles
  <2>4. PICK P \in SUBSET PipeIds : P = {p} \ {p} /\ P = {}
    OBVIOUS
  <2>5. Settling(P)'
    BY <2>3, <2>4
  <2>6. Rest(<<On("orphanOut", o)>>, P)'
    BY <2>4 DEF Rest
  <2>7. prog'[c] = <<On("orphanIn", i)>> \o <<On("orphanOut", o)>>
    BY <1>5, <1>6, <1>8, <2>2
  <2>8. OrphaningIn(c)'
    BY <1>5, <2>5, <2>6, <2>7 DEF OrphaningIn
  <2> QED
    BY <2>8 DEF ClientInv
<1> QED
  BY <1>7, <1>8

-----------------------------------------------------------------------------
(* InputService and OutputService.                                            *)
LEMMA OneLeft ==
  ASSUME ProgTyped, NEW c \in Callers, NEW a \in Instr, prog[c] = <<a>>
  PROVE  At(c, a.op) /\ Arg(c) = a.x /\ prog[c][1] = a /\ (Continue(c) => prog'[c] = <<>>)
<1>1. PICK t : t = <<>>
  OBVIOUS
<1>2. t \in Seq(Instr) /\ prog[c] = <<a>> \o t
  BY <1>1, Joins
<1>3. At(c, a.op) /\ Arg(c) = a.x /\ (Continue(c) => prog'[c] = t)
  BY <1>2, FrontIs
<1> QED
  BY <1>1, <1>3

(* RemoveInput takes the input away, and the pipes on it.                     *)
LEMMA InputGoes ==
  ASSUME Steady, UNCHANGED rowVars, NEW i \in Inputs, RemoveInput(i) \/ InputMissing(i),
         NEW P \in SUBSET PipeIds, True({}, {}, {}),
         \A p \in PipeIds \ P : Exists(p) /\ IsRunning(p) => pipeRow[p].in # i
  PROVE  /\ True(P, {i}, {})' /\ ~InOn(i)'
         /\ \A j \in Inputs, x \in Outputs : PipeOn(j, x)' <=> PipeOn(j, x) /\ j # i
<1>1. HubClean
  BY DEF True
<1>2. /\ \A j \in Inputs : InOn(j)' <=> InOn(j) /\ j # i
      /\ \A j \in Inputs, x \in Outputs : PipeOn(j, x)' <=> PipeOn(j, x) /\ j # i
      /\ \A j \in Inputs, x \in Outputs : Jammed(j, x)' <=> Jammed(j, x) /\ j # i
      /\ SameOuts /\ HubClean'
  BY <1>1, InputRemoved
<1>3. UNCHANGED <<inRow, outRow>>
  BY DEF rowVars
<1>4. InsTrue({i})' /\ OutsTrue({})'
  BY <1>2, <1>3 DEF True, InsTrue, OutsTrue, SameOuts, Sure
<1>5. PICK K : K = KeysOfInput(i)
  OBVIOUS
<1>6. \A j \in Inputs, x \in Outputs : <<j, x>> \in K <=> j = i
  BY <1>5 DEF KeysOfInput
<1>7. \A p \in PipeIds \ ({} \cup P) : Exists(p) /\ IsRunning(p) => Key(p) \notin K
  BY <1>6, KeyTyped DEF Key
<1>8. /\ \A j \in Inputs, x \in Outputs : PipeOn(j, x)' <=> PipeOn(j, x) /\ <<j, x>> \notin K
      /\ \A j \in Inputs, x \in Outputs : Jammed(j, x)' <=> Jammed(j, x) /\ <<j, x>> \notin K
  BY <1>2, <1>6
<1>9. True({} \cup P, {i}, {})'
  BY <1>2, <1>4, <1>7, <1>8, PipesTurnOff
<1>10. {} \cup P = P
  OBVIOUS
<1> QED
  BY <1>2, <1>9, <1>10

\* A running pipe's input has a row that says running.
LEMMA InputFree ==
  ASSUME NEW P, NEW I, NEW O, True(P, I, O), NEW i \in Inputs, inRow[i] # "running"
  PROVE  \A p \in PipeIds \ P : Exists(p) /\ IsRunning(p) => pipeRow[p].in # i
  BY DEF True, RowHolds

LEMMA CreatingInputStep ==
  ASSUME Steady, NEW c \in Callers, Exec(c), CreatingInput(c)
  PROVE  ClientInv(c)'
<1>1. PICK i \in Inputs : Calm /\ inRow[i] = "none" /\ prog[c] = <<On("insertIn", i)>>
  BY DEF CreatingInput
<1>2. PICK a : a = On("insertIn", i)
  OBVIOUS
<1>3. a \in Instr /\ a.op = "insertIn" /\ a.x = i
  BY <1>2, PlainInstr DEF InOps, On
<1>4. At(c, "insertIn") /\ Arg(c) = i /\ (Continue(c) => prog'[c] = <<>>)
  <2>1. ProgTyped /\ prog[c] = <<a>>
    BY <1>1, <1>2 DEF Steady, PlaneInv
  <2> QED
    BY <1>3, <2>1, OneLeft
<1>5. /\ SameHub /\ UNCHANGED <<outRow, pipeRow>> /\ Continue(c)
      /\ inRow' = [inRow EXCEPT ![i] = "stopped"]
  BY <1>4, InsertsDo
<1>6. Calm'
  <2>1. (\A j \in Inputs \ {i} : inRow'[j] = inRow[j]) /\ inRow'[i] = "stopped"
    BY <1>5 DEF Steady, PlaneInv, RowsTyped
  <2>2. True({}, {}, {})
    BY <1>1 DEF Calm
  <2>3. Sure => (inRow'[i] = "running" <=> InOn(i))
    BY <1>1, <2>1, <2>2 DEF True, InsTrue
  <2>4. \A p \in PipeIds \ {} : Exists(p) /\ IsRunning(p) => pipeRow[p].in # i
    BY <1>1, <2>2, InputFree
  <2>5. {} \subseteq {} \cup {i}
    OBVIOUS
  <2> QED
    BY <1>5, <2>1, <2>2, <2>3, <2>4, <2>5, InputRowWritten DEF Calm
<1>7. Resting(c)'
  BY <1>4, <1>5, <1>6, RestsCalm
<1> QED
  BY <1>7 DEF ClientInv

LEMMA UpdatingInputStep ==
  ASSUME Steady, NEW c \in Callers, Exec(c), UpdatingInput(c)
  PROVE  ClientInv(c)'
<1>1. PICK i \in Inputs : Calm /\ inRow[i] # "none" /\ prog[c] = <<Set("saveIn", i, inRow[i])>>
  BY DEF UpdatingInput
<1>2. PICK a : a = Set("saveIn", i, inRow[i])
  OBVIOUS
<1>3. a \in Instr /\ a.op = "saveIn" /\ a.x = i /\ a.st = inRow[i]
  <2>1. inRow[i] \in Status
    BY <1>1 DEF Steady, PlaneInv, RowsTyped
  <2> QED
    BY <1>2, <2>1, StampedInstr DEF Set
<1>4. At(c, "saveIn") /\ Arg(c) = i /\ prog[c][1] = a /\ (Continue(c) => prog'[c] = <<>>)
  <2>1. ProgTyped /\ prog[c] = <<a>>
    BY <1>1, <1>2 DEF Steady, PlaneInv
  <2> QED
    BY <1>3, <2>1, OneLeft
<1>5. /\ SameHub /\ UNCHANGED <<outRow, pipeRow>> /\ Continue(c)
      /\ inRow' = [inRow EXCEPT ![i] = inRow[i]]
  BY <1>3, <1>4, InsertsDo
<1>6. UNCHANGED rowVars
  BY <1>5 DEF Steady, PlaneInv, RowsTyped, rowVars
<1>7. Calm'
  BY <1>1, <1>5, <1>6, KeptStill DEF Calm
<1>8. Resting(c)'
  BY <1>4, <1>5, <1>7, RestsCalm
<1> QED
  BY <1>8 DEF ClientInv

LEMMA DeletingInputStep ==
  ASSUME Steady, NEW c \in Callers, Exec(c), DeletingInput(c)
  PROVE  ClientInv(c)'
<1>1. PICK i \in Inputs, k \in 1 .. 2 :
        /\ prog[c] = After(DeleteInputProg(i), <<>>, k) /\ inRow[i] = "stopped"
        /\ True({}, IF k = 2 THEN {i} ELSE {}, {})
        /\ k = 2 => ~InOn(i)
  BY DEF DeletingInput
<1>2. PICK w : w = DeleteInputProg(i)
  OBVIOUS
<1>3. /\ w \in Seq(Instr) /\ Len(w) = 2 /\ Plain(w)
      /\ w[1] = On("removeIn", i) /\ w[2] = On("dropIn", i)
  BY <1>2, DeleteInputIs
<1>4. /\ Arg(c) = w[k].x /\ At(c, w[k].op)
      /\ Continue(c) => prog'[c] = After(w, <<>>, k + 1)
      /\ Continue(c) /\ k = 2 => prog'[c] = <<>>
  <2>1. ProgTyped /\ k \in 1 .. Len(w) /\ prog[c] = After(w, <<>>, k)
    BY <1>1, <1>2, <1>3 DEF Steady, PlaneInv
  <2>2. w \in Seq(Instr) /\ Plain(w)
    BY <1>3
  <2>3. /\ prog[c][1] = w[k] /\ Arg(c) = w[k].x /\ At(c, w[k].op)
        /\ Continue(c) => prog'[c] = After(w, <<>>, k + 1)
        /\ Continue(c) /\ k = Len(w) => prog'[c] = <<>>
        /\ Fail(c) => prog'[c] = <<>>
    BY <2>1, <2>2, PlainStep
  <2> QED
    BY <1>3, <2>3
<1>5. \A p \in PipeIds : Exists(p) /\ IsRunning(p) => pipeRow[p].in # i
  BY <1>1, InputFree
<1>6. CASE k = 1
  <2>1. At(c, "removeIn") /\ Arg(c) = i
    BY <1>3, <1>4, <1>6 DEF On
  <2>2. (RemoveInput(i) \/ InputMissing(i)) /\ Continue(c) /\ SameRows
    BY <2>1, CallsDo
  <2>3. UNCHANGED <<rowVars, inRow>>
    BY <2>2 DEF SameRows, rowVars
  <2>4. True({}, {i}, {})' /\ ~InOn(i)'
    <3>1. True({}, {}, {})
      BY <1>1, <1>6
    <3>2. \A p \in PipeIds \ {} : Exists(p) /\ IsRunning(p) => pipeRow[p].in # i
      BY <1>5
    <3> QED
      BY <2>2, <2>3, <3>1, <3>2, InputGoes
  <2>5. DeletingInput(c)'
    <3>1. prog'[c] = After(w, <<>>, 2) /\ 2 \in 1 .. 2 /\ inRow'[i] = "stopped"
      BY <1>1, <1>4, <1>6, <2>2, <2>3
    <3>2. True({}, IF 2 = 2 THEN {i} ELSE {}, {})'
      BY <2>4
    <3> QED
      BY <1>2, <2>4, <3>1, <3>2 DEF DeletingInput
  <2> QED
    BY <2>5 DEF ClientInv
<1>7. CASE k = 2
  <2>1. At(c, "dropIn") /\ Arg(c) = i
    BY <1>3, <1>4, <1>7 DEF On
  <2>2. /\ SameHub /\ UNCHANGED <<outRow, pipeRow>> /\ Continue(c)
        /\ inRow' = [inRow EXCEPT ![i] = "none"]
    BY <2>1, InsertsDo
  <2>3. Calm'
    <3>1. (\A j \in Inputs \ {i} : inRow'[j] = inRow[j]) /\ inRow'[i] = "none"
      BY <2>2 DEF Steady, PlaneInv, RowsTyped
    <3>2. True({}, {i}, {}) /\ ~InOn(i)
      BY <1>1, <1>7
    <3>3. inRow'[i] = "running" <=> InOn(i)
      BY <3>1, <3>2
    <3>4. (\A p \in PipeIds \ {} : Exists(p) /\ IsRunning(p) => pipeRow[p].in # i) /\ {i} \subseteq {} \cup {i}
      BY <1>5
    <3> QED
      BY <2>2, <3>1, <3>2, <3>3, <3>4, InputRowWritten DEF Calm
  <2>4. Resting(c)'
    BY <1>4, <1>7, <2>2, <2>3, RestsCalm
  <2> QED
    BY <2>4 DEF ClientInv
<1> QED
  BY <1>6, <1>7

LEMMA OpenedInput ==
  ASSUME Steady, Calm, UNCHANGED rowVars, NEW c \in Callers, NEW i \in Inputs, OpenInput(c, i)
  PROVE  /\ Calm' /\ sources'[i] # 0 /\ held'[c] = <<"src", sources'[i]>>
<1>1. True({}, {}, {}) /\ HubClean
  BY DEF Calm, True
<1>2. held'[c] = <<"src", sources'[i]>>
  BY DEF OpenInput, Hold, Steady, PlaneInv, HubInv, HubTypeOK
<1>3. CASE CreateInput(i)
  <2>1. SameRun /\ HubClean' /\ sources'[i] # 0
    BY <1>1, <1>3, InputMade
  <2> QED
    BY <1>1, <1>2, <2>1, Kept DEF Calm
<1>4. CASE InputFound(i)
  <2>1. UNCHANGED <<regVars, srcOn, snkOn, pstate>> /\ sources'[i] # 0
    BY <1>4 DEF InputFound, regVars, objVars
  <2>2. SameRun /\ HubClean'
    BY <1>1, <2>1, NothingMoves
  <2> QED
    BY <1>1, <1>2, <2>1, <2>2, Kept DEF Calm
<1> QED
  BY <1>3, <1>4 DEF OpenInput

LEMMA BeginningInputStep ==
  ASSUME Steady, NEW c \in Callers, Exec(c), BeginningInput(c)
  PROVE  ClientInv(c)'
<1>1. PICK i \in Inputs, k \in 1 .. 4 :
        /\ prog[c] = After(StartInputProg(i), <<>>, k)
        /\ True({}, IF k = 4 THEN {i} ELSE {}, {})
        /\ k >= 2 => inRow[i] # "none"
        /\ k = 3 => sources[i] # 0 /\ held[c] = <<"src", sources[i]>>
        /\ k = 4 => InOn(i)
  BY DEF BeginningInput
<1>2. PICK w : w = StartInputProg(i)
  OBVIOUS
<1>3. /\ w \in Seq(Instr) /\ Len(w) = 4 /\ Plain(w)
      /\ w[1] = On("needIn", i) /\ w[2] = On("openIn", i) /\ w[3] = On("runInOrFail", i)
      /\ w[4] = Set("setIn", i, "running")
  BY <1>2, BeginInputIs
<1>4. /\ prog[c][1] = w[k] /\ Arg(c) = w[k].x /\ At(c, w[k].op)
      /\ Continue(c) => prog'[c] = After(w, <<>>, k + 1)
      /\ Continue(c) /\ k = 4 => prog'[c] = <<>>
      /\ Fail(c) => prog'[c] = <<>>
  <2>1. ProgTyped /\ k \in 1 .. Len(w) /\ prog[c] = After(w, <<>>, k)
    BY <1>1, <1>2, <1>3 DEF Steady, PlaneInv
  <2>2. w \in Seq(Instr) /\ Plain(w)
    BY <1>3
  <2>3. /\ prog[c][1] = w[k] /\ Arg(c) = w[k].x /\ At(c, w[k].op)
        /\ Continue(c) => prog'[c] = After(w, <<>>, k + 1)
        /\ Continue(c) /\ k = Len(w) => prog'[c] = <<>>
        /\ Fail(c) => prog'[c] = <<>>
    BY <2>1, <2>2, PlainStep
  <2> QED
    BY <1>3, <2>3
<1>5. k # 4 => Calm
  BY <1>1 DEF Calm
<1>6. k = 1 \/ k = 2 \/ k = 3 \/ k = 4
  OBVIOUS
<1>7. CASE k = 1
  <2>1. At(c, "needIn") /\ Arg(c) = i
    BY <1>3, <1>4, <1>7 DEF On
  <2>2. /\ Still
        /\ inRow[i] # "none" => Continue(c)
        /\ inRow[i] = "none" => Fail(c)
    BY <2>1, ReadsDo
  <2>3. CASE inRow[i] # "none"
    <3>1. prog'[c] = After(w, <<>>, 2) /\ 2 \in 1 .. 4
      BY <1>4, <1>7, <2>2, <2>3
    <3>2. Calm' /\ inRow'[i] # "none"
      BY <1>5, <1>7, <2>2, <2>3, StillTrue, StillRows DEF Calm
    <3>3. True({}, IF 2 = 4 THEN {i} ELSE {}, {})'
      BY <3>2 DEF Calm
    <3>4. BeginningInput(c)'
      BY <1>2, <3>1, <3>2, <3>3 DEF BeginningInput
    <3> QED
      BY <3>4 DEF ClientInv
  <2>4. CASE inRow[i] = "none"
    BY <1>4, <1>5, <1>7, <2>2, <2>4, GivesUpStill
  <2> QED
    BY <2>3, <2>4
<1>8. CASE k = 2
  <2>1. At(c, "openIn") /\ Arg(c) = i
    BY <1>3, <1>4, <1>8 DEF On
  <2>2. /\ \/ OpenInput(c, i) /\ Continue(c)
           \/ UNCHANGED hubVars /\ Fail(c)
        /\ SameRows
    BY <2>1, FindsDo
  <2>3. UNCHANGED <<rowVars, inRow>>
    BY <2>2 DEF SameRows, rowVars
  <2>4. CASE OpenInput(c, i) /\ Continue(c)
    <3>1. Calm' /\ sources'[i] # 0 /\ held'[c] = <<"src", sources'[i]>>
      BY <1>5, <1>8, <2>3, <2>4, OpenedInput
    <3>2. prog'[c] = After(w, <<>>, 3) /\ 3 \in 1 .. 4 /\ inRow'[i] # "none"
      BY <1>1, <1>4, <1>8, <2>3, <2>4
    <3>3. True({}, IF 3 = 4 THEN {i} ELSE {}, {})'
      BY <3>1 DEF Calm
    <3>4. BeginningInput(c)'
      BY <1>2, <3>1, <3>2, <3>3 DEF BeginningInput
    <3> QED
      BY <3>4 DEF ClientInv
  <2>5. CASE UNCHANGED hubVars /\ Fail(c)
    <3>1. Calm'
      BY <1>5, <1>8, <2>3, <2>5, KeptStill DEF SameHub, Calm
    <3>2. Resting(c)'
      BY <1>4, <2>5, <3>1, RestsCalm
    <3> QED
      BY <3>2 DEF ClientInv
  <2> QED
    BY <2>2, <2>4, <2>5
<1>9. CASE k = 3
  <2>1. At(c, "runInOrFail") /\ Arg(c) = i
    BY <1>3, <1>4, <1>9 DEF On
  <2>2. /\ (RunSource(c) /\ Continue(c)) \/ (RunSourceFails(c) /\ Fail(c))
        /\ SameRows
    BY <2>1, RunsDo
  <2>3. UNCHANGED <<rowVars, inRow>>
    BY <2>2 DEF SameRows, rowVars
  <2>4. True({}, {}, {}) /\ HubClean
    BY <1>5, <1>9 DEF Calm, True
  <2>5. CASE RunSource(c) /\ Continue(c)
    <3>1. /\ \A j \in Inputs : InOn(j)' <=> InOn(j) \/ j = i
          /\ SameOuts /\ SamePipes /\ SameJams /\ HubClean'
      BY <1>1, <1>9, <2>4, <2>5, SourceRuns
    <3>2. True({}, {} \cup {i}, {})'
      BY <2>3, <2>4, <3>1, InputTurnsOn
    <3>3. True({}, IF 4 = 4 THEN {i} ELSE {}, {})'
      <4>1. {} \cup {i} = {i}
        OBVIOUS
      <4> QED
        BY <3>2, <4>1
    <3>4. InOn(i)'
      BY <3>1
    <3>5. prog'[c] = After(w, <<>>, 4) /\ 4 \in 1 .. 4 /\ 4 # 3 /\ inRow'[i] # "none"
      BY <1>1, <1>4, <1>9, <2>3, <2>5
    <3>6. BeginningInput(c)'
      BY <1>2, <3>3, <3>4, <3>5 DEF BeginningInput
    <3> QED
      BY <3>6 DEF ClientInv
  <2>6. CASE RunSourceFails(c) /\ Fail(c)
    <3>1. UNCHANGED <<regVars, srcOn, snkOn, pstate>>
      BY <2>6 DEF RunSourceFails, objVars
    <3>2. Calm'
      BY <2>3, <2>4, <3>1, NothingMoves, Kept DEF Calm
    <3>3. Resting(c)'
      BY <1>4, <2>6, <3>2, RestsCalm
    <3> QED
      BY <3>3 DEF ClientInv
  <2> QED
    BY <2>2, <2>5, <2>6
<1>10. CASE k = 4
  <2>1. At(c, "setIn") /\ Arg(c) = i /\ prog[c][1].st = "running"
    BY <1>3, <1>4, <1>10 DEF Set
  <2>2. /\ SameHub /\ UNCHANGED <<outRow, pipeRow>> /\ Continue(c)
        /\ inRow' = IF inRow[i] = "none" THEN inRow ELSE [inRow EXCEPT ![i] = "running"]
    BY <2>1, WritesDo
  <2>3. Calm'
    <3>1. (\A j \in Inputs \ {i} : inRow'[j] = inRow[j]) /\ inRow'[i] = "running"
      BY <1>1, <1>10, <2>2 DEF Steady, PlaneInv, RowsTyped
    <3>2. True({}, {i}, {}) /\ InOn(i)
      BY <1>1, <1>10
    <3>3. {i} \subseteq {} \cup {i}
      OBVIOUS
    <3> QED
      BY <2>2, <3>1, <3>2, <3>3, InputRowWritten DEF Calm
  <2>4. Resting(c)'
    BY <1>4, <1>10, <2>2, <2>3, RestsCalm
  <2> QED
    BY <2>4 DEF ClientInv
<1> QED
  BY <1>6, <1>7, <1>8, <1>9, <1>10

LEMMA StoppingInputStep ==
  ASSUME Steady, NEW c \in Callers, Exec(c), StoppingInput(c)
  PROVE  ClientInv(c)'
<1>1. PICK i \in Inputs, P \in SUBSET PipeIds, k \in 1 .. 3 :
        /\ prog[c] = After(StopInputProg(i), <<>>, k) /\ P = {p \in PipesOf(i) : IsRunning(p)}
        /\ k = 1 => Calm
        /\ k >= 2 => Dead(P) /\ ~InOn(i) /\ True(P, IF k = 2 THEN {i} ELSE {}, {})
  BY DEF StoppingInput
<1>2. PICK w : w = StopInputProg(i)
  OBVIOUS
<1>3. /\ w \in Seq(Instr) /\ Len(w) = 3 /\ Plain(w)
      /\ w[1] = On("removeIn", i) /\ w[2] = Set("setIn", i, "stopped") /\ w[3] = On("cascadeIn", i)
  BY <1>2, StopInputIs
<1>4. /\ prog[c][1] = w[k] /\ Arg(c) = w[k].x /\ At(c, w[k].op)
      /\ Continue(c) => prog'[c] = After(w, <<>>, k + 1)
  <2>1. ProgTyped /\ k \in 1 .. Len(w) /\ prog[c] = After(w, <<>>, k)
    BY <1>1, <1>2, <1>3 DEF Steady, PlaneInv
  <2>2. w \in Seq(Instr) /\ Plain(w)
    BY <1>3
  <2> QED
    BY <2>1, <2>2, PlainStep
<1>5. P = {p \in PipesOf(i) : IsRunning(p)}
  BY <1>1
<1>6. /\ P \in SUBSET PipeIds
      /\ \A p \in P : Exists(p) /\ IsRunning(p) /\ pipeRow[p].in = i
      /\ \A p \in PipeIds \ P : Exists(p) /\ IsRunning(p) => pipeRow[p].in # i
  BY <1>5 DEF PipesOf
<1>7. k >= 2 => Dead(P) /\ ~InOn(i) /\ True(P, IF k = 2 THEN {i} ELSE {}, {})
  BY <1>1, <1>5
<1>8. k = 1 \/ k = 2 \/ k = 3
  OBVIOUS
<1>9. CASE k = 1
  <2>1. At(c, "removeIn") /\ Arg(c) = i
    BY <1>3, <1>4, <1>9 DEF On
  <2>2. (RemoveInput(i) \/ InputMissing(i)) /\ Continue(c) /\ SameRows
    BY <2>1, CallsDo
  <2>3. UNCHANGED <<rowVars, pipeRow>>
    BY <2>2 DEF SameRows, rowVars
  <2>4. /\ True(P, {i}, {})' /\ ~InOn(i)'
        /\ \A j \in Inputs, x \in Outputs : PipeOn(j, x)' <=> PipeOn(j, x) /\ j # i
    BY <1>1, <1>6, <1>9, <2>2, <2>3, InputGoes DEF Calm
  <2>5. Dead(P)'
    BY <1>6, <2>3, <2>4, KeyTyped DEF Dead, Exists, IsRunning
  <2>6. P = {p \in PipesOf(i) : IsRunning(p)}'
    BY <1>5, <2>3 DEF PipesOf, IsRunning, Exists
  <2>7. StoppingInput(c)'
    <3>1. prog'[c] = After(w, <<>>, 2) /\ 2 \in 1 .. 3 /\ 2 # 1
      BY <1>4, <1>9, <2>2
    <3>2. Dead(P)' /\ ~InOn(i)' /\ True(P, IF 2 = 2 THEN {i} ELSE {}, {})' /\ P \in SUBSET PipeIds
      BY <1>6, <2>4, <2>5, <2>6
    <3>3. P = {p \in PipesOf(i) : IsRunning(p)}'
      BY <2>4, <2>5, <2>6
    <3> QED
      BY <1>2, <3>1, <3>2, <3>3 DEF StoppingInput
  <2> QED
    BY <2>7 DEF ClientInv
<1>10. CASE k = 2
  <2>1. At(c, "setIn") /\ Arg(c) = i /\ prog[c][1].st = "stopped"
    BY <1>3, <1>4, <1>10 DEF Set
  <2>2. /\ SameHub /\ UNCHANGED <<outRow, pipeRow>> /\ Continue(c)
        /\ inRow' = IF inRow[i] = "none" THEN inRow ELSE [inRow EXCEPT ![i] = "stopped"]
    BY <2>1, WritesDo
  <2>3. (\A j \in Inputs \ {i} : inRow'[j] = inRow[j]) /\ inRow'[i] # "running"
    BY <2>2 DEF Steady, PlaneInv, RowsTyped
  <2>4. True(P, {i}, {}) /\ ~InOn(i) /\ Dead(P)
    BY <1>7, <1>10
  <2>5. True(P, {}, {})'
    <3>1. {i} \subseteq {} \cup {i}
      OBVIOUS
    <3>2. inRow'[i] = "running" <=> InOn(i)
      BY <2>3, <2>4
    <3> QED
      BY <1>6, <2>2, <2>3, <2>4, <3>1, <3>2, InputRowWritten
  <2>6. SameIns /\ SamePipes
    BY <2>2, HubStays
  <2>7. Dead(P)' /\ ~InOn(i)'
    <3>1. \A j \in Inputs, x \in Outputs : PipeOn(j, x)' => PipeOn(j, x)
      BY <2>6 DEF SamePipes
    <3>2. Dead(P)'
      BY <2>2, <2>4, <3>1, DeadStays
    <3> QED
      BY <2>4, <2>6, <3>2 DEF SameIns
  <2>8. P = {p \in PipesOf(i) : IsRunning(p)}'
    BY <1>5, <2>2 DEF PipesOf, IsRunning, Exists
  <2>9. StoppingInput(c)'
    <3>1. prog'[c] = After(w, <<>>, 3) /\ 3 \in 1 .. 3 /\ 3 # 1
      BY <1>4, <1>10, <2>2
    <3>2. Dead(P)' /\ ~InOn(i)' /\ True(P, IF 3 = 2 THEN {i} ELSE {}, {})' /\ P \in SUBSET PipeIds
      BY <1>6, <2>5, <2>7, <2>8
    <3>3. P = {p \in PipesOf(i) : IsRunning(p)}'
      BY <2>5, <2>7, <2>8
    <3> QED
      BY <1>2, <3>1, <3>2, <3>3 DEF StoppingInput
  <2> QED
    BY <2>9 DEF ClientInv
<1>11. CASE k = 3
  <2>1. At(c, "cascadeIn") /\ Arg(c) = i
    BY <1>3, <1>4, <1>11 DEF On
  <2>2. Settling(P)
    BY <1>7, <1>11 DEF Settling
  <2>3. PICK v : v = <<On("eachOut", OutsOf(P))>>
    OBVIOUS
  <2>4. Still /\ Become(c, v)
    BY <1>5, <2>1, <2>3, CascadesDo DEF OutsOf
  <2>5. v \in Seq(Instr) /\ v # <<>> /\ v \o <<>> = v
    BY <2>2, <2>3, OutsOfTyped, Joins DEF Settling
  <2>6. prog'[c] = v
    <3>1. PICK t : t = <<>>
      OBVIOUS
    <3>2. ProgTyped /\ w \in Seq(Instr) /\ t \in Seq(Instr) /\ k \in 1 .. Len(w) /\ prog[c] = After(w, t, k)
      BY <1>1, <1>2, <1>3, <3>1 DEF Steady, PlaneInv
    <3>3. prog'[c] = After(v, After(w, t, k + 1), 1)
      BY <2>4, <2>5, <3>2, WordStep
    <3>4. After(w, t, k + 1) = t
      <4>1. After(w, t, Len(w) + 1) = t
        BY <3>2, AfterEnds
      <4> QED
        BY <1>3, <1>11, <4>1
    <3>5. After(v, t, 1) = v \o t
      BY <2>5, <3>2, AfterEnds
    <3> QED
      BY <2>5, <3>1, <3>3, <3>4, <3>5
  <2>7. Settling(P)' /\ Rest(v, P)'
    <3>1. Rest(v, P)
      BY <2>3 DEF Rest
    <3> QED
      BY <2>2, <2>4, <3>1, SettlingStill
  <2>8. Resting(c)'
    BY <1>6, <2>6, <2>7 DEF Resting
  <2> QED
    BY <2>8 DEF ClientInv
<1> QED
  BY <1>8, <1>9, <1>10, <1>11

(* RemoveOutput takes the output away, and the pipes on it.                     *)
LEMMA OutputGoes ==
  ASSUME Steady, UNCHANGED rowVars, NEW o \in Outputs, RemoveOutput(o) \/ OutputMissing(o),
         NEW P \in SUBSET PipeIds, True({}, {}, {}),
         \A p \in PipeIds \ P : Exists(p) /\ IsRunning(p) => pipeRow[p].out # o
  PROVE  /\ True(P, {}, {o})' /\ ~OutOn(o)'
         /\ \A j \in Outputs, x \in Inputs : PipeOn(x, j)' <=> PipeOn(x, j) /\ j # o
<1>1. HubClean
  BY DEF True
<1>2. /\ \A j \in Outputs : OutOn(j)' <=> OutOn(j) /\ j # o
      /\ \A j \in Outputs, x \in Inputs : PipeOn(x, j)' <=> PipeOn(x, j) /\ j # o
      /\ \A j \in Outputs, x \in Inputs : Jammed(x, j)' <=> Jammed(x, j) /\ j # o
      /\ SameIns /\ HubClean'
  BY <1>1, OutputRemoved
<1>3. UNCHANGED <<outRow, inRow>>
  BY DEF rowVars
<1>4. OutsTrue({o})' /\ InsTrue({})'
  BY <1>2, <1>3 DEF True, OutsTrue, InsTrue, SameIns, Sure
<1>5. PICK K : K = KeysOfOutput(o)
  OBVIOUS
<1>6. \A j \in Outputs, x \in Inputs : <<x, j>> \in K <=> j = o
  BY <1>5 DEF KeysOfOutput
<1>7. \A p \in PipeIds \ ({} \cup P) : Exists(p) /\ IsRunning(p) => Key(p) \notin K
  BY <1>6, KeyTyped DEF Key
<1>8. /\ \A j \in Outputs, x \in Inputs : PipeOn(x, j)' <=> PipeOn(x, j) /\ <<x, j>> \notin K
      /\ \A j \in Outputs, x \in Inputs : Jammed(x, j)' <=> Jammed(x, j) /\ <<x, j>> \notin K
  BY <1>2, <1>6
<1>9. True({} \cup P, {}, {o})'
  BY <1>2, <1>4, <1>7, <1>8, PipesTurnOff
<1>10. {} \cup P = P
  OBVIOUS
<1> QED
  BY <1>2, <1>9, <1>10

\* A running pipe's output has a row that says running.
LEMMA OutputFree ==
  ASSUME NEW P, NEW I, NEW O, True(P, I, O), NEW o \in Outputs, outRow[o] # "running"
  PROVE  \A p \in PipeIds \ P : Exists(p) /\ IsRunning(p) => pipeRow[p].out # o
  BY DEF True, RowHolds

LEMMA CreatingOutputStep ==
  ASSUME Steady, NEW c \in Callers, Exec(c), CreatingOutput(c)
  PROVE  ClientInv(c)'
<1>1. PICK o \in Outputs : Calm /\ outRow[o] = "none" /\ prog[c] = <<On("insertOut", o)>>
  BY DEF CreatingOutput
<1>2. PICK a : a = On("insertOut", o)
  OBVIOUS
<1>3. a \in Instr /\ a.op = "insertOut" /\ a.x = o
  BY <1>2, PlainInstr DEF OutOps, On
<1>4. At(c, "insertOut") /\ Arg(c) = o /\ (Continue(c) => prog'[c] = <<>>)
  <2>1. ProgTyped /\ prog[c] = <<a>>
    BY <1>1, <1>2 DEF Steady, PlaneInv
  <2> QED
    BY <1>3, <2>1, OneLeft
<1>5. /\ SameHub /\ UNCHANGED <<inRow, pipeRow>> /\ Continue(c)
      /\ outRow' = [outRow EXCEPT ![o] = "stopped"]
  BY <1>4, InsertsDo
<1>6. Calm'
  <2>1. (\A j \in Outputs \ {o} : outRow'[j] = outRow[j]) /\ outRow'[o] = "stopped"
    BY <1>5 DEF Steady, PlaneInv, RowsTyped
  <2>2. True({}, {}, {})
    BY <1>1 DEF Calm
  <2>3. Sure => (outRow'[o] = "running" <=> OutOn(o))
    BY <1>1, <2>1, <2>2 DEF True, OutsTrue
  <2>4. \A p \in PipeIds \ {} : Exists(p) /\ IsRunning(p) => pipeRow[p].out # o
    BY <1>1, <2>2, OutputFree
  <2>5. {} \subseteq {} \cup {o}
    OBVIOUS
  <2> QED
    BY <1>5, <2>1, <2>2, <2>3, <2>4, <2>5, OutputRowWritten DEF Calm
<1>7. Resting(c)'
  BY <1>4, <1>5, <1>6, RestsCalm
<1> QED
  BY <1>7 DEF ClientInv

LEMMA UpdatingOutputStep ==
  ASSUME Steady, NEW c \in Callers, Exec(c), UpdatingOutput(c)
  PROVE  ClientInv(c)'
<1>1. PICK o \in Outputs : Calm /\ outRow[o] # "none" /\ prog[c] = <<Set("saveOut", o, outRow[o])>>
  BY DEF UpdatingOutput
<1>2. PICK a : a = Set("saveOut", o, outRow[o])
  OBVIOUS
<1>3. a \in Instr /\ a.op = "saveOut" /\ a.x = o /\ a.st = outRow[o]
  <2>1. outRow[o] \in Status
    BY <1>1 DEF Steady, PlaneInv, RowsTyped
  <2> QED
    BY <1>2, <2>1, StampedInstr DEF Set
<1>4. At(c, "saveOut") /\ Arg(c) = o /\ prog[c][1] = a /\ (Continue(c) => prog'[c] = <<>>)
  <2>1. ProgTyped /\ prog[c] = <<a>>
    BY <1>1, <1>2 DEF Steady, PlaneInv
  <2> QED
    BY <1>3, <2>1, OneLeft
<1>5. /\ SameHub /\ UNCHANGED <<inRow, pipeRow>> /\ Continue(c)
      /\ outRow' = [outRow EXCEPT ![o] = outRow[o]]
  BY <1>3, <1>4, InsertsDo
<1>6. UNCHANGED rowVars
  BY <1>5 DEF Steady, PlaneInv, RowsTyped, rowVars
<1>7. Calm'
  BY <1>1, <1>5, <1>6, KeptStill DEF Calm
<1>8. Resting(c)'
  BY <1>4, <1>5, <1>7, RestsCalm
<1> QED
  BY <1>8 DEF ClientInv

LEMMA DeletingOutputStep ==
  ASSUME Steady, NEW c \in Callers, Exec(c), DeletingOutput(c)
  PROVE  ClientInv(c)'
<1>1. PICK o \in Outputs, k \in 1 .. 2 :
        /\ prog[c] = After(DeleteOutputProg(o), <<>>, k) /\ outRow[o] = "stopped"
        /\ True({}, {}, IF k = 2 THEN {o} ELSE {})
        /\ k = 2 => ~OutOn(o)
  BY DEF DeletingOutput
<1>2. PICK w : w = DeleteOutputProg(o)
  OBVIOUS
<1>3. /\ w \in Seq(Instr) /\ Len(w) = 2 /\ Plain(w)
      /\ w[1] = On("removeOut", o) /\ w[2] = On("dropOut", o)
  BY <1>2, DeleteOutputIs
<1>4. /\ Arg(c) = w[k].x /\ At(c, w[k].op)
      /\ Continue(c) => prog'[c] = After(w, <<>>, k + 1)
      /\ Continue(c) /\ k = 2 => prog'[c] = <<>>
  <2>1. ProgTyped /\ k \in 1 .. Len(w) /\ prog[c] = After(w, <<>>, k)
    BY <1>1, <1>2, <1>3 DEF Steady, PlaneInv
  <2>2. w \in Seq(Instr) /\ Plain(w)
    BY <1>3
  <2>3. /\ prog[c][1] = w[k] /\ Arg(c) = w[k].x /\ At(c, w[k].op)
        /\ Continue(c) => prog'[c] = After(w, <<>>, k + 1)
        /\ Continue(c) /\ k = Len(w) => prog'[c] = <<>>
        /\ Fail(c) => prog'[c] = <<>>
    BY <2>1, <2>2, PlainStep
  <2> QED
    BY <1>3, <2>3
<1>5. \A p \in PipeIds : Exists(p) /\ IsRunning(p) => pipeRow[p].out # o
  BY <1>1, OutputFree
<1>6. CASE k = 1
  <2>1. At(c, "removeOut") /\ Arg(c) = o
    BY <1>3, <1>4, <1>6 DEF On
  <2>2. (RemoveOutput(o) \/ OutputMissing(o)) /\ Continue(c) /\ SameRows
    BY <2>1, CallsDo
  <2>3. UNCHANGED <<rowVars, outRow>>
    BY <2>2 DEF SameRows, rowVars
  <2>4. True({}, {}, {o})' /\ ~OutOn(o)'
    <3>1. True({}, {}, {})
      BY <1>1, <1>6
    <3>2. \A p \in PipeIds \ {} : Exists(p) /\ IsRunning(p) => pipeRow[p].out # o
      BY <1>5
    <3> QED
      BY <2>2, <2>3, <3>1, <3>2, OutputGoes
  <2>5. DeletingOutput(c)'
    <3>1. prog'[c] = After(w, <<>>, 2) /\ 2 \in 1 .. 2 /\ outRow'[o] = "stopped"
      BY <1>1, <1>4, <1>6, <2>2, <2>3
    <3>2. True({}, {}, IF 2 = 2 THEN {o} ELSE {})'
      BY <2>4
    <3> QED
      BY <1>2, <2>4, <3>1, <3>2 DEF DeletingOutput
  <2> QED
    BY <2>5 DEF ClientInv
<1>7. CASE k = 2
  <2>1. At(c, "dropOut") /\ Arg(c) = o
    BY <1>3, <1>4, <1>7 DEF On
  <2>2. /\ SameHub /\ UNCHANGED <<inRow, pipeRow>> /\ Continue(c)
        /\ outRow' = [outRow EXCEPT ![o] = "none"]
    BY <2>1, InsertsDo
  <2>3. Calm'
    <3>1. (\A j \in Outputs \ {o} : outRow'[j] = outRow[j]) /\ outRow'[o] = "none"
      BY <2>2 DEF Steady, PlaneInv, RowsTyped
    <3>2. True({}, {}, {o}) /\ ~OutOn(o)
      BY <1>1, <1>7
    <3>3. outRow'[o] = "running" <=> OutOn(o)
      BY <3>1, <3>2
    <3>4. (\A p \in PipeIds \ {} : Exists(p) /\ IsRunning(p) => pipeRow[p].out # o) /\ {o} \subseteq {} \cup {o}
      BY <1>5
    <3> QED
      BY <2>2, <3>1, <3>2, <3>3, <3>4, OutputRowWritten DEF Calm
  <2>4. Resting(c)'
    BY <1>4, <1>7, <2>2, <2>3, RestsCalm
  <2> QED
    BY <2>4 DEF ClientInv
<1> QED
  BY <1>6, <1>7

LEMMA OpenedOutput ==
  ASSUME Steady, Calm, UNCHANGED rowVars, NEW c \in Callers, NEW o \in Outputs, OpenOutput(c, o)
  PROVE  /\ Calm' /\ sinks'[o] # 0 /\ held'[c] = <<"snk", sinks'[o]>>
<1>1. True({}, {}, {}) /\ HubClean
  BY DEF Calm, True
<1>2. held'[c] = <<"snk", sinks'[o]>>
  BY DEF OpenOutput, Hold, Steady, PlaneInv, HubInv, HubTypeOK
<1>3. CASE CreateOutput(o)
  <2>1. SameRun /\ HubClean' /\ sinks'[o] # 0
    BY <1>1, <1>3, OutputMade
  <2> QED
    BY <1>1, <1>2, <2>1, Kept DEF Calm
<1>4. CASE OutputFound(o)
  <2>1. UNCHANGED <<regVars, srcOn, snkOn, pstate>> /\ sinks'[o] # 0
    BY <1>4 DEF OutputFound, regVars, objVars
  <2>2. SameRun /\ HubClean'
    BY <1>1, <2>1, NothingMoves
  <2> QED
    BY <1>1, <1>2, <2>1, <2>2, Kept DEF Calm
<1> QED
  BY <1>3, <1>4 DEF OpenOutput

LEMMA BeginningOutputStep ==
  ASSUME Steady, NEW c \in Callers, Exec(c), BeginningOutput(c)
  PROVE  ClientInv(c)'
<1>1. PICK o \in Outputs, k \in 1 .. 4 :
        /\ prog[c] = After(StartOutputProg(o), <<>>, k)
        /\ True({}, {}, IF k = 4 THEN {o} ELSE {})
        /\ k >= 2 => outRow[o] # "none"
        /\ k = 3 => sinks[o] # 0 /\ held[c] = <<"snk", sinks[o]>>
        /\ k = 4 => OutOn(o)
  BY DEF BeginningOutput
<1>2. PICK w : w = StartOutputProg(o)
  OBVIOUS
<1>3. /\ w \in Seq(Instr) /\ Len(w) = 4 /\ Plain(w)
      /\ w[1] = On("needOut", o) /\ w[2] = On("openOut", o) /\ w[3] = On("runOutOrFail", o)
      /\ w[4] = Set("setOut", o, "running")
  BY <1>2, BeginOutputIs
<1>4. /\ prog[c][1] = w[k] /\ Arg(c) = w[k].x /\ At(c, w[k].op)
      /\ Continue(c) => prog'[c] = After(w, <<>>, k + 1)
      /\ Continue(c) /\ k = 4 => prog'[c] = <<>>
      /\ Fail(c) => prog'[c] = <<>>
  <2>1. ProgTyped /\ k \in 1 .. Len(w) /\ prog[c] = After(w, <<>>, k)
    BY <1>1, <1>2, <1>3 DEF Steady, PlaneInv
  <2>2. w \in Seq(Instr) /\ Plain(w)
    BY <1>3
  <2>3. /\ prog[c][1] = w[k] /\ Arg(c) = w[k].x /\ At(c, w[k].op)
        /\ Continue(c) => prog'[c] = After(w, <<>>, k + 1)
        /\ Continue(c) /\ k = Len(w) => prog'[c] = <<>>
        /\ Fail(c) => prog'[c] = <<>>
    BY <2>1, <2>2, PlainStep
  <2> QED
    BY <1>3, <2>3
<1>5. k # 4 => Calm
  BY <1>1 DEF Calm
<1>6. k = 1 \/ k = 2 \/ k = 3 \/ k = 4
  OBVIOUS
<1>7. CASE k = 1
  <2>1. At(c, "needOut") /\ Arg(c) = o
    BY <1>3, <1>4, <1>7 DEF On
  <2>2. /\ Still
        /\ outRow[o] # "none" => Continue(c)
        /\ outRow[o] = "none" => Fail(c)
    BY <2>1, ReadsDo
  <2>3. CASE outRow[o] # "none"
    <3>1. prog'[c] = After(w, <<>>, 2) /\ 2 \in 1 .. 4
      BY <1>4, <1>7, <2>2, <2>3
    <3>2. Calm' /\ outRow'[o] # "none"
      BY <1>5, <1>7, <2>2, <2>3, StillTrue, StillRows DEF Calm
    <3>3. True({}, {}, IF 2 = 4 THEN {o} ELSE {})'
      BY <3>2 DEF Calm
    <3>4. BeginningOutput(c)'
      BY <1>2, <3>1, <3>2, <3>3 DEF BeginningOutput
    <3> QED
      BY <3>4 DEF ClientInv
  <2>4. CASE outRow[o] = "none"
    BY <1>4, <1>5, <1>7, <2>2, <2>4, GivesUpStill
  <2> QED
    BY <2>3, <2>4
<1>8. CASE k = 2
  <2>1. At(c, "openOut") /\ Arg(c) = o
    BY <1>3, <1>4, <1>8 DEF On
  <2>2. /\ \/ OpenOutput(c, o) /\ Continue(c)
           \/ UNCHANGED hubVars /\ Fail(c)
        /\ SameRows
    BY <2>1, FindsDo
  <2>3. UNCHANGED <<rowVars, outRow>>
    BY <2>2 DEF SameRows, rowVars
  <2>4. CASE OpenOutput(c, o) /\ Continue(c)
    <3>1. Calm' /\ sinks'[o] # 0 /\ held'[c] = <<"snk", sinks'[o]>>
      BY <1>5, <1>8, <2>3, <2>4, OpenedOutput
    <3>2. prog'[c] = After(w, <<>>, 3) /\ 3 \in 1 .. 4 /\ outRow'[o] # "none"
      BY <1>1, <1>4, <1>8, <2>3, <2>4
    <3>3. True({}, {}, IF 3 = 4 THEN {o} ELSE {})'
      BY <3>1 DEF Calm
    <3>4. BeginningOutput(c)'
      BY <1>2, <3>1, <3>2, <3>3 DEF BeginningOutput
    <3> QED
      BY <3>4 DEF ClientInv
  <2>5. CASE UNCHANGED hubVars /\ Fail(c)
    <3>1. Calm'
      BY <1>5, <1>8, <2>3, <2>5, KeptStill DEF SameHub, Calm
    <3>2. Resting(c)'
      BY <1>4, <2>5, <3>1, RestsCalm
    <3> QED
      BY <3>2 DEF ClientInv
  <2> QED
    BY <2>2, <2>4, <2>5
<1>9. CASE k = 3
  <2>1. At(c, "runOutOrFail") /\ Arg(c) = o
    BY <1>3, <1>4, <1>9 DEF On
  <2>2. /\ (RunSink(c) /\ Continue(c)) \/ (RunSinkFails(c) /\ Fail(c))
        /\ SameRows
    BY <2>1, RunsDo
  <2>3. UNCHANGED <<rowVars, outRow>>
    BY <2>2 DEF SameRows, rowVars
  <2>4. True({}, {}, {}) /\ HubClean
    BY <1>5, <1>9 DEF Calm, True
  <2>5. CASE RunSink(c) /\ Continue(c)
    <3>1. /\ \A j \in Outputs : OutOn(j)' <=> OutOn(j) \/ j = o
          /\ SameIns /\ SamePipes /\ SameJams /\ HubClean'
      BY <1>1, <1>9, <2>4, <2>5, SinkRuns
    <3>2. True({}, {}, {} \cup {o})'
      BY <2>3, <2>4, <3>1, OutputTurnsOn
    <3>3. True({}, {}, IF 4 = 4 THEN {o} ELSE {})'
      <4>1. {} \cup {o} = {o}
        OBVIOUS
      <4> QED
        BY <3>2, <4>1
    <3>4. OutOn(o)'
      BY <3>1
    <3>5. prog'[c] = After(w, <<>>, 4) /\ 4 \in 1 .. 4 /\ 4 # 3 /\ outRow'[o] # "none"
      BY <1>1, <1>4, <1>9, <2>3, <2>5
    <3>6. BeginningOutput(c)'
      BY <1>2, <3>3, <3>4, <3>5 DEF BeginningOutput
    <3> QED
      BY <3>6 DEF ClientInv
  <2>6. CASE RunSinkFails(c) /\ Fail(c)
    <3>1. UNCHANGED <<regVars, srcOn, snkOn, pstate>>
      BY <2>6 DEF RunSinkFails, objVars
    <3>2. Calm'
      BY <2>3, <2>4, <3>1, NothingMoves, Kept DEF Calm
    <3>3. Resting(c)'
      BY <1>4, <2>6, <3>2, RestsCalm
    <3> QED
      BY <3>3 DEF ClientInv
  <2> QED
    BY <2>2, <2>5, <2>6
<1>10. CASE k = 4
  <2>1. At(c, "setOut") /\ Arg(c) = o /\ prog[c][1].st = "running"
    BY <1>3, <1>4, <1>10 DEF Set
  <2>2. /\ SameHub /\ UNCHANGED <<inRow, pipeRow>> /\ Continue(c)
        /\ outRow' = IF outRow[o] = "none" THEN outRow ELSE [outRow EXCEPT ![o] = "running"]
    BY <2>1, WritesDo
  <2>3. Calm'
    <3>1. (\A j \in Outputs \ {o} : outRow'[j] = outRow[j]) /\ outRow'[o] = "running"
      BY <1>1, <1>10, <2>2 DEF Steady, PlaneInv, RowsTyped
    <3>2. True({}, {}, {o}) /\ OutOn(o)
      BY <1>1, <1>10
    <3>3. {o} \subseteq {} \cup {o}
      OBVIOUS
    <3> QED
      BY <2>2, <3>1, <3>2, <3>3, OutputRowWritten DEF Calm
  <2>4. Resting(c)'
    BY <1>4, <1>10, <2>2, <2>3, RestsCalm
  <2> QED
    BY <2>4 DEF ClientInv
<1> QED
  BY <1>6, <1>7, <1>8, <1>9, <1>10

LEMMA StoppingOutputStep ==
  ASSUME Steady, NEW c \in Callers, Exec(c), StoppingOutput(c)
  PROVE  ClientInv(c)'
<1>1. PICK o \in Outputs, P \in SUBSET PipeIds, k \in 1 .. 3 :
        /\ prog[c] = After(StopOutputProg(o), <<>>, k) /\ P = {p \in PipesTo(o) : IsRunning(p)}
        /\ k = 1 => Calm
        /\ k >= 2 => Dead(P) /\ ~OutOn(o) /\ True(P, {}, IF k = 2 THEN {o} ELSE {})
  BY DEF StoppingOutput
<1>2. PICK w : w = StopOutputProg(o)
  OBVIOUS
<1>3. /\ w \in Seq(Instr) /\ Len(w) = 3 /\ Plain(w)
      /\ w[1] = On("removeOut", o) /\ w[2] = Set("setOut", o, "stopped") /\ w[3] = On("cascadeOut", o)
  BY <1>2, StopOutputIs
<1>4. /\ prog[c][1] = w[k] /\ Arg(c) = w[k].x /\ At(c, w[k].op)
      /\ Continue(c) => prog'[c] = After(w, <<>>, k + 1)
  <2>1. ProgTyped /\ k \in 1 .. Len(w) /\ prog[c] = After(w, <<>>, k)
    BY <1>1, <1>2, <1>3 DEF Steady, PlaneInv
  <2>2. w \in Seq(Instr) /\ Plain(w)
    BY <1>3
  <2> QED
    BY <2>1, <2>2, PlainStep
<1>5. P = {p \in PipesTo(o) : IsRunning(p)}
  BY <1>1
<1>6. /\ P \in SUBSET PipeIds
      /\ \A p \in P : Exists(p) /\ IsRunning(p) /\ pipeRow[p].out = o
      /\ \A p \in PipeIds \ P : Exists(p) /\ IsRunning(p) => pipeRow[p].out # o
  BY <1>5 DEF PipesTo
<1>7. k >= 2 => Dead(P) /\ ~OutOn(o) /\ True(P, {}, IF k = 2 THEN {o} ELSE {})
  BY <1>1, <1>5
<1>8. k = 1 \/ k = 2 \/ k = 3
  OBVIOUS
<1>9. CASE k = 1
  <2>1. At(c, "removeOut") /\ Arg(c) = o
    BY <1>3, <1>4, <1>9 DEF On
  <2>2. (RemoveOutput(o) \/ OutputMissing(o)) /\ Continue(c) /\ SameRows
    BY <2>1, CallsDo
  <2>3. UNCHANGED <<rowVars, pipeRow>>
    BY <2>2 DEF SameRows, rowVars
  <2>4. /\ True(P, {}, {o})' /\ ~OutOn(o)'
        /\ \A j \in Outputs, x \in Inputs : PipeOn(x, j)' <=> PipeOn(x, j) /\ j # o
    BY <1>1, <1>6, <1>9, <2>2, <2>3, OutputGoes DEF Calm
  <2>5. Dead(P)'
    BY <1>6, <2>3, <2>4, KeyTyped DEF Dead, Exists, IsRunning
  <2>6. P = {p \in PipesTo(o) : IsRunning(p)}'
    BY <1>5, <2>3 DEF PipesTo, IsRunning, Exists
  <2>7. StoppingOutput(c)'
    <3>1. prog'[c] = After(w, <<>>, 2) /\ 2 \in 1 .. 3 /\ 2 # 1
      BY <1>4, <1>9, <2>2
    <3>2. Dead(P)' /\ ~OutOn(o)' /\ True(P, {}, IF 2 = 2 THEN {o} ELSE {})' /\ P \in SUBSET PipeIds
      BY <1>6, <2>4, <2>5, <2>6
    <3>3. P = {p \in PipesTo(o) : IsRunning(p)}'
      BY <2>4, <2>5, <2>6
    <3> QED
      BY <1>2, <3>1, <3>2, <3>3 DEF StoppingOutput
  <2> QED
    BY <2>7 DEF ClientInv
<1>10. CASE k = 2
  <2>1. At(c, "setOut") /\ Arg(c) = o /\ prog[c][1].st = "stopped"
    BY <1>3, <1>4, <1>10 DEF Set
  <2>2. /\ SameHub /\ UNCHANGED <<inRow, pipeRow>> /\ Continue(c)
        /\ outRow' = IF outRow[o] = "none" THEN outRow ELSE [outRow EXCEPT ![o] = "stopped"]
    BY <2>1, WritesDo
  <2>3. (\A j \in Outputs \ {o} : outRow'[j] = outRow[j]) /\ outRow'[o] # "running"
    BY <2>2 DEF Steady, PlaneInv, RowsTyped
  <2>4. True(P, {}, {o}) /\ ~OutOn(o) /\ Dead(P)
    BY <1>7, <1>10
  <2>5. True(P, {}, {})'
    <3>1. {o} \subseteq {} \cup {o}
      OBVIOUS
    <3>2. outRow'[o] = "running" <=> OutOn(o)
      BY <2>3, <2>4
    <3> QED
      BY <1>6, <2>2, <2>3, <2>4, <3>1, <3>2, OutputRowWritten
  <2>6. SameOuts /\ SamePipes
    BY <2>2, HubStays
  <2>7. Dead(P)' /\ ~OutOn(o)'
    <3>1. \A j \in Outputs, x \in Inputs : PipeOn(x, j)' => PipeOn(x, j)
      BY <2>6 DEF SamePipes
    <3>2. Dead(P)'
      BY <2>2, <2>4, <3>1, DeadStays
    <3> QED
      BY <2>4, <2>6, <3>2 DEF SameOuts
  <2>8. P = {p \in PipesTo(o) : IsRunning(p)}'
    BY <1>5, <2>2 DEF PipesTo, IsRunning, Exists
  <2>9. StoppingOutput(c)'
    <3>1. prog'[c] = After(w, <<>>, 3) /\ 3 \in 1 .. 3 /\ 3 # 1
      BY <1>4, <1>10, <2>2
    <3>2. Dead(P)' /\ ~OutOn(o)' /\ True(P, {}, IF 3 = 2 THEN {o} ELSE {})' /\ P \in SUBSET PipeIds
      BY <1>6, <2>5, <2>7, <2>8
    <3>3. P = {p \in PipesTo(o) : IsRunning(p)}'
      BY <2>5, <2>7, <2>8
    <3> QED
      BY <1>2, <3>1, <3>2, <3>3 DEF StoppingOutput
  <2> QED
    BY <2>9 DEF ClientInv
<1>11. CASE k = 3
  <2>1. At(c, "cascadeOut") /\ Arg(c) = o
    BY <1>3, <1>4, <1>11 DEF On
  <2>2. Settling(P)
    BY <1>7, <1>11 DEF Settling
  <2>3. PICK v : v = <<On("eachIn", InsOf(P))>>
    OBVIOUS
  <2>4. Still /\ Become(c, v)
    BY <1>5, <2>1, <2>3, CascadesDo DEF InsOf
  <2>5. v \in Seq(Instr) /\ v # <<>> /\ v \o <<>> = v
    BY <2>2, <2>3, InsOfTyped, Joins DEF Settling
  <2>6. prog'[c] = v
    <3>1. PICK t : t = <<>>
      OBVIOUS
    <3>2. ProgTyped /\ w \in Seq(Instr) /\ t \in Seq(Instr) /\ k \in 1 .. Len(w) /\ prog[c] = After(w, t, k)
      BY <1>1, <1>2, <1>3, <3>1 DEF Steady, PlaneInv
    <3>3. prog'[c] = After(v, After(w, t, k + 1), 1)
      BY <2>4, <2>5, <3>2, WordStep
    <3>4. After(w, t, k + 1) = t
      <4>1. After(w, t, Len(w) + 1) = t
        BY <3>2, AfterEnds
      <4> QED
        BY <1>3, <1>11, <4>1
    <3>5. After(v, t, 1) = v \o t
      BY <2>5, <3>2, AfterEnds
    <3> QED
      BY <2>5, <3>1, <3>3, <3>4, <3>5
  <2>7. Settling(P)' /\ Rest(v, P)'
    <3>1. Rest(v, P)
      BY <2>3 DEF Rest
    <3> QED
      BY <2>2, <2>4, <3>1, SettlingStill
  <2>8. Resting(c)'
    BY <1>6, <2>6, <2>7 DEF Resting
  <2> QED
    BY <2>8 DEF ClientInv
<1> QED
  BY <1>8, <1>9, <1>10, <1>11

-----------------------------------------------------------------------------
(* PipeService.Start, from its two reads to the three rows it marks running.  *)
\* What Start has seen and made stays while the rows do.
LEMMA StartKeeps ==
  ASSUME UNCHANGED rowVars, NEW p, NEW i, NEW o, RowIs(p, i, o), ~IsRunning(p)
  PROVE  /\ RowIs(p, i, o)' /\ ~IsRunning(p)'
         /\ inRow'[i] = inRow[i] /\ outRow'[o] = outRow[o]
  BY DEF rowVars, RowIs, IsRunning, Exists

\* A pipe is registered between a source and a sink that are.
LEMMA EndsAre ==
  ASSUME Steady, NEW i \in Inputs, NEW o \in Outputs, pipes[<<i, o>>] # 0
  PROVE  /\ sources[i] # 0 /\ sinks[o] # 0 /\ pipes[<<i, o>>] \in Objs
         /\ srcOf[pipes[<<i, o>>]] = sources[i] /\ snkOf[pipes[<<i, o>>]] = sinks[o]
         /\ pstate[pipes[<<i, o>>]] \in {"bound", "running", "stuck"}
<1>1. <<i, o>> \in Keys
  BY DEF Keys
<1> QED
  BY <1>1, HubAssumption DEF Steady, PlaneInv, HubInv, HubTypeOK, HubConsistent, PipesBound, Objs

\* needIn, needOut
LEMMA StartReads ==
  ASSUME Steady, NEW c \in Callers, NEW p \in PipeIds, NEW i \in Inputs, NEW o \in Outputs, Still
  PROVE  /\ StartFacts(c, 1, p, i, o) /\ inRow[i] # "none" => StartFacts(c, 2, p, i, o)'
         /\ StartFacts(c, 2, p, i, o) /\ outRow[o] # "none" => StartFacts(c, 3, p, i, o)'
<1>1. UNCHANGED rowVars
  BY StillRows
<1>2. ASSUME NEW k \in 1 .. 2, StartFacts(c, k, p, i, o)
      PROVE  /\ RowIs(p, i, o)' /\ ~IsRunning(p)' /\ True({}, {}, {})'
             /\ inRow'[i] = inRow[i] /\ outRow'[o] = outRow[o]
             /\ k = 2 => inRow[i] # "none"
  <2>1. RowIs(p, i, o) /\ ~IsRunning(p) /\ True({}, {}, {}) /\ (k = 2 => inRow[i] # "none")
    BY <1>2 DEF StartFacts
  <2> QED
    BY <1>1, <2>1, StillTrue, StartKeeps
<1> QED
  BY <1>2 DEF StartFacts

\* createIn, createOut, connect
LEMMA StartMakes ==
  ASSUME Steady, NEW c \in Callers, NEW p \in PipeIds, NEW i \in Inputs, NEW o \in Outputs, UNCHANGED rowVars,
         NEW k \in 3 .. 5, StartFacts(c, k, p, i, o),
         \/ k = 3 /\ CreateInput(i)
         \/ k = 4 /\ CreateOutput(o)
         \/ k = 5 /\ Connect(i, o)
         \/ k = 5 /\ pipes[<<i, o>>] # 0 /\ UNCHANGED <<regVars, objVars>>
         \/ k # 5 /\ UNCHANGED <<regVars, objVars>>
  PROVE  StartFacts(c, k + 1, p, i, o)'
<1>1. /\ RowIs(p, i, o) /\ ~IsRunning(p) /\ True({}, {}, {}) /\ inRow[i] # "none" /\ outRow[o] # "none"
  BY DEF StartFacts
<1>2. HubClean
  BY <1>1 DEF True
<1>3. SameRun /\ HubClean' /\ (k = 5 => pipes'[<<i, o>>] # 0)
  <2>1. ASSUME UNCHANGED <<regVars, objVars>>
        PROVE  SameRun /\ HubClean' /\ UNCHANGED pipes
    BY <1>2, <2>1, NothingMoves DEF objVars, regVars
  <2> QED
    BY <1>2, <2>1, InputMade, OutputMade, PipeMade
<1>4. True({}, {}, {})'
  BY <1>1, <1>3, Kept
<1>5. RowIs(p, i, o)' /\ ~IsRunning(p)' /\ inRow'[i] # "none" /\ outRow'[o] # "none"
  BY <1>1, StartKeeps
<1>6. k + 1 \in 4 .. 6 /\ (k + 1 >= 6 => k = 5)
  OBVIOUS
<1>7. PICK n \in 4 .. 6 : n = k + 1
  BY <1>6
<1> QED
  BY <1>3, <1>4, <1>5, <1>6, <1>7 DEF StartFacts

\* The look-ups: findOut, findIn, findPipe
LEMMA StartFinds ==
  ASSUME Steady, NEW c \in Callers, NEW p \in PipeIds, NEW i \in Inputs, NEW o \in Outputs, UNCHANGED rowVars
  PROVE  /\ StartFacts(c, 6, p, i, o) /\ FindSink(c, o) => StartFacts(c, 7, p, i, o)'
         /\ StartFacts(c, 8, p, i, o) /\ FindSource(c, i) => StartFacts(c, 9, p, i, o)'
         /\ StartFacts(c, 10, p, i, o) /\ FindPipe(c, i, o) => StartFacts(c, 11, p, i, o)'
<1>1. ASSUME UNCHANGED <<regVars, objVars>>, NEW k \in {6, 8, 10}, StartFacts(c, k, p, i, o)
      PROVE  /\ RowIs(p, i, o)' /\ ~IsRunning(p)' /\ inRow'[i] # "none" /\ outRow'[o] # "none"
             /\ True({}, IF k = 10 THEN {i} ELSE {}, IF k >= 8 THEN {o} ELSE {})'
             /\ pipes'[<<i, o>>] # 0
             /\ k >= 8 /\ Sure => OutOn(o)'
             /\ k >= 10 /\ Sure => InOn(i)'
  <2> DEFINE I == IF k = 10 THEN {i} ELSE {}
             O == IF k >= 8 THEN {o} ELSE {}
  <2>1. /\ RowIs(p, i, o) /\ ~IsRunning(p) /\ inRow[i] # "none" /\ outRow[o] # "none"
        /\ True({}, I, O) /\ pipes[<<i, o>>] # 0
        /\ k >= 8 /\ Sure => OutOn(o)
        /\ k >= 10 /\ Sure => InOn(i)
    BY <1>1 DEF StartFacts
  <2> HIDE DEF I, O
  <2>2. SameRun /\ HubClean' /\ UNCHANGED pipes
    <3>1. HubClean
      BY <2>1 DEF True
    <3> QED
      BY <1>1, <3>1, NothingMoves DEF objVars, regVars
  <2>3. True({}, I, O)'
    BY <2>1, <2>2, Kept
  <2>4. RowIs(p, i, o)' /\ ~IsRunning(p)' /\ inRow'[i] # "none" /\ outRow'[o] # "none"
    BY <2>1, StartKeeps
  <2>5. (k >= 8 /\ Sure => OutOn(o)') /\ (k >= 10 /\ Sure => InOn(i)')
    BY <2>1, <2>2 DEF SameRun, SameIns, SameOuts
  <2> QED
    BY <2>1, <2>2, <2>3, <2>4, <2>5 DEF I, O
<1>2. held \in [Callers -> Kinds \X (0 .. MaxObjs)]
  BY DEF Steady, PlaneInv, HubInv, HubTypeOK
<1>3. ASSUME StartFacts(c, 6, p, i, o), FindSink(c, o)
      PROVE  StartFacts(c, 7, p, i, o)'
  <2>1. UNCHANGED <<regVars, objVars, sinks>> /\ held'[c] = <<"snk", sinks'[o]>>
    BY <1>2, <1>3 DEF FindSink, Hold, regVars
  <2>2. /\ RowIs(p, i, o)' /\ ~IsRunning(p)' /\ inRow'[i] # "none" /\ outRow'[o] # "none"
        /\ True({}, {}, {})' /\ pipes'[<<i, o>>] # 0
    BY <1>1, <1>3, <2>1
  <2> QED
    BY <2>1, <2>2 DEF StartFacts
<1>4. ASSUME StartFacts(c, 8, p, i, o), FindSource(c, i)
      PROVE  StartFacts(c, 9, p, i, o)'
  <2>1. UNCHANGED <<regVars, objVars, sources>> /\ held'[c] = <<"src", sources'[i]>>
    BY <1>2, <1>4 DEF FindSource, Hold, regVars
  <2>2. /\ RowIs(p, i, o)' /\ ~IsRunning(p)' /\ inRow'[i] # "none" /\ outRow'[o] # "none"
        /\ True({}, {}, {o})' /\ pipes'[<<i, o>>] # 0 /\ (Sure => OutOn(o)')
    BY <1>1, <1>4, <2>1
  <2> QED
    BY <2>1, <2>2 DEF StartFacts
<1>5. ASSUME StartFacts(c, 10, p, i, o), FindPipe(c, i, o)
      PROVE  StartFacts(c, 11, p, i, o)'
  <2>1. UNCHANGED <<regVars, objVars, pipes>> /\ held'[c] = <<"pipe", pipes'[<<i, o>>]>>
    BY <1>2, <1>5 DEF FindPipe, Hold, regVars
  <2>2. /\ RowIs(p, i, o)' /\ ~IsRunning(p)' /\ inRow'[i] # "none" /\ outRow'[o] # "none"
        /\ True({}, {i}, {o})' /\ pipes'[<<i, o>>] # 0 /\ (Sure => OutOn(o)') /\ (Sure => InOn(i)')
    BY <1>1, <1>5, <2>1
  <2> QED
    BY <2>1, <2>2 DEF StartFacts
<1> QED
  BY <1>3, <1>4, <1>5

\* runOut, runIn: a start that fails is only logged
LEMMA StartRuns ==
  ASSUME Steady, NEW c \in Callers, NEW p \in PipeIds, NEW i \in Inputs, NEW o \in Outputs, UNCHANGED rowVars
  PROVE  /\ StartFacts(c, 7, p, i, o) /\ (RunSink(c) \/ RunSinkFails(c)) => StartFacts(c, 8, p, i, o)'
         /\ StartFacts(c, 9, p, i, o) /\ (RunSource(c) \/ RunSourceFails(c)) => StartFacts(c, 10, p, i, o)'
<1>1. ASSUME StartFacts(c, 7, p, i, o), RunSink(c) \/ RunSinkFails(c)
      PROVE  StartFacts(c, 8, p, i, o)'
  <2>1. /\ RowIs(p, i, o) /\ ~IsRunning(p) /\ inRow[i] # "none" /\ outRow[o] # "none"
        /\ True({}, {}, {}) /\ pipes[<<i, o>>] # 0 /\ held[c] = <<"snk", sinks[o]>>
    BY <1>1 DEF StartFacts
  <2>2. HubClean /\ sinks[o] # 0
    BY <2>1, EndsAre DEF True
  <2>3. RowIs(p, i, o)' /\ ~IsRunning(p)' /\ inRow'[i] # "none" /\ outRow'[o] # "none"
    BY <2>1, StartKeeps
  <2>4. True({}, {}, {o})' /\ (Sure => OutOn(o)') /\ pipes'[<<i, o>>] # 0
    <3>1. {} \cup {o} = {o}
      OBVIOUS
    <3>2. CASE RunSink(c)
      <4>1. /\ \A j \in Outputs : OutOn(j)' <=> OutOn(j) \/ j = o
            /\ SameIns /\ SamePipes /\ SameJams /\ HubClean' /\ UNCHANGED regVars
        BY <2>1, <2>2, <3>2, SinkRuns
      <4>2. True({}, {}, {} \cup {o})'
        BY <2>1, <4>1, OutputTurnsOn
      <4> QED
        BY <2>1, <3>1, <4>1, <4>2 DEF regVars
    <3>3. CASE RunSinkFails(c)
      <4>1. UNCHANGED <<regVars, srcOn, snkOn, pstate>> /\ ~Sure
        BY <3>3 DEF RunSinkFails, objVars, Sure
      <4>2. SameRun /\ HubClean'
        BY <2>2, <4>1, NothingMoves
      <4>3. True({}, {}, {})'
        BY <2>1, <4>2, Kept
      <4>4. True({}, {}, {o})'
        BY <4>3 DEF True, InsTrue, OutsTrue
      <4> QED
        BY <2>1, <4>1, <4>4 DEF regVars
    <3> QED
      BY <1>1, <3>2, <3>3
  <2> QED
    BY <2>3, <2>4 DEF StartFacts
<1>2. ASSUME StartFacts(c, 9, p, i, o), RunSource(c) \/ RunSourceFails(c)
      PROVE  StartFacts(c, 10, p, i, o)'
  <2>1. /\ RowIs(p, i, o) /\ ~IsRunning(p) /\ inRow[i] # "none" /\ outRow[o] # "none"
        /\ True({}, {}, {o}) /\ pipes[<<i, o>>] # 0 /\ held[c] = <<"src", sources[i]>>
        /\ Sure => OutOn(o)
    BY <1>2 DEF StartFacts
  <2>2. HubClean /\ sources[i] # 0
    BY <2>1, EndsAre DEF True
  <2>3. RowIs(p, i, o)' /\ ~IsRunning(p)' /\ inRow'[i] # "none" /\ outRow'[o] # "none"
    BY <2>1, StartKeeps
  <2>4. True({}, {i}, {o})' /\ (Sure => InOn(i)' /\ OutOn(o)') /\ pipes'[<<i, o>>] # 0
    <3>1. {} \cup {i} = {i}
      OBVIOUS
    <3>2. CASE RunSource(c)
      <4>1. /\ \A j \in Inputs : InOn(j)' <=> InOn(j) \/ j = i
            /\ SameOuts /\ SamePipes /\ SameJams /\ HubClean' /\ UNCHANGED regVars
        BY <2>1, <2>2, <3>2, SourceRuns
      <4>2. True({}, {} \cup {i}, {o})'
        BY <2>1, <4>1, InputTurnsOn
      <4> QED
        BY <2>1, <3>1, <4>1, <4>2 DEF regVars, SameOuts
    <3>3. CASE RunSourceFails(c)
      <4>1. UNCHANGED <<regVars, srcOn, snkOn, pstate>> /\ ~Sure
        BY <3>3 DEF RunSourceFails, objVars, Sure
      <4>2. SameRun /\ HubClean'
        BY <2>2, <4>1, NothingMoves
      <4>3. True({}, {}, {o})'
        BY <2>1, <4>2, Kept
      <4>4. True({}, {i}, {o})'
        BY <4>3 DEF True, InsTrue, OutsTrue
      <4> QED
        BY <2>1, <4>1, <4>4 DEF regVars
    <3> QED
      BY <1>2, <3>2, <3>3
  <2> QED
    BY <2>3, <2>4 DEF StartFacts
<1> QED
  BY <1>1, <1>2

\* runPipe
LEMMA StartsThePipe ==
  ASSUME Steady, NEW c \in Callers, NEW p \in PipeIds, NEW i \in Inputs, NEW o \in Outputs, UNCHANGED rowVars,
         StartFacts(c, 11, p, i, o)
  PROVE  /\ RunPipe(c) \/ RunPipeAgain(c) => StartFacts(c, 12, p, i, o)'
         /\ RunPipeFails(c) \/ RunPipePanics(c) => Calm'
<1>1. PICK x \in Objs : x = pipes[<<i, o>>] /\ x # 0
  BY EndsAre DEF StartFacts
<1>2. /\ RowIs(p, i, o) /\ ~IsRunning(p) /\ inRow[i] # "none" /\ outRow[o] # "none"
      /\ True({}, {i}, {o}) /\ pipes[<<i, o>>] # 0 /\ held[c] = <<"pipe", pipes[<<i, o>>]>>
      /\ Sure => OutOn(o) /\ InOn(i)
  BY DEF StartFacts
<1>3. HubClean
  BY <1>2 DEF True
<1>4. held[c][2] = x /\ srcOf[x] = sources[i] /\ snkOf[x] = sinks[o] /\ pstate[x] \in {"bound", "running", "stuck"}
  BY <1>1, <1>2, EndsAre
<1>5. RowIs(p, i, o)' /\ ~IsRunning(p)' /\ inRow'[i] # "none" /\ outRow'[o] # "none"
  BY <1>2, StartKeeps
<1>6. ASSUME RunPipe(c)
      PROVE  StartFacts(c, 12, p, i, o)'
  <2>1. /\ SameIns /\ SameOuts /\ HubClean' /\ UNCHANGED regVars /\ SameJams
        /\ \A j \in Inputs, q \in Outputs : PipeOn(j, q)' <=> PipeOn(j, q) \/ <<j, q>> = <<i, o>>
    BY <1>2, <1>3, <1>6, PipeTurns
  <2>2. True({} \cup {p}, {i}, {o})'
    BY <1>2, <2>1, PipeTurnsOn
  <2>3. {} \cup {p} = {p}
    OBVIOUS
  <2>4. True({p}, {i}, {o})' /\ (Sure => OutOn(o)' /\ InOn(i)') /\ PipeOn(i, o)' /\ pipes'[<<i, o>>] # 0
    BY <1>2, <2>1, <2>2, <2>3 DEF SameIns, SameOuts, regVars
  <2> QED
    BY <1>5, <2>4 DEF StartFacts
<1>7. ASSUME RunPipeAgain(c)
      PROVE  StartFacts(c, 12, p, i, o)'
  <2>1. UNCHANGED <<regVars, srcOn, snkOn, pstate>> /\ pstate[x] \notin {"bound", "stopped"}
    BY <1>4, <1>7 DEF RunPipeAgain, objVars, NotStarted
  <2>2. SameRun /\ HubClean'
    BY <1>3, <2>1, NothingMoves
  <2>3. True({}, {i}, {o})'
    BY <1>2, <2>2, Kept
  <2>4. True({p}, {i}, {o})'
    BY <2>3 DEF True
  <2>5. PipeOn(i, o)' \/ Jammed(i, o)'
    BY <1>1, <1>4, <2>1 DEF PipeOn, Jammed, regVars
  <2>6. (Sure => OutOn(o)' /\ InOn(i)') /\ pipes'[<<i, o>>] # 0
    BY <1>2, <2>1, <2>2 DEF SameRun, SameIns, SameOuts, regVars
  <2> QED
    BY <1>5, <2>4, <2>5, <2>6 DEF StartFacts
<1>8. RunPipeFails(c) => Calm'
  <2> SUFFICES ASSUME RunPipeFails(c)
               PROVE  Calm'
    OBVIOUS
  <2>1. UNCHANGED <<regVars, srcOn, snkOn, pstate>> /\ ~Sure
    BY <1>2, <1>4 DEF RunPipeFails, MayFail, objVars, Sure, InOn, OutOn
  <2>2. SameRun /\ HubClean'
    BY <1>3, <2>1, NothingMoves
  <2>3. True({}, {i}, {o})'
    BY <1>2, <2>2, Kept
  <2> QED
    BY <2>1, <2>3 DEF Calm, True, InsTrue, OutsTrue
<1>9. RunPipePanics(c) => Calm'
  <2> SUFFICES ASSUME RunPipePanics(c)
               PROVE  Calm'
    OBVIOUS
  <2>1. ~Sure
    BY <1>2, <1>4 DEF RunPipePanics, WillPanic, OutOn
  <2>2. /\ HubClean' /\ SamePipes
        /\ \A j \in Inputs, q \in Outputs : Jammed(j, q)' <=> Jammed(j, q) \/ <<j, q>> = <<i, o>>
    BY <1>2, <1>3, PipeTurns
  <2> QED
    BY <1>2, <2>1, <2>2, PipeJams DEF Calm
<1> QED
  BY <1>6, <1>7, <1>8, <1>9

\* setIn, setOut, setPipe
LEMMA StartMarks ==
  ASSUME Steady, NEW c \in Callers, NEW p \in PipeIds, NEW i \in Inputs, NEW o \in Outputs, SameHub
  PROVE  /\ StartFacts(c, 12, p, i, o) /\ UNCHANGED <<outRow, pipeRow>> /\ inRow' = [inRow EXCEPT ![i] = "running"]
               => StartFacts(c, 13, p, i, o)'
         /\ StartFacts(c, 13, p, i, o) /\ UNCHANGED <<inRow, pipeRow>> /\ outRow' = [outRow EXCEPT ![o] = "running"]
               => StartFacts(c, 14, p, i, o)'
         /\ StartFacts(c, 14, p, i, o) /\ UNCHANGED <<inRow, outRow>> /\ pipeRow' = [pipeRow EXCEPT ![p].st = "running"]
               => Calm'
<1>1. SameIns /\ SameOuts /\ SamePipes /\ SameJams /\ UNCHANGED pipes
  BY HubStays DEF SameJams, Jammed
<1>2. (PipeOn(i, o)' <=> PipeOn(i, o)) /\ (Jammed(i, o)' <=> Jammed(i, o))
  BY <1>1 DEF SamePipes, SameJams
<1>3. ASSUME StartFacts(c, 12, p, i, o), UNCHANGED <<outRow, pipeRow>>, inRow' = [inRow EXCEPT ![i] = "running"]
      PROVE  StartFacts(c, 13, p, i, o)'
  <2>1. /\ RowIs(p, i, o) /\ ~IsRunning(p) /\ outRow[o] # "none" /\ pipes[<<i, o>>] # 0
        /\ True({p}, {i}, {o}) /\ (Sure => OutOn(o) /\ InOn(i)) /\ (PipeOn(i, o) \/ Jammed(i, o))
    BY <1>3 DEF StartFacts
  <2>2. (\A j \in Inputs \ {i} : inRow'[j] = inRow[j]) /\ inRow'[i] = "running"
    BY <1>3 DEF Steady, PlaneInv, RowsTyped
  <2>3. {i} \subseteq {} \cup {i}
    OBVIOUS
  <2>4. True({p}, {}, {o})'
    BY <1>3, <2>1, <2>2, <2>3, InputRowWritten
  <2>5. RowIs(p, i, o)' /\ ~IsRunning(p)' /\ outRow'[o] # "none"
    BY <1>3, <2>1 DEF RowIs, IsRunning, Exists
  <2>6. (Sure => OutOn(o)' /\ InOn(i)') /\ (PipeOn(i, o)' \/ Jammed(i, o)') /\ pipes'[<<i, o>>] # 0
    BY <1>1, <1>2, <2>1 DEF SameIns, SameOuts
  <2> QED
    BY <2>2, <2>4, <2>5, <2>6 DEF StartFacts
<1>4. ASSUME StartFacts(c, 13, p, i, o), UNCHANGED <<inRow, pipeRow>>, outRow' = [outRow EXCEPT ![o] = "running"]
      PROVE  StartFacts(c, 14, p, i, o)'
  <2>1. /\ RowIs(p, i, o) /\ ~IsRunning(p) /\ inRow[i] = "running" /\ pipes[<<i, o>>] # 0
        /\ True({p}, {}, {o}) /\ (Sure => OutOn(o) /\ InOn(i)) /\ (PipeOn(i, o) \/ Jammed(i, o))
    BY <1>4 DEF StartFacts
  <2>2. (\A j \in Outputs \ {o} : outRow'[j] = outRow[j]) /\ outRow'[o] = "running"
    BY <1>4 DEF Steady, PlaneInv, RowsTyped
  <2>3. {o} \subseteq {} \cup {o}
    OBVIOUS
  <2>4. True({p}, {}, {})'
    BY <1>4, <2>1, <2>2, <2>3, OutputRowWritten
  <2>5. RowIs(p, i, o)' /\ ~IsRunning(p)' /\ inRow'[i] = "running"
    BY <1>4, <2>1 DEF RowIs, IsRunning, Exists
  <2>6. (Sure => OutOn(o)' /\ InOn(i)') /\ (PipeOn(i, o)' \/ Jammed(i, o)') /\ pipes'[<<i, o>>] # 0
    BY <1>1, <1>2, <2>1 DEF SameIns, SameOuts
  <2> QED
    BY <2>2, <2>4, <2>5, <2>6 DEF StartFacts
<1>5. ASSUME StartFacts(c, 14, p, i, o), UNCHANGED <<inRow, outRow>>, pipeRow' = [pipeRow EXCEPT ![p].st = "running"]
      PROVE  Calm'
  <2>1. /\ RowIs(p, i, o) /\ inRow[i] = "running" /\ outRow[o] = "running"
        /\ True({p}, {}, {}) /\ (PipeOn(i, o) \/ Jammed(i, o))
    BY <1>5 DEF StartFacts
  <2>2. pipeRow[p] = [in |-> i, out |-> o, st |-> pipeRow[p].st] /\ pipeRow[p] \in Rows
    BY <2>1, KeyTyped DEF RowIs
  <2>3. /\ \A q \in PipeIds \ {p} : pipeRow'[q] = pipeRow[q]
        /\ pipeRow'[p] = [in |-> i, out |-> o, st |-> "running"]
    BY <1>5, <2>2 DEF Steady, PlaneInv, RowsTyped
  <2>4. Exists(p)' /\ pipeRow'[p].in = i /\ pipeRow'[p].out = o /\ pipeRow'[p].st = "running"
    <3>1. [in |-> i, out |-> o, st |-> "running"] # NoRow
      BY PlaneAssumption
    <3> QED
      BY <2>3, <3>1 DEF Exists
  <2>5. Rowed'
    <3> SUFFICES ASSUME NEW j \in Inputs, NEW x \in Outputs, PipeOn(j, x)'
                 PROVE  \E q \in PipeIds : Exists(q)' /\ pipeRow'[q].in = j /\ pipeRow'[q].out = x
      BY DEF Rowed
    <3>1. PICK q \in PipeIds : Exists(q) /\ pipeRow[q].in = j /\ pipeRow[q].out = x
      BY <1>1, <2>1 DEF True, Rowed, SamePipes
    <3>2. CASE q = p
      BY <2>1, <2>4, <3>1, <3>2 DEF RowIs
    <3>3. CASE q # p
      BY <2>3, <3>1, <3>3 DEF Exists
    <3> QED
      BY <3>2, <3>3
  <2>6. RowHolds(p)'
    BY <1>2, <1>5, <2>1, <2>4 DEF RowHolds, IsRunning
  <2>7. {p} \subseteq {} \cup {p}
    OBVIOUS
  <2> QED
    BY <1>5, <2>1, <2>3, <2>5, <2>6, <2>7, PipeRowWritten DEF Calm
<1> QED
  BY <1>3, <1>4, <1>5

LEMMA BeginningPipeStep ==
  ASSUME Steady, NEW c \in Callers, Exec(c), BeginningPipe(c)
  PROVE  ClientInv(c)'
<1>1. PICK p \in PipeIds, i \in Inputs, o \in Outputs, k \in 1 .. 14 :
        prog[c] = After(BeginPipeProg(p, i, o), <<>>, k) /\ StartFacts(c, k, p, i, o)
  BY DEF BeginningPipe
<1>2. PICK w : w = BeginPipeProg(p, i, o)
  OBVIOUS
<1>3. w \in Seq(Instr) /\ Len(w) = 14 /\ Plain(w)
  BY <1>2, BeginPipeIs
<1>4. /\ w[1] = On("needIn", i) /\ w[2] = On("needOut", o) /\ w[3] = On("createIn", i)
      /\ w[4] = On("createOut", o) /\ w[5] = For("connect", i, o) /\ w[6] = On("findOut", o)
      /\ w[7] = On("runOut", o) /\ w[8] = On("findIn", i) /\ w[9] = On("runIn", i)
      /\ w[10] = For("findPipe", i, o) /\ w[11] = For("runPipe", i, o)
      /\ w[12] = Set("setIn", i, "running") /\ w[13] = Set("setOut", o, "running")
      /\ w[14] = Set("setPipe", p, "running")
  BY <1>2, BeginPipeIs
<1>5. /\ prog[c][1] = w[k] /\ Arg(c) = w[k].x /\ At(c, w[k].op)
      /\ Continue(c) => prog'[c] = After(w, <<>>, k + 1)
      /\ Continue(c) /\ k = 14 => prog'[c] = <<>>
      /\ Fail(c) => prog'[c] = <<>>
  <2>1. ProgTyped /\ k \in 1 .. Len(w) /\ prog[c] = After(w, <<>>, k)
    BY <1>1, <1>2, <1>3 DEF Steady, PlaneInv
  <2>2. /\ prog[c][1] = w[k] /\ Arg(c) = w[k].x /\ At(c, w[k].op)
        /\ Continue(c) => prog'[c] = After(w, <<>>, k + 1)
        /\ Continue(c) /\ k = Len(w) => prog'[c] = <<>>
        /\ Fail(c) => prog'[c] = <<>>
    BY <1>3, <2>1, PlainStep
  <2> QED
    BY <1>3, <2>2
<1>6. ASSUME k # 14, Continue(c), StartFacts(c, k + 1, p, i, o)'
      PROVE  ClientInv(c)'
  <2>1. k + 1 \in 1 .. 14
    BY <1>6
  <2>2. BeginningPipe(c)'
    BY <1>2, <1>5, <1>6, <2>1 DEF BeginningPipe
  <2> QED
    BY <2>2 DEF ClientInv
<1>7. ASSUME Calm', prog'[c] = <<>>
      PROVE  ClientInv(c)'
  BY <1>7, RestsCalm DEF ClientInv
<1>8. k < 7 => Calm
  BY <1>1 DEF StartFacts, Calm
<1>9. CASE k \in 1 .. 2
  <2>1. Still /\ (Continue(c) \/ Fail(c))
    <3>1. k = 1 => At(c, "needIn")
      BY <1>4, <1>5, OnOp
    <3>2. k = 2 => At(c, "needOut")
      BY <1>4, <1>5, OnOp
    <3> QED
      BY <1>9, <3>1, <3>2, ReadsDo
  <2>2. CASE Fail(c)
    BY <1>5, <1>8, <1>9, <2>1, <2>2, GivesUpStill
  <2>3. CASE ~Fail(c)
    <3>1. k = 1 => At(c, "needIn") /\ Arg(c) = i
      BY <1>4, <1>5 DEF On
    <3>2. k = 2 => At(c, "needOut") /\ Arg(c) = o
      BY <1>4, <1>5 DEF On
    <3>3. (k = 1 => inRow[i] # "none") /\ (k = 2 => outRow[o] # "none")
      BY <2>3, <3>1, <3>2, ReadsDo
    <3>4. (k = 1 => StartFacts(c, 2, p, i, o)') /\ (k = 2 => StartFacts(c, 3, p, i, o)')
      BY <1>1, <2>1, <3>3, StartReads
    <3>5. StartFacts(c, k + 1, p, i, o)'
      BY <1>9, <3>4
    <3> QED
      BY <1>6, <1>9, <2>1, <2>3, <3>5
  <2> QED
    BY <2>2, <2>3
<1>10. CASE k \in 3 .. 5
  <2>1. k = 3 => At(c, "createIn") /\ Arg(c) = i
    BY <1>4, <1>5 DEF On
  <2>2. k = 4 => At(c, "createOut") /\ Arg(c) = o
    BY <1>4, <1>5 DEF On
  <2>3. k = 5 => At(c, "connect") /\ Arg(c)[1] = i /\ Arg(c)[2] = o
    BY <1>4, <1>5 DEF For, On
  <2>4. /\ k = 3 => (CreateInput(i) \/ UNCHANGED <<regVars, objVars>>) /\ Continue(c)
        /\ k = 4 => (CreateOutput(o) \/ UNCHANGED <<regVars, objVars>>) /\ Continue(c)
        /\ k = 5 => \/ Connect(i, o) /\ Continue(c)
                    \/ pipes[<<i, o>>] # 0 /\ UNCHANGED <<regVars, objVars>> /\ Continue(c)
                    \/ UNCHANGED <<regVars, objVars>> /\ Fail(c)
        /\ UNCHANGED held /\ SameRows
    <3>1. k = 3 => /\ (CreateInput(i) \/ UNCHANGED <<regVars, objVars>>) /\ Continue(c)
                   /\ UNCHANGED held /\ SameRows
      BY <2>1, CallsDo
    <3>2. k = 4 => /\ (CreateOutput(o) \/ UNCHANGED <<regVars, objVars>>) /\ Continue(c)
                   /\ UNCHANGED held /\ SameRows
      BY <2>2, CallsDo
    <3>3. k = 5 => /\ \/ Connect(i, o) /\ Continue(c)
                      \/ pipes[<<i, o>>] # 0 /\ UNCHANGED <<regVars, objVars>> /\ Continue(c)
                      \/ UNCHANGED <<regVars, objVars>> /\ Fail(c)
                   /\ UNCHANGED held /\ SameRows
      <4> SUFFICES ASSUME k = 5
                   PROVE  /\ \/ Connect(i, o) /\ Continue(c)
                             \/ pipes[<<i, o>>] # 0 /\ UNCHANGED <<regVars, objVars>> /\ Continue(c)
                             \/ UNCHANGED <<regVars, objVars>> /\ Fail(c)
                          /\ UNCHANGED held /\ SameRows
        OBVIOUS
      <4>1. At(c, "connect") /\ Arg(c)[1] = i /\ Arg(c)[2] = o
        BY <2>3
      <4> QED
        BY <4>1, CallsDo
    <3> QED
      BY <1>10, <3>1, <3>2, <3>3
  <2>5. UNCHANGED rowVars
    BY <2>4 DEF SameRows, rowVars
  <2>6. \/ /\ Continue(c)
           /\ \/ k = 3 /\ CreateInput(i)
              \/ k = 4 /\ CreateOutput(o)
              \/ k = 5 /\ Connect(i, o)
              \/ k = 5 /\ pipes[<<i, o>>] # 0 /\ UNCHANGED <<regVars, objVars>>
              \/ k # 5 /\ UNCHANGED <<regVars, objVars>>
        \/ UNCHANGED <<regVars, objVars>> /\ Fail(c)
    BY <1>10, <2>4
  <2>7. CASE UNCHANGED <<regVars, objVars>> /\ Fail(c)
    <3>1. SameHub
      BY <2>4, <2>7 DEF SameHub, hubVars
    <3>2. Calm'
      BY <1>8, <1>10, <2>5, <3>1, KeptStill DEF Calm
    <3> QED
      BY <1>5, <1>7, <2>7, <3>2
  <2> QED
    BY <1>1, <1>6, <1>10, <2>5, <2>6, <2>7, StartMakes
<1>11. CASE k \in {6, 8, 10}
  <2>1. pipes[<<i, o>>] # 0
    BY <1>1, <1>11 DEF StartFacts
  <2>2. sources[i] # 0 /\ sinks[o] # 0
    BY <2>1, EndsAre
  <2>3. k = 6 => At(c, "findOut") /\ Arg(c) = o
    BY <1>4, <1>5 DEF On
  <2>4. k = 8 => At(c, "findIn") /\ Arg(c) = i
    BY <1>4, <1>5 DEF On
  <2>5. k = 10 => At(c, "findPipe") /\ Arg(c) = <<i, o>> /\ Arg(c)[1] = i /\ Arg(c)[2] = o
    BY <1>4, <1>5 DEF For, On
  <2>6. /\ k = 6 => FindSink(c, o) /\ Continue(c) /\ SameRows
        /\ k = 8 => FindSource(c, i) /\ Continue(c) /\ SameRows
        /\ k = 10 => FindPipe(c, i, o) /\ Continue(c) /\ SameRows
    BY <2>1, <2>2, <2>3, <2>4, <2>5, FindsDo
  <2>7. UNCHANGED rowVars /\ Continue(c)
    BY <1>11, <2>6 DEF SameRows, rowVars
  <2>8. StartFacts(c, k + 1, p, i, o)'
    BY <1>1, <1>11, <2>6, <2>7, StartFinds
  <2> QED
    BY <1>6, <1>11, <2>7, <2>8
<1>12. CASE k \in {7, 9}
  <2>1. k = 7 => At(c, "runOut")
    BY <1>4, <1>5, OnOp
  <2>2. k = 9 => At(c, "runIn")
    BY <1>4, <1>5, OnOp
  <2>3. /\ k = 7 => (RunSink(c) \/ RunSinkFails(c)) /\ Continue(c) /\ SameRows
        /\ k = 9 => (RunSource(c) \/ RunSourceFails(c)) /\ Continue(c) /\ SameRows
    BY <2>1, <2>2, RunsDo
  <2>4. UNCHANGED rowVars /\ Continue(c)
    BY <1>12, <2>3 DEF SameRows, rowVars
  <2>5. StartFacts(c, k + 1, p, i, o)'
    BY <1>1, <1>12, <2>3, <2>4, StartRuns
  <2> QED
    BY <1>6, <1>12, <2>4, <2>5
<1>13. CASE k = 11
  <2>1. At(c, "runPipe")
    BY <1>4, <1>5, <1>13, OnOp
  <2>2. /\ \/ (RunPipe(c) \/ RunPipeAgain(c)) /\ Continue(c)
           \/ (RunPipeFails(c) \/ RunPipePanics(c)) /\ prog'[c] = <<>>
        /\ SameRows
    <3>1. prog' = [prog EXCEPT ![c] = <<>>] => prog'[c] = <<>>
      BY DEF Steady, PlaneInv, ProgTyped
    <3> QED
      BY <1>5, <2>1, <3>1, RunsDo
  <2>3. UNCHANGED rowVars
    BY <2>2 DEF SameRows, rowVars
  <2>4. /\ RunPipe(c) \/ RunPipeAgain(c) => StartFacts(c, k + 1, p, i, o)'
        /\ RunPipeFails(c) \/ RunPipePanics(c) => Calm'
    BY <1>1, <1>13, <2>3, StartsThePipe
  <2> QED
    BY <1>6, <1>7, <1>13, <2>2, <2>4
<1>14. CASE k \in 12 .. 14
  <2>1. k = 12 => At(c, "setIn") /\ Arg(c) = i /\ prog[c][1].st = "running"
    BY <1>4, <1>5 DEF Set
  <2>2. k = 13 => At(c, "setOut") /\ Arg(c) = o /\ prog[c][1].st = "running"
    BY <1>4, <1>5 DEF Set
  <2>3. k = 14 => At(c, "setPipe") /\ Arg(c) = p /\ prog[c][1].st = "running"
    BY <1>4, <1>5 DEF Set
  <2>4. inRow[i] # "none" /\ outRow[o] # "none" /\ Exists(p)
    BY <1>1, <1>14 DEF StartFacts, RowIs
  <2>5. /\ SameHub /\ Continue(c)
        /\ k = 12 => UNCHANGED <<outRow, pipeRow>> /\ inRow' = [inRow EXCEPT ![i] = "running"]
        /\ k = 13 => UNCHANGED <<inRow, pipeRow>> /\ outRow' = [outRow EXCEPT ![o] = "running"]
        /\ k = 14 => UNCHANGED <<inRow, outRow>> /\ pipeRow' = [pipeRow EXCEPT ![p].st = "running"]
    BY <1>14, <2>1, <2>2, <2>3, <2>4, WritesDo
  <2>6. (k # 14 => StartFacts(c, k + 1, p, i, o)') /\ (k = 14 => Calm')
    BY <1>1, <1>14, <2>5, StartMarks
  <2> QED
    BY <1>5, <1>6, <1>7, <2>5, <2>6
<1>15. k \in 1 .. 2 \/ k \in 3 .. 5 \/ k \in {6, 8, 10} \/ k \in {7, 9} \/ k = 11 \/ k \in 12 .. 14
  OBVIOUS
<1> QED
  BY <1>9, <1>10, <1>11, <1>12, <1>13, <1>14, <1>15
-----------------------------------------------------------------------------
(* What a client's handler does, whatever it is doing.                        *)
LEMMA ClientStep ==
  ASSUME Steady, NEW c \in Callers, Exec(c), ClientInv(c)
  PROVE  ClientInv(c)'
<1>1. CASE Resting(c) \/ OrphaningIn(c) \/ OrphaningOut(c) \/ LosingIn(c) \/ LosingOut(c)
             \/ MarkingIn(c) \/ MarkingOut(c)
  BY <1>1, RestingStep, OrphaningInStep, OrphaningOutStep, LosingInStep, LosingOutStep, MarkingInStep,
     MarkingOutStep, Zenon
<1>2. CASE CreatingPipe(c) \/ UpdatingPipe(c) \/ DeletingPipe(c) \/ BeginningPipe(c) \/ StoppingPipe(c)
  BY <1>2, CreatingPipeStep, UpdatingPipeStep, DeletingPipeStep, BeginningPipeStep, StoppingPipeStep, Zenon
<1>3. CASE CreatingInput(c) \/ UpdatingInput(c) \/ DeletingInput(c) \/ BeginningInput(c) \/ StoppingInput(c)
  BY <1>3, CreatingInputStep, UpdatingInputStep, DeletingInputStep, BeginningInputStep, StoppingInputStep, Zenon
<1>4. CASE CreatingOutput(c) \/ UpdatingOutput(c) \/ DeletingOutput(c) \/ BeginningOutput(c)
             \/ StoppingOutput(c)
  BY <1>4, CreatingOutputStep, UpdatingOutputStep, DeletingOutputStep, BeginningOutputStep,
     StoppingOutputStep, Zenon
<1> QED
  BY <1>1, <1>2, <1>3, <1>4, Zenon DEF ClientInv

(* Once Restore is done nothing is wrong.                                     *)
LEMMA AgreedCalm ==
  ASSUME Steady, Agreed
  PROVE  Calm
<1>1. NothingLoose /\ Settled({}) /\ Accounted({}, {}, {}) /\ InsOn({}) /\ OutsOn({})
  BY DEF Agreed, Sound
<1>2. HubClean
  <2>1. ASSUME NEW x \in Objs, pstate[x] = "running" PROVE Registered(x)
    <3>1. PICK p \in PipeIds : Exists(p) /\ pipes[Key(p)] = x
      BY <1>1, <2>1 DEF NothingLoose
    <3> QED
      BY <3>1, KeyTyped DEF Registered
  <2> QED
    BY <1>1, <2>1 DEF NothingLoose, HubClean
<1>3. Rowed
  BY <1>1, RunningRow DEF Rowed
<1>4. \A i \in Inputs, o \in Outputs : ~Jammed(i, o)
  BY <1>1, OnTyped DEF NothingLoose, Jammed
<1>5. ASSUME NEW p \in PipeIds, Exists(p)
      PROVE  /\ IsRunning(p) <=> PipeOn(pipeRow[p].in, pipeRow[p].out)
             /\ IsRunning(p) => inRow[pipeRow[p].in] = "running" /\ outRow[pipeRow[p].out] = "running"
  <2>1. IsRunning(p) => /\ PipeOn(pipeRow[p].in, pipeRow[p].out)
                        /\ inRow[pipeRow[p].in] = "running" /\ outRow[pipeRow[p].out] = "running"
    BY <1>1, <1>5 DEF Settled
  <2>2. ASSUME PipeOn(pipeRow[p].in, pipeRow[p].out) PROVE IsRunning(p)
    <3>1. pipeRow[p].in \in Inputs /\ pipeRow[p].out \in Outputs
      BY <1>5, KeyTyped
    <3>2. PICK q \in PipeIds : Exists(q) /\ IsRunning(q) /\ pipeRow[q].in = pipeRow[p].in
                                /\ pipeRow[q].out = pipeRow[p].out
      BY <1>1, <2>2, <3>1, RunningRow
    <3>3. q = p
      BY <1>5, <3>2 DEF Steady, PairUnique
    <3> QED
      BY <3>2, <3>3
  <2> QED
    BY <2>1, <2>2
<1>6. InsTrue({})
  BY <1>1 DEF InsTrue, Sure, Accounted, InsOn, InTold
<1>7. OutsTrue({})
  BY <1>1 DEF OutsTrue, Sure, Accounted, OutsOn, OutTold
<1> QED
  BY <1>2, <1>3, <1>4, <1>5, <1>6, <1>7 DEF Calm, True, Unjammed, RowHolds

(* Nothing is wrong when no handler is at work: every place a handler can be  *)
(* at is an instruction of its program.                                       *)
LEMMA NotDone ==
  ASSUME NEW c \in Callers, NEW w \in Seq(Instr), NEW rest \in Seq(Instr), NEW k \in 1 .. Len(w),
         prog[c] = After(w, rest, k)
  PROVE  prog[c] # <<>>
  BY HeadIs

LEMMA NotEmpty ==
  ASSUME NEW a \in Instr, NEW q \in Seq(Instr)
  PROVE  <<a>> \o q # <<>>
<1>1. PICK w : w = <<a>>
  OBVIOUS
<1>2. w \in Seq(Instr) /\ Len(w) = 1
  BY <1>1
<1>3. PICK s : s = w \o q
  OBVIOUS
<1>4. s \in Seq(Instr) /\ Len(s) = Len(w) + Len(q) /\ Len(q) \in Nat
  BY <1>2, <1>3, ConcatProperties, LenProperties
<1>5. Len(s) # 0
  BY <1>2, <1>4
<1>6. s # <<>>
  BY <1>5
<1> QED
  BY <1>1, <1>3, <1>6

LEMMA QuietCalm ==
  ASSUME Steady, NEW c \in Callers, ClientInv(c), prog[c] = <<>>
  PROVE  Calm
<1>n. <<>> \in Seq(Instr)
  OBVIOUS
<1>1. ~OrphaningIn(c) /\ ~OrphaningOut(c)
  <2>1. ASSUME NEW q \in Seq(Instr), NEW i \in Inputs PROVE prog[c] # <<On("orphanIn", i)>> \o q
    <3>1. On("orphanIn", i) \in Instr
      BY PlainInstr DEF InOps
    <3> QED
      BY <3>1, NotEmpty
  <2>2. ASSUME NEW q \in Seq(Instr), NEW o \in Outputs PROVE prog[c] # <<On("orphanOut", o)>> \o q
    <3>1. On("orphanOut", o) \in Instr
      BY PlainInstr DEF OutOps
    <3> QED
      BY <3>1, NotEmpty
  <2> QED
    BY <2>1, <2>2 DEF OrphaningIn, OrphaningOut
<1>2. ~LosingIn(c) /\ ~LosingOut(c)
  <2>1. ASSUME NEW q \in Seq(Instr), NEW i \in Inputs, NEW k \in 1 .. 2 PROVE prog[c] # After(DropIn(i), q, k)
    BY DropsAre, NotDone
  <2>2. ASSUME NEW q \in Seq(Instr), NEW o \in Outputs, NEW k \in 1 .. 2 PROVE prog[c] # After(DropOut(o), q, k)
    BY DropsAre, NotDone
  <2> QED
    BY <2>1, <2>2 DEF LosingIn, LosingOut
<1>3. ~MarkingIn(c) /\ ~MarkingOut(c)
  <2>1. ASSUME NEW P \in SUBSET PipeIds, NEW p \in PipeIds, NEW o \in Outputs, Settling(P)
        PROVE  prog[c] # After(OutRound(p, o), <<On("eachOut", OutsOf(P \ {p}))>>, 1)
    <3>1. On("eachOut", OutsOf(P \ {p})) \in Instr
      BY <2>1, OutsOfTyped DEF Settling, Dead
    <3>2. <<On("eachOut", OutsOf(P \ {p}))>> \in Seq(Instr)
      BY <3>1
    <3>3. OutRound(p, o) \in Seq(Instr) /\ 1 \in 1 .. Len(OutRound(p, o))
      BY OutRoundIs
    <3> QED
      BY <3>2, <3>3, NotDone
  <2>2. ASSUME NEW P \in SUBSET PipeIds, NEW p \in PipeIds, NEW i \in Inputs, Settling(P)
        PROVE  prog[c] # After(InRound(p, i), <<On("eachIn", InsOf(P \ {p}))>>, 1)
    <3>1. On("eachIn", InsOf(P \ {p})) \in Instr
      BY <2>2, InsOfTyped DEF Settling, Dead
    <3>2. <<On("eachIn", InsOf(P \ {p}))>> \in Seq(Instr)
      BY <3>1
    <3>3. InRound(p, i) \in Seq(Instr) /\ 1 \in 1 .. Len(InRound(p, i))
      BY InRoundIs
    <3> QED
      BY <3>2, <3>3, NotDone
  <2> QED
    BY <2>1, <2>2 DEF MarkingIn, MarkingOut
<1>4. ~CreatingPipe(c) /\ ~UpdatingPipe(c) /\ ~DeletingPipe(c) /\ ~BeginningPipe(c)
  <2>1. ASSUME NEW p \in PipeIds, NEW i \in Inputs, NEW o \in Outputs, NEW t \in Seq(Instr)
        PROVE  /\ \A k \in 1 .. 4 : prog[c] # After(CreatePipeProg(p, i, o), t, k)
               /\ \A k \in 1 .. 3 : prog[c] # After(UpdatePipeProg(p, i, o), t, k)
               /\ \A k \in 1 .. 2 : prog[c] # After(DeletePipeProg(p, i, o), t, k)
               /\ \A k \in 1 .. 14 : prog[c] # After(BeginPipeProg(p, i, o), t, k)
    <3>1. \A k \in 1 .. 4 : prog[c] # After(CreatePipeProg(p, i, o), t, k)
      <4>1. PICK w : w = CreatePipeProg(p, i, o)
        OBVIOUS
      <4>2. w \in Seq(Instr) /\ Len(w) = 4
        BY <4>1, CreatePipeIs
      <4>3. \A k \in 1 .. 4 : prog[c] # After(w, t, k)
        BY <4>2, NotDone
      <4> QED
        BY <4>1, <4>3
    <3>2. \A k \in 1 .. 3 : prog[c] # After(UpdatePipeProg(p, i, o), t, k)
      <4>1. PICK w : w = UpdatePipeProg(p, i, o)
        OBVIOUS
      <4>2. w \in Seq(Instr) /\ Len(w) = 3
        BY <4>1, UpdatePipeIs
      <4>3. \A k \in 1 .. 3 : prog[c] # After(w, t, k)
        BY <4>2, NotDone
      <4> QED
        BY <4>1, <4>3
    <3>3. \A k \in 1 .. 2 : prog[c] # After(DeletePipeProg(p, i, o), t, k)
      <4>1. PICK w : w = DeletePipeProg(p, i, o)
        OBVIOUS
      <4>2. w \in Seq(Instr) /\ Len(w) = 2
        BY <4>1, DeletePipeIs
      <4>3. \A k \in 1 .. 2 : prog[c] # After(w, t, k)
        BY <4>2, NotDone
      <4> QED
        BY <4>1, <4>3
    <3>4. \A k \in 1 .. 14 : prog[c] # After(BeginPipeProg(p, i, o), t, k)
      <4>1. PICK w : w = BeginPipeProg(p, i, o)
        OBVIOUS
      <4>2. w \in Seq(Instr) /\ Len(w) = 14
        BY <4>1, BeginPipeIs
      <4>3. \A k \in 1 .. 14 : prog[c] # After(w, t, k)
        BY <4>2, NotDone
      <4> QED
        BY <4>1, <4>3
    <3> QED
      BY <3>1, <3>2, <3>3, <3>4
  <2> QED
    BY <1>n, <2>1 DEF CreatingPipe, UpdatingPipe, DeletingPipe, BeginningPipe
<1>5. ~StoppingPipe(c)
  <2>1. ASSUME NEW p \in PipeIds, NEW i \in Inputs, NEW o \in Outputs, NEW k \in 1 .. 2
        PROVE  prog[c] # After(EndPipeProg(p, i, o), OrphanProg(i, o), k)
    <3>1. OrphanProg(i, o) \in Seq(Instr)
      BY PairMade DEF Prog, Status
    <3> QED
      BY <3>1, EndPipeIs, NotDone
  <2> QED
    BY <2>1 DEF StoppingPipe
<1>6. ~CreatingInput(c) /\ ~UpdatingInput(c) /\ ~CreatingOutput(c) /\ ~UpdatingOutput(c)
  BY DEF CreatingInput, UpdatingInput, CreatingOutput, UpdatingOutput
<1>7. ~DeletingInput(c) /\ ~BeginningInput(c) /\ ~StoppingInput(c)
  <2>1. ASSUME NEW i \in Inputs, NEW t \in Seq(Instr)
        PROVE  /\ \A k \in 1 .. 2 : prog[c] # After(DeleteInputProg(i), t, k)
               /\ \A k \in 1 .. 4 : prog[c] # After(StartInputProg(i), t, k)
               /\ \A k \in 1 .. 3 : prog[c] # After(StopInputProg(i), t, k)
    <3>1. \A k \in 1 .. 2 : prog[c] # After(DeleteInputProg(i), t, k)
      <4>1. PICK w : w = DeleteInputProg(i)
        OBVIOUS
      <4>2. w \in Seq(Instr) /\ Len(w) = 2
        BY <4>1, DeleteInputIs
      <4>3. \A k \in 1 .. 2 : prog[c] # After(w, t, k)
        BY <4>2, NotDone
      <4> QED
        BY <4>1, <4>3
    <3>2. \A k \in 1 .. 4 : prog[c] # After(StartInputProg(i), t, k)
      <4>1. PICK w : w = StartInputProg(i)
        OBVIOUS
      <4>2. w \in Seq(Instr) /\ Len(w) = 4
        BY <4>1, BeginInputIs
      <4>3. \A k \in 1 .. 4 : prog[c] # After(w, t, k)
        BY <4>2, NotDone
      <4> QED
        BY <4>1, <4>3
    <3>3. \A k \in 1 .. 3 : prog[c] # After(StopInputProg(i), t, k)
      <4>1. PICK w : w = StopInputProg(i)
        OBVIOUS
      <4>2. w \in Seq(Instr) /\ Len(w) = 3
        BY <4>1, StopInputIs
      <4>3. \A k \in 1 .. 3 : prog[c] # After(w, t, k)
        BY <4>2, NotDone
      <4> QED
        BY <4>1, <4>3
    <3> QED
      BY <3>1, <3>2, <3>3
  <2> QED
    BY <1>n, <2>1 DEF DeletingInput, BeginningInput, StoppingInput
<1>8. ~DeletingOutput(c) /\ ~BeginningOutput(c) /\ ~StoppingOutput(c)
  <2>1. ASSUME NEW o \in Outputs, NEW t \in Seq(Instr)
        PROVE  /\ \A k \in 1 .. 2 : prog[c] # After(DeleteOutputProg(o), t, k)
               /\ \A k \in 1 .. 4 : prog[c] # After(StartOutputProg(o), t, k)
               /\ \A k \in 1 .. 3 : prog[c] # After(StopOutputProg(o), t, k)
    <3>1. \A k \in 1 .. 2 : prog[c] # After(DeleteOutputProg(o), t, k)
      <4>1. PICK w : w = DeleteOutputProg(o)
        OBVIOUS
      <4>2. w \in Seq(Instr) /\ Len(w) = 2
        BY <4>1, DeleteOutputIs
      <4>3. \A k \in 1 .. 2 : prog[c] # After(w, t, k)
        BY <4>2, NotDone
      <4> QED
        BY <4>1, <4>3
    <3>2. \A k \in 1 .. 4 : prog[c] # After(StartOutputProg(o), t, k)
      <4>1. PICK w : w = StartOutputProg(o)
        OBVIOUS
      <4>2. w \in Seq(Instr) /\ Len(w) = 4
        BY <4>1, BeginOutputIs
      <4>3. \A k \in 1 .. 4 : prog[c] # After(w, t, k)
        BY <4>2, NotDone
      <4> QED
        BY <4>1, <4>3
    <3>3. \A k \in 1 .. 3 : prog[c] # After(StopOutputProg(o), t, k)
      <4>1. PICK w : w = StopOutputProg(o)
        OBVIOUS
      <4>2. w \in Seq(Instr) /\ Len(w) = 3
        BY <4>1, StopOutputIs
      <4>3. \A k \in 1 .. 3 : prog[c] # After(w, t, k)
        BY <4>2, NotDone
      <4> QED
        BY <4>1, <4>3
    <3> QED
      BY <3>1, <3>2, <3>3
  <2> QED
    BY <1>n, <2>1 DEF DeletingOutput, BeginningOutput, StoppingOutput
<1>9. Resting(c)
  BY <1>1, <1>2, <1>3, <1>4, <1>5, <1>6, <1>7, <1>8, Zenon DEF ClientInv
<1>10. PICK P \in SUBSET PipeIds : Settling(P) /\ Rest(prog[c], P)
  BY <1>9 DEF Resting
<1>11. P = {}
  BY <1>10 DEF Rest
<1> QED
  BY <1>10, <1>11 DEF Settling, Calm

-----------------------------------------------------------------------------
(* A row is made only under an id that a Create request was given.            *)
Makers == {"insertIn", "saveIn", "insertOut", "saveOut", "insertPipe", "savePipe"}
Safe == {m \in Instr : m.op \notin Makers}

LEMMA SafeInstr ==
  /\ \A op \in InOps, i \in Inputs : op \notin Makers => On(op, i) \in Safe
  /\ \A op \in OutOps, o \in Outputs : op \notin Makers => On(op, o) \in Safe
  /\ \A op \in KeyOps, i \in Inputs, o \in Outputs : For(op, i, o) \in Safe
  /\ \A op \in PipeOps, e \in Triples : op \notin Makers => On(op, e) \in Safe
  /\ \A p \in PipeIds : On("dropPipe", p) \in Safe
  /\ \A op \in QueryOps : On(op, 0) \in Safe
  /\ \A i \in Inputs, st \in Status : Set("setIn", i, st) \in Safe
  /\ \A o \in Outputs, st \in Status : Set("setOut", o, st) \in Safe
  /\ \A p \in PipeIds, st \in Status : Set("setPipe", p, st) \in Safe
<1>1. KeyOps \cap Makers = {} /\ QueryOps \cap Makers = {}
      /\ "dropPipe" \notin Makers /\ "setIn" \notin Makers /\ "setOut" \notin Makers /\ "setPipe" \notin Makers
  BY DEF KeyOps, QueryOps, Makers
<1> HIDE DEF Makers
<1>2. \A m \in Instr : m.op \notin Makers => m \in Safe
  BY DEF Safe
<1>3. \A op \in InOps, i \in Inputs : op \notin Makers => On(op, i) \in Safe
  BY <1>2, PlainInstr, OnOp
<1>4. \A op \in OutOps, o \in Outputs : op \notin Makers => On(op, o) \in Safe
  BY <1>2, PlainInstr, OnOp
<1>5. \A op \in KeyOps, i \in Inputs, o \in Outputs : For(op, i, o) \in Safe
  BY <1>1, <1>2, PlainInstr, OnOp
<1>6. \A op \in PipeOps, e \in Triples : op \notin Makers => On(op, e) \in Safe
  BY <1>2, PlainInstr, OnOp
<1>7. (\A p \in PipeIds : On("dropPipe", p) \in Safe) /\ \A op \in QueryOps : On(op, 0) \in Safe
  BY <1>1, <1>2, PlainInstr, OnOp
<1>8. /\ \A i \in Inputs, st \in Status : Set("setIn", i, st) \in Safe
      /\ \A o \in Outputs, st \in Status : Set("setOut", o, st) \in Safe
      /\ \A p \in PipeIds, st \in Status : Set("setPipe", p, st) \in Safe
  BY <1>1, <1>2, StampedInstr, OnOp
<1> QED
  BY <1>3, <1>4, <1>5, <1>6, <1>7, <1>8

LEMMA SafeLoops ==
  ASSUME NEW op \in Loops, NEW X,
         op = "eachOut" => X \in SUBSET (PipeIds \X Outputs),
         op = "eachIn" => X \in SUBSET (PipeIds \X Inputs),
         op = "eachPipe" => X \in SUBSET Triples,
         op = "eachInput" => X \in SUBSET Inputs,
         op = "eachOutput" => X \in SUBSET Outputs
  PROVE  On(op, X) \in Safe
<1>1. On(op, X) \in Instr
  BY LoopInstr DEF Loops
<1>2. op \notin Makers
  BY DEF Loops, Makers
<1> QED
  BY <1>1, <1>2, OnOp DEF Safe

LEMMA SafePairs ==
  ASSUME NEW i \in Inputs, NEW o \in Outputs, NEW st \in Status
  PROVE  /\ StatusProg(i, o, st) \in Seq(Safe) /\ OrphanProg(i, o) \in Seq(Safe)
         /\ DropIn(i) \in Seq(Safe) /\ DropOut(o) \in Seq(Safe)
<1>1. "stopped" \in Status
  BY DEF Status
<1>2. /\ Set("setIn", i, st) \in Safe /\ Set("setOut", o, st) \in Safe
      /\ Set("setIn", i, "stopped") \in Safe /\ Set("setOut", o, "stopped") \in Safe
  BY <1>1, SafeInstr
<1>3. /\ On("orphanIn", i) \in Safe /\ On("orphanOut", o) \in Safe
      /\ On("removeIn", i) \in Safe /\ On("removeOut", o) \in Safe
  <2>1. /\ "orphanIn" \in InOps \ Makers /\ "removeIn" \in InOps \ Makers
        /\ "orphanOut" \in OutOps \ Makers /\ "removeOut" \in OutOps \ Makers
    BY DEF InOps, OutOps, Makers
  <2> QED
    BY <2>1, SafeInstr
<1> QED
  BY <1>2, <1>3 DEF StatusProg, OrphanProg, DropIn, DropOut

LEMMA SafeStarts ==
  /\ \A i \in Inputs, o \in Outputs : StartPipeProg(i, o) \in Seq(Safe)
  /\ \A i \in Inputs : StartInputProg(i) \in Seq(Safe)
  /\ \A o \in Outputs : StartOutputProg(o) \in Seq(Safe)
<1>1. /\ {"needIn", "createIn", "findIn", "runIn", "openIn", "runInOrFail"} \subseteq InOps \ Makers
      /\ {"needOut", "createOut", "findOut", "runOut", "openOut", "runOutOrFail"} \subseteq OutOps \ Makers
      /\ {"connect", "findPipe", "runPipe"} \subseteq KeyOps /\ "running" \in Status
  BY DEF InOps, OutOps, KeyOps, Makers, Status
<1>2. ASSUME NEW i \in Inputs, NEW o \in Outputs PROVE StartPipeProg(i, o) \in Seq(Safe)
  <2>1. /\ On("needIn", i) \in Safe /\ On("needOut", o) \in Safe /\ On("createIn", i) \in Safe
        /\ On("createOut", o) \in Safe /\ For("connect", i, o) \in Safe
        /\ On("findOut", o) \in Safe /\ On("runOut", o) \in Safe
        /\ On("findIn", i) \in Safe /\ On("runIn", i) \in Safe
        /\ For("findPipe", i, o) \in Safe /\ For("runPipe", i, o) \in Safe
    BY <1>1, SafeInstr
  <2> QED
    BY <2>1 DEF StartPipeProg
<1>3. ASSUME NEW i \in Inputs PROVE StartInputProg(i) \in Seq(Safe)
  <2>1. /\ On("needIn", i) \in Safe /\ On("openIn", i) \in Safe /\ On("runInOrFail", i) \in Safe
        /\ Set("setIn", i, "running") \in Safe
    BY <1>1, SafeInstr
  <2> QED
    BY <2>1 DEF StartInputProg
<1>4. ASSUME NEW o \in Outputs PROVE StartOutputProg(o) \in Seq(Safe)
  <2>1. /\ On("needOut", o) \in Safe /\ On("openOut", o) \in Safe /\ On("runOutOrFail", o) \in Safe
        /\ Set("setOut", o, "running") \in Safe
    BY <1>1, SafeInstr
  <2> QED
    BY <2>1 DEF StartOutputProg
<1> QED
  BY <1>2, <1>3, <1>4

LEMMA SafeJoin ==
  ASSUME NEW S, NEW u \in Seq(S), NEW v \in Seq(S)
  PROVE  u \o v \in Seq(S)
  BY ConcatProperties

LEMMA SafeBody ==
  ASSUME NEW op \in Loops, NEW e,
         op = "eachOut" => e \in PipeIds \X Outputs,
         op = "eachIn" => e \in PipeIds \X Inputs,
         op = "eachPipe" => e \in Triples,
         op = "eachInput" => e \in Inputs,
         op = "eachOutput" => e \in Outputs
  PROVE  Body(op, e) \in Seq(Safe)
<1>1. /\ "stopped" \in Status /\ "orphanIn" \in InOps \ Makers /\ "orphanOut" \in OutOps \ Makers
      /\ "donePipe" \in PipeOps \ Makers /\ "doneIn" \in InOps \ Makers /\ "doneOut" \in OutOps \ Makers
  BY DEF Status, InOps, OutOps, PipeOps, Makers
<1>n. <<>> \in Seq(Safe)
  OBVIOUS
<1>2. CASE op = "eachOut"
  <2>1. e[1] \in PipeIds /\ e[2] \in Outputs
    BY <1>2
  <2>2. Set("setPipe", e[1], "stopped") \in Safe /\ On("orphanOut", e[2]) \in Safe
    BY <1>1, <2>1, SafeInstr
  <2>3. <<Set("setPipe", e[1], "stopped"), On("orphanOut", e[2])>> \in Seq(Safe)
    BY <2>2
  <2> QED
    BY <1>2, <2>3 DEF Body
<1>3. CASE op = "eachIn"
  <2>1. e[1] \in PipeIds /\ e[2] \in Inputs
    BY <1>3
  <2>2. Set("setPipe", e[1], "stopped") \in Safe /\ On("orphanIn", e[2]) \in Safe
    BY <1>1, <2>1, SafeInstr
  <2>3. <<Set("setPipe", e[1], "stopped"), On("orphanIn", e[2])>> \in Seq(Safe)
    BY <2>2
  <2> QED
    BY <1>3, <2>3 DEF Body
<1>4. CASE op = "eachPipe"
  <2>1. e[2] \in Inputs /\ e[3] \in Outputs /\ e \in Triples
    BY <1>4 DEF Triples
  <2>2. StartPipeProg(e[2], e[3]) \in Seq(Safe)
    BY <2>1, SafeStarts
  <2>3. On("donePipe", e) \in Safe
    BY <1>1, <2>1, SafeInstr
  <2>4. <<On("donePipe", e)>> \in Seq(Safe)
    BY <2>3
  <2> QED
    BY <1>4, <2>2, <2>4, SafeJoin DEF Body
<1>5. CASE op = "eachInput"
  <2>1. e \in Inputs /\ On("doneIn", e) \in Safe
    BY <1>1, <1>5, SafeInstr
  <2>2. <<On("doneIn", e)>> \in Seq(Safe) /\ StartInputProg(e) \in Seq(Safe)
    BY <2>1, SafeStarts
  <2>3. StartInputProg(e) \o <<On("doneIn", e)>> \in Seq(Safe)
    BY <2>2, SafeJoin
  <2> QED
    BY <1>5, <1>n, <2>3 DEF Body
<1>6. CASE op = "eachOutput"
  <2>1. e \in Outputs /\ On("doneOut", e) \in Safe
    BY <1>1, <1>6, SafeInstr
  <2>2. <<On("doneOut", e)>> \in Seq(Safe) /\ StartOutputProg(e) \in Seq(Safe)
    BY <2>1, SafeStarts
  <2>3. StartOutputProg(e) \o <<On("doneOut", e)>> \in Seq(Safe)
    BY <2>2, SafeJoin
  <2> QED
    BY <1>6, <1>n, <2>3 DEF Body
<1> QED
  BY <1>2, <1>3, <1>4, <1>5, <1>6 DEF Loops

LEMMA SafeRescue ==
  ASSUME NEW a \in Instr, a.op \in Catches
  PROVE  Rescue(a) \in Seq(Safe)
<1>1. "stopped" \in Status
  BY DEF Status
<1>2. CASE a.op = "donePipe"
  <2>1. a.x \in Triples
    BY <1>2, InstrArg DEF PipeOps
  <2>2. a.x[1] \in PipeIds /\ a.x[2] \in Inputs /\ a.x[3] \in Outputs
    BY <2>1 DEF Triples
  <2>3. Set("setPipe", a.x[1], "stopped") \in Safe
    BY <1>1, <2>2, SafeInstr
  <2>4. <<Set("setPipe", a.x[1], "stopped")>> \in Seq(Safe)
    BY <2>3
  <2>5. OrphanProg(a.x[2], a.x[3]) \in Seq(Safe)
    BY <1>1, <2>2, SafePairs
  <2> QED
    BY <1>2, <2>4, <2>5, SafeJoin DEF Rescue
<1>3. CASE a.op = "doneIn"
  <2>1. a.x \in Inputs
    BY <1>3, InstrArg DEF InOps
  <2>2. Set("setIn", a.x, "stopped") \in Safe
    BY <1>1, <2>1, SafeInstr
  <2>3. <<Set("setIn", a.x, "stopped")>> \in Seq(Safe)
    BY <2>2
  <2> QED
    BY <1>3, <2>3 DEF Rescue
<1>4. CASE a.op = "doneOut"
  <2>1. a.x \in Outputs
    BY <1>4, InstrArg DEF OutOps
  <2>2. Set("setOut", a.x, "stopped") \in Safe
    BY <1>1, <2>1, SafeInstr
  <2>3. <<Set("setOut", a.x, "stopped")>> \in Seq(Safe)
    BY <2>2
  <2> QED
    BY <1>4, <2>3 DEF Rescue
<1> QED
  BY <1>2, <1>3, <1>4 DEF Catches

(* What an instruction puts in its place makes no row.                        *)
LEMMA Moves ==
  ASSUME PlaneInv, NEW c \in Callers, Exec(c)
  PROVE  \/ \E q \in Seq(Safe) : Become(c, q)
         \/ Fail(c)
         \/ SkipNext(c) /\ \E op \in {"findIn", "findOut"} : At(c, op)
         \/ prog' = [prog EXCEPT ![c] = <<>>]
<1>1. <<>> \in Seq(Safe)
  OBVIOUS
<1>2. Continue(c) => \E q \in Seq(Safe) : Become(c, q)
  BY <1>1 DEF Continue
<1>3. Need(c) \/ UpdateStatus(c) \/ InsertOrSave(c) \/ WritePipe(c) \/ Drop(c) \/ Create(c) \/ ConnectPipe(c)
        \/ Remove(c) \/ Open(c) \/ Run(c)
        => Continue(c) \/ Fail(c)
  BY DEF Need, UpdateStatus, InsertOrSave, WritePipe, Drop, Create, ConnectPipe, Remove, Open, Run, StartPipe
<1>4. CASE Orphan(c)
  <2>1. \/ Continue(c)
        \/ At(c, "orphanIn") /\ Become(c, DropIn(Arg(c)))
        \/ At(c, "orphanOut") /\ Become(c, DropOut(Arg(c)))
    BY <1>4 DEF Orphan, DropIn, DropOut
  <2>2. At(c, "orphanIn") => Arg(c) \in Inputs
    BY ArgTyped DEF PlaneInv, InOps
  <2>3. At(c, "orphanOut") => Arg(c) \in Outputs
    BY ArgTyped DEF PlaneInv, OutOps
  <2>4. \A i \in Inputs : DropIn(i) \in Seq(Safe)
    <3>1. TAKE i \in Inputs
    <3>2. "stopped" \in Status /\ "removeIn" \in InOps \ Makers
      BY DEF Status, InOps, Makers
    <3>3. On("removeIn", i) \in Safe /\ Set("setIn", i, "stopped") \in Safe
      BY <3>2, SafeInstr
    <3> QED
      BY <3>3 DEF DropIn
  <2>5. \A o \in Outputs : DropOut(o) \in Seq(Safe)
    <3>1. TAKE o \in Outputs
    <3>2. "stopped" \in Status /\ "removeOut" \in OutOps \ Makers
      BY DEF Status, OutOps, Makers
    <3>3. On("removeOut", o) \in Safe /\ Set("setOut", o, "stopped") \in Safe
      BY <3>2, SafeInstr
    <3> QED
      BY <3>3 DEF DropOut
  <2> QED
    BY <1>2, <2>1, <2>2, <2>3, <2>4, <2>5
<1>5. CASE Query(c)
  <2>1. \A p \in PipeIds : Exists(p) => pipeRow[p].in \in Inputs /\ pipeRow[p].out \in Outputs
    BY ExistsTyped DEF PlaneInv
  <2> DEFINE outs == {<<p, pipeRow[p].out>> : p \in {q \in PipesOf(Arg(c)) : IsRunning(q)}}
             ins == {<<p, pipeRow[p].in>> : p \in {q \in PipesTo(Arg(c)) : IsRunning(q)}}
             all == {<<p, pipeRow[p].in, pipeRow[p].out>> : p \in {q \in PipeIds : Exists(q) /\ IsRunning(q)}}
             running == {i \in Inputs : inRow[i] = "running"}
             onOuts == {o \in Outputs : outRow[o] = "running"}
  <2>2. /\ outs \in SUBSET (PipeIds \X Outputs) /\ ins \in SUBSET (PipeIds \X Inputs)
        /\ all \in SUBSET Triples /\ running \in SUBSET Inputs /\ onOuts \in SUBSET Outputs
    BY <2>1 DEF PipesOf, PipesTo, Triples
  <2>3. \/ Become(c, <<On("eachOut", outs)>>)
        \/ Become(c, <<On("eachIn", ins)>>)
        \/ Become(c, <<On("eachPipe", all)>>)
        \/ Become(c, <<On("eachInput", running)>>)
        \/ Become(c, <<On("eachOutput", onOuts)>>)
    BY <1>5 DEF Query
  <2> HIDE DEF outs, ins, all, running, onOuts
  <2>4. /\ On("eachOut", outs) \in Safe /\ On("eachIn", ins) \in Safe /\ On("eachPipe", all) \in Safe
        /\ On("eachInput", running) \in Safe /\ On("eachOutput", onOuts) \in Safe
    BY <2>2, SafeLoops DEF Loops
  <2>5. /\ <<On("eachOut", outs)>> \in Seq(Safe) /\ <<On("eachIn", ins)>> \in Seq(Safe)
        /\ <<On("eachPipe", all)>> \in Seq(Safe) /\ <<On("eachInput", running)>> \in Seq(Safe)
        /\ <<On("eachOutput", onOuts)>> \in Seq(Safe)
    BY <2>4
  <2> QED
    BY <2>3, <2>5, Zenon
<1>6. CASE Loop(c)
  <2>1. PICK op \in Loops : /\ At(c, op)
                            /\ \/ Continue(c)
                               \/ \E e \in Arg(c) : Become(c, Body(op, e) \o <<On(op, Arg(c) \ {e})>>)
    BY <1>6 DEF Loop
  <2>2. ASSUME NEW e \in Arg(c), Become(c, Body(op, e) \o <<On(op, Arg(c) \ {e})>>)
        PROVE  \E q \in Seq(Safe) : Become(c, q)
    <3> DEFINE rest == Arg(c) \ {e}
    <3>1. /\ op = "eachOut" => Arg(c) \in SUBSET (PipeIds \X Outputs)
          /\ op = "eachIn" => Arg(c) \in SUBSET (PipeIds \X Inputs)
          /\ op = "eachPipe" => Arg(c) \in SUBSET Triples
          /\ op = "eachInput" => Arg(c) \in SUBSET Inputs
          /\ op = "eachOutput" => Arg(c) \in SUBSET Outputs
      BY <2>1, ArgTyped DEF PlaneInv
    <3>2. Body(op, e) \in Seq(Safe)
      BY <3>1, SafeBody
    <3>3. /\ op = "eachOut" => rest \in SUBSET (PipeIds \X Outputs)
          /\ op = "eachIn" => rest \in SUBSET (PipeIds \X Inputs)
          /\ op = "eachPipe" => rest \in SUBSET Triples
          /\ op = "eachInput" => rest \in SUBSET Inputs
          /\ op = "eachOutput" => rest \in SUBSET Outputs
      BY <3>1
    <3> HIDE DEF rest
    <3>4. On(op, rest) \in Safe
      BY <3>3, SafeLoops
    <3>5. <<On(op, rest)>> \in Seq(Safe)
      BY <3>4
    <3>6. Body(op, e) \o <<On(op, rest)>> \in Seq(Safe)
      BY <3>2, <3>5, SafeJoin
    <3> QED
      BY <2>2, <3>6, Zenon DEF rest
  <2> QED
    BY <1>2, <2>1, <2>2
<1>7. CASE Done(c)
  <2>1. At(c, "donePipe") => Arg(c)[2] \in Inputs /\ Arg(c)[3] \in Outputs
    BY ArgTyped DEF PlaneInv, PipeOps
  <2>2. "running" \in Status
    BY DEF Status
  <2>3. At(c, "donePipe") => StatusProg(Arg(c)[2], Arg(c)[3], "running") \in Seq(Safe)
    BY <2>1, <2>2, SafePairs
  <2> QED
    BY <1>2, <1>7, <2>3 DEF Done
<1>8. CASE Find(c)
  <2>1. Continue(c) \/ Fail(c) \/ (SkipNext(c) /\ \E op \in {"findIn", "findOut"} : At(c, op))
    BY <1>8 DEF Find
  <2> QED
    BY <1>2, <2>1
<1>9. CASE RequestPanics(c)
  BY <1>9 DEF RequestPanics
<1> QED
  BY <1>2, <1>3, <1>4, <1>5, <1>6, <1>7, <1>8, <1>9 DEF Exec

(* So a program stays within a set of instructions that has all of those.     *)
LEMMA KeepsTo ==
  ASSUME PlaneInv, NEW S, Safe \subseteq S, NEW c \in Callers, prog[c] \in Seq(S), Exec(c)
  PROVE  prog'[c] \in Seq(S)
<1>1. PICK q : q = prog[c]
  OBVIOUS
<1>2. q \in Seq(S) /\ q \in Prog /\ prog \in [Callers -> Prog]
  BY <1>1 DEF PlaneInv, ProgTyped
<1>3. Len(q) \in Nat /\ DOMAIN q = 1 .. Len(q) /\ q # <<>> /\ Len(q) > 0
  <2>1. q # <<>>
    BY <1>1, NothingToDo DEF Idle
  <2> QED
    BY <1>2, <2>1, LenProperties, EmptySeq
<1>4. Tail(q) \in Seq(S) /\ Len(Tail(q)) = Len(q) - 1
  BY <1>2, <1>3, HeadTailProperties
<1>5. \A v \in Seq(Safe) : v \in Seq(S)
  OBVIOUS
<1>6. ASSUME NEW v \in Seq(Safe), Become(c, v) PROVE prog'[c] \in Seq(S)
  <2>1. prog'[c] = v \o Tail(q)
    BY <1>1, <1>2, <1>6 DEF Become
  <2>2. v \o Tail(q) \in Seq(S)
    BY <1>4, <1>5, SafeJoin
  <2> QED
    BY <2>1, <2>2
<1>7. CASE Fail(c)
  <2>1. prog'[c] = Unwind(q)
    BY <1>1, <1>2, <1>7 DEF Fail
  <2> DEFINE marks == {k \in DOMAIN q : q[k].op \in Catches}
             first == CHOOSE k \in marks : \A j \in marks : k <= j
  <2>2. CASE marks = {}
    BY <2>1, <2>2 DEF Unwind
  <2>3. CASE marks # {}
    <3>1. marks \subseteq Nat
      BY <1>3
    <3>2. \E k \in marks : \A j \in marks : k <= j
      BY <2>3, <3>1, Smallest
    <3>3. first \in marks
      BY <3>2
    <3>4. first \in 1 .. Len(q) /\ q[first].op \in Catches
      BY <1>3, <3>3
    <3>5. q[first] \in Instr
      BY <1>2, <3>4, ElementOfSeq DEF Prog
    <3>6. Rescue(q[first]) \in Seq(S)
      BY <1>5, <3>4, <3>5, SafeRescue
    <3>7. Unwind(q) = Rescue(q[first]) \o SubSeq(q, first + 1, Len(q))
      BY <2>3 DEF Unwind
    <3> HIDE DEF first, marks
    <3>8. SubSeq(q, first + 1, Len(q)) \in Seq(S)
      BY <1>2, <1>3, <3>4, SubSeqProperties
    <3> QED
      BY <2>1, <3>6, <3>7, <3>8, SafeJoin
  <2> QED
    BY <2>2, <2>3
<1>8. CASE SkipNext(c) /\ \E op \in {"findIn", "findOut"} : At(c, op)
  <2>1. q[1].op \in {"findIn", "findOut"}
    BY <1>1, <1>8 DEF At
  <2>2. 1 < Len(q)
    BY <1>2, <1>3, <2>1 DEF Prog
  <2>3. PICK r : r = Tail(q)
    OBVIOUS
  <2>4. r \in Seq(S) /\ Len(r) # 0
    <3>1. r \in Seq(S) /\ Len(r) = Len(q) - 1
      BY <1>4, <2>3, Zenon
    <3>2. Len(q) - 1 # 0
      <4>1. PICK n : n = Len(q)
        OBVIOUS
      <4>2. n \in Nat /\ 1 < n
        BY <1>3, <2>2, <4>1, Zenon
      <4>3. n - 1 # 0
        BY <4>2
      <4> QED
        BY <4>1, <4>3, Zenon
    <3> QED
      BY <3>1, <3>2, Zenon
  <2>5. r # <<>>
    BY <2>4
  <2>6. Tail(r) \in Seq(S)
    BY <2>4, <2>5, HeadTailProperties
  <2>7. prog'[c] = Tail(r)
    BY <1>1, <1>2, <1>8, <2>3 DEF SkipNext
  <2> QED
    BY <2>6, <2>7
<1>9. CASE prog' = [prog EXCEPT ![c] = <<>>]
  <2>1. prog'[c] = <<>>
    BY <1>2, <1>9
  <2> QED
    BY <2>1
<1> QED
  BY <1>6, <1>7, <1>8, <1>9, Moves

(* What a step does to the rows that do not exist.                            *)
LEMMA RowsBorn ==
  ASSUME PlaneInv, NEW c \in Callers, Exec(c)
  PROVE  /\ \A i \in Inputs : inRow[i] = "none" /\ inRow'[i] # "none" =>
               (At(c, "insertIn") \/ At(c, "saveIn")) /\ Arg(c) = i
         /\ \A o \in Outputs : outRow[o] = "none" /\ outRow'[o] # "none" =>
               (At(c, "insertOut") \/ At(c, "saveOut")) /\ Arg(c) = o
         /\ \A p \in PipeIds : ~Exists(p) /\ Exists(p)' =>
               (At(c, "insertPipe") \/ At(c, "savePipe")) /\ Arg(c)[1] = p
<1>1. /\ inRow \in [Inputs -> {"none"} \cup Status] /\ outRow \in [Outputs -> {"none"} \cup Status]
      /\ pipeRow \in [PipeIds -> Rows \cup {NoRow}]
  BY DEF PlaneInv, RowsTyped
<1>2. PICK x : x = Arg(c)
  OBVIOUS
<1>3. CASE SameRows
  BY <1>3 DEF SameRows, rowVars, Exists
<1>4. CASE UpdateStatus(c)
  <2>1. PICK st : st = prog[c][1].st
    OBVIOUS
  <2>2. \/ /\ UNCHANGED <<outRow, pipeRow>>
           /\ inRow' = IF inRow[x] = "none" THEN inRow ELSE [inRow EXCEPT ![x] = st]
        \/ /\ UNCHANGED <<inRow, pipeRow>>
           /\ outRow' = IF outRow[x] = "none" THEN outRow ELSE [outRow EXCEPT ![x] = st]
        \/ /\ UNCHANGED <<inRow, outRow>>
           /\ pipeRow' = IF Exists(x) THEN [pipeRow EXCEPT ![x].st = st] ELSE pipeRow
    BY <1>2, <1>4, <2>1 DEF UpdateStatus
  <2>3. \A i \in Inputs : inRow[i] = "none" => inRow'[i] = "none"
    BY <1>1, <2>2
  <2>4. \A o \in Outputs : outRow[o] = "none" => outRow'[o] = "none"
    BY <1>1, <2>2
  <2>5. \A p \in PipeIds : ~Exists(p) => ~Exists(p)'
    <3>1. TAKE p \in PipeIds
    <3>2. HAVE ~Exists(p)
    <3>3. pipeRow'[p] = pipeRow[p]
      BY <1>1, <2>2, <3>2
    <3> QED
      BY <3>2, <3>3 DEF Exists
  <2> QED
    BY <2>3, <2>4, <2>5
<1>5. CASE InsertOrSave(c)
  <2>1. PICK st : st = prog[c][1].st
    OBVIOUS
  <2>2. /\ UNCHANGED pipeRow
        /\ \/ /\ At(c, "insertIn") \/ At(c, "saveIn")
              /\ inRow' = [inRow EXCEPT ![x] = "stopped"] \/ inRow' = [inRow EXCEPT ![x] = st]
              /\ UNCHANGED outRow
           \/ /\ At(c, "insertOut") \/ At(c, "saveOut")
              /\ outRow' = [outRow EXCEPT ![x] = "stopped"] \/ outRow' = [outRow EXCEPT ![x] = st]
              /\ UNCHANGED inRow
    BY <1>2, <1>5, <2>1 DEF InsertOrSave
  <2> HIDE DEF At
  <2>3. \A i \in Inputs : inRow[i] = "none" /\ inRow'[i] # "none" =>
           (At(c, "insertIn") \/ At(c, "saveIn")) /\ x = i
    BY <1>1, <2>2
  <2>4. \A o \in Outputs : outRow[o] = "none" /\ outRow'[o] # "none" =>
           (At(c, "insertOut") \/ At(c, "saveOut")) /\ x = o
    BY <1>1, <2>2
  <2> QED
    BY <1>2, <2>2, <2>3, <2>4 DEF Exists
<1>6. CASE WritePipe(c)
  <2>1. /\ UNCHANGED <<inRow, outRow>> /\ (At(c, "insertPipe") \/ At(c, "savePipe"))
        /\ UNCHANGED pipeRow \/ \E r : pipeRow' = [pipeRow EXCEPT ![x[1]] = r]
    BY <1>2, <1>6 DEF WritePipe
  <2> HIDE DEF At
  <2>2. \A p \in PipeIds : p # x[1] => pipeRow'[p] = pipeRow[p]
    BY <1>1, <2>1
  <2> QED
    BY <1>2, <2>1, <2>2 DEF Exists
<1>7. CASE Drop(c)
  <2>1. \/ UNCHANGED <<outRow, pipeRow>> /\ inRow' = [inRow EXCEPT ![x] = "none"]
        \/ UNCHANGED <<inRow, pipeRow>> /\ outRow' = [outRow EXCEPT ![x] = "none"]
        \/ UNCHANGED <<inRow, outRow>> /\ pipeRow' = [pipeRow EXCEPT ![x] = NoRow]
    BY <1>2, <1>7 DEF Drop
  <2>2. \A i \in Inputs : inRow[i] = "none" => inRow'[i] = "none"
    BY <1>1, <2>1
  <2>3. \A o \in Outputs : outRow[o] = "none" => outRow'[o] = "none"
    BY <1>1, <2>1
  <2>4. \A p \in PipeIds : ~Exists(p) => ~Exists(p)'
    BY <1>1, <2>1 DEF Exists
  <2> QED
    BY <2>2, <2>3, <2>4
<1> QED
  BY <1>3, <1>4, <1>5, <1>6, <1>7
     DEF Exec, Need, Orphan, Query, Loop, Done, Create, ConnectPipe, Remove, Find, Open, Run, RequestPanics

LEMMA UnbornStays ==
  ASSUME NEW c \in Callers, Exec(c)
  PROVE  unborn' = unborn
  BY DEF Exec, Need, Orphan, Query, Loop, Done, UpdateStatus, InsertOrSave, WritePipe, Drop, Create, ConnectPipe,
         Remove, Find, Open, Run, RequestPanics, SameRows

LEMMA UnusedExec ==
  ASSUME PlaneInv, Unused, OnlyKnown, NEW c \in Callers, Exec(c)
  PROVE  Unused' /\ OnlyKnown'
<1>1. unborn' = unborn /\ Known' = Known
  BY UnbornStays DEF Known
<1>2. OnlyKnown'
  <2>1. Safe \subseteq Known
    BY DEF Safe, Known, Makers
  <2>2. prog'[c] \in Seq(Known)
    BY <2>1, KeepsTo DEF OnlyKnown
  <2>3. \A d \in Callers \ {c} : prog'[d] = prog[d]
    BY OnlyItsOwn DEF PlaneInv
  <2> QED
    BY <1>1, <2>2, <2>3 DEF OnlyKnown
<1>3. prog[c] # <<>>
  BY NothingToDo DEF Idle
<1>4. prog[c][1] \in Known
  BY <1>3, HeadTailProperties, ElementOfSeq, LenProperties, EmptySeq DEF OnlyKnown
<1>5. /\ At(c, "insertIn") \/ At(c, "saveIn") \/ At(c, "insertOut") \/ At(c, "saveOut") => Arg(c) \notin unborn
      /\ At(c, "insertPipe") \/ At(c, "savePipe") => Arg(c)[1] \notin unborn
  BY <1>4 DEF Known, At, Arg
<1>6. \A i \in Inputs : i \in unborn => inRow'[i] = "none"
  BY <1>5, RowsBorn DEF Unused
<1>7. \A o \in Outputs : o \in unborn => outRow'[o] = "none"
  BY <1>5, RowsBorn DEF Unused
<1>8. \A p \in PipeIds : p \in unborn => ~Exists(p)'
  BY <1>5, RowsBorn DEF Unused
<1> QED
  BY <1>1, <1>2, <1>6, <1>7, <1>8 DEF Unused

-----------------------------------------------------------------------------
(* A request begins while nothing is wrong.                                   *)
LEMMA AfterFirst ==
  ASSUME NEW w \in Seq(Instr), w # <<>>
  PROVE  After(w, <<>>, 1) = w
<1>1. PICK t : t = <<>>
  OBVIOUS
<1>2. t \in Seq(Instr)
  BY <1>1
<1>3. After(w, t, 1) = w \o t
  BY <1>2, AfterEnds
<1>4. w \o <<>> = w
  BY ConcatEmptySeq
<1> QED
  BY <1>1, <1>3, <1>4, Zenon

LEMMA Issued ==
  ASSUME Steady, NEW c \in Callers, NEW kind, NEW q, Issue(c, kind, q), Calm
  PROVE  /\ prog'[c] = q /\ Calm' /\ \A d \in Callers \ {c} : prog'[d] = prog[d]
         /\ UNCHANGED <<inRow, outRow, pipeRow>>
         /\ \A p : (Exists(p)' <=> Exists(p)) /\ (IsRunning(p)' <=> IsRunning(p))
<1>1. prog' = [prog EXCEPT ![c] = q] /\ SameHub /\ UNCHANGED rowVars
  BY DEF Issue, SameHub
<1>2. True({}, {}, {})'
  BY <1>1, KeptStill DEF Calm
<1>3. prog \in [Callers -> Prog]
  BY DEF Steady, PlaneInv, ProgTyped
<1> QED
  BY <1>1, <1>2, <1>3 DEF Calm, rowVars, Exists, IsRunning

LEMMA AskedPipe ==
  ASSUME Steady, Calm, Unused, NEW c \in Callers, NEW p \in PipeIds,
         \/ \E i \in Inputs, o \in Outputs : AskCreatePipe(c, p, i, o) \/ AskUpdatePipe(c, p, i, o)
         \/ AskDeletePipe(c, p) \/ AskStartPipe(c, p) \/ AskStopPipe(c, p)
  PROVE  ClientInv(c)'
<1>1. ASSUME NEW i \in Inputs, NEW o \in Outputs, AskCreatePipe(c, p, i, o) PROVE ClientInv(c)'
  <2>1. Issue(c, "createPipe", CreatePipeProg(p, i, o)) /\ p \in unborn /\ p \notin unborn'
    BY <1>1 DEF AskCreatePipe, CreatePipeProg
  <2>2. ~Exists(p)
    BY <2>1 DEF Unused
  <2>3. After(CreatePipeProg(p, i, o), <<>>, 1) = CreatePipeProg(p, i, o)
    BY CreatePipeIs, AfterFirst
  <2>4. prog'[c] = After(CreatePipeProg(p, i, o), <<>>, 1) /\ Calm' /\ ~Exists(p)'
    BY <2>1, <2>2, <2>3, Issued
  <2>5. CreatingPipe(c)'
    BY <2>1, <2>4 DEF CreatingPipe
  <2> QED
    BY <2>5 DEF ClientInv
<1>2. ASSUME NEW i \in Inputs, NEW o \in Outputs, AskUpdatePipe(c, p, i, o) PROVE ClientInv(c)'
  <2>1. Issue(c, "updatePipe", UpdatePipeProg(p, i, o)) /\ Exists(p) /\ ~IsRunning(p)
    BY <1>2 DEF AskUpdatePipe, UpdatePipeProg
  <2>2. After(UpdatePipeProg(p, i, o), <<>>, 1) = UpdatePipeProg(p, i, o)
    BY UpdatePipeIs, AfterFirst
  <2>3. prog'[c] = After(UpdatePipeProg(p, i, o), <<>>, 1) /\ Calm' /\ Exists(p)' /\ ~IsRunning(p)'
    BY <2>1, <2>2, Issued
  <2>4. UpdatingPipe(c)'
    BY <2>3 DEF UpdatingPipe
  <2> QED
    BY <2>4 DEF ClientInv
<1>3. ASSUME Exists(p)
      PROVE  \E i \in Inputs, o \in Outputs : i = pipeRow[p].in /\ o = pipeRow[p].out
  BY <1>3, KeyTyped
<1>4. CASE AskDeletePipe(c, p)
  <2>1. PICK i \in Inputs, o \in Outputs : i = pipeRow[p].in /\ o = pipeRow[p].out
    BY <1>3, <1>4 DEF AskDeletePipe
  <2>2. Issue(c, "deletePipe", DeletePipeProg(p, i, o)) /\ Exists(p) /\ ~IsRunning(p)
    BY <1>4, <2>1 DEF AskDeletePipe, DeletePipeProg
  <2>3. After(DeletePipeProg(p, i, o), <<>>, 1) = DeletePipeProg(p, i, o)
    BY DeletePipeIs, AfterFirst
  <2>4. /\ prog'[c] = After(DeletePipeProg(p, i, o), <<>>, 1) /\ Calm' /\ Exists(p)' /\ ~IsRunning(p)'
        /\ pipeRow' = pipeRow
    BY <2>2, <2>3, Issued
  <2>5. RowIs(p, i, o)'
    BY <2>1, <2>4 DEF RowIs
  <2>6. DeletingPipe(c)'
    BY <2>4, <2>5 DEF DeletingPipe
  <2> QED
    BY <2>6 DEF ClientInv
<1>5. CASE AskStartPipe(c, p)
  <2>1. PICK i \in Inputs, o \in Outputs : i = pipeRow[p].in /\ o = pipeRow[p].out
    BY <1>3, <1>5 DEF AskStartPipe
  <2>2. Issue(c, "startPipe", BeginPipeProg(p, i, o)) /\ Exists(p) /\ ~IsRunning(p)
    BY <1>5, <2>1 DEF AskStartPipe, BeginPipeProg
  <2>3. After(BeginPipeProg(p, i, o), <<>>, 1) = BeginPipeProg(p, i, o)
    BY BeginPipeIs, AfterFirst
  <2>4. /\ prog'[c] = After(BeginPipeProg(p, i, o), <<>>, 1) /\ Calm' /\ Exists(p)' /\ ~IsRunning(p)'
        /\ pipeRow' = pipeRow
    BY <2>2, <2>3, Issued
  <2>5. RowIs(p, i, o)'
    BY <2>1, <2>4 DEF RowIs
  <2>6. StartFacts(c, 1, p, i, o)'
    BY <2>4, <2>5 DEF StartFacts, Calm
  <2>7. BeginningPipe(c)'
    BY <2>4, <2>6 DEF BeginningPipe
  <2> QED
    BY <2>7 DEF ClientInv
<1>6. CASE AskStopPipe(c, p)
  <2>1. PICK i \in Inputs, o \in Outputs : i = pipeRow[p].in /\ o = pipeRow[p].out
    BY <1>3, <1>6 DEF AskStopPipe
  <2>2. Issue(c, "stopPipe", EndPipeProg(p, i, o) \o OrphanProg(i, o)) /\ Exists(p) /\ IsRunning(p)
    BY <1>6, <2>1 DEF AskStopPipe, EndPipeProg
  <2>3. After(EndPipeProg(p, i, o), OrphanProg(i, o), 1) = EndPipeProg(p, i, o) \o OrphanProg(i, o)
    <3>1. OrphanProg(i, o) \in Seq(Instr)
      BY PairMade DEF Prog, Status
    <3>2. EndPipeProg(p, i, o) \in Seq(Instr) /\ EndPipeProg(p, i, o) # <<>>
      BY EndPipeIs
    <3> QED
      BY <3>1, <3>2, AfterEnds, Zenon
  <2>4. /\ prog'[c] = After(EndPipeProg(p, i, o), OrphanProg(i, o), 1) /\ Calm' /\ Exists(p)' /\ IsRunning(p)'
        /\ pipeRow' = pipeRow
    BY <2>2, <2>3, Issued
  <2>5. RowIs(p, i, o)'
    BY <2>1, <2>4 DEF RowIs
  <2>6. StoppingPipe(c)'
    BY <2>4, <2>5 DEF StoppingPipe
  <2> QED
    BY <2>6 DEF ClientInv
<1> QED
  BY <1>1, <1>2, <1>4, <1>5, <1>6

LEMMA AskedInput ==
  ASSUME Steady, Calm, Unused, NEW c \in Callers, NEW i \in Inputs,
         \/ AskCreateInput(c, i) \/ AskUpdateInput(c, i) \/ AskDeleteInput(c, i)
         \/ AskStartInput(c, i) \/ AskStopInput(c, i)
  PROVE  ClientInv(c)'
<1>1. CASE AskCreateInput(c, i)
  <2>1. Issue(c, "createInput", <<On("insertIn", i)>>) /\ i \in unborn /\ i \notin unborn'
    BY <1>1 DEF AskCreateInput
  <2>2. inRow[i] = "none"
    BY <2>1 DEF Unused
  <2>3. prog'[c] = <<On("insertIn", i)>> /\ Calm' /\ inRow'[i] = "none"
    BY <2>1, <2>2, Issued
  <2>4. CreatingInput(c)'
    BY <2>1, <2>3 DEF CreatingInput
  <2> QED
    BY <2>4 DEF ClientInv
<1>2. CASE AskUpdateInput(c, i)
  <2>1. Issue(c, "updateInput", <<Set("saveIn", i, inRow[i])>>) /\ inRow[i] # "none"
    BY <1>2 DEF AskUpdateInput
  <2>2. prog'[c] = <<Set("saveIn", i, inRow[i])>> /\ Calm' /\ inRow' = inRow
    BY <2>1, Issued
  <2>3. UpdatingInput(c)'
    BY <2>1, <2>2 DEF UpdatingInput
  <2> QED
    BY <2>3 DEF ClientInv
<1>3. CASE AskDeleteInput(c, i)
  <2>1. Issue(c, "deleteInput", DeleteInputProg(i)) /\ inRow[i] = "stopped"
    BY <1>3 DEF AskDeleteInput, DeleteInputProg
  <2>2. After(DeleteInputProg(i), <<>>, 1) = DeleteInputProg(i)
    BY DeleteInputIs, AfterFirst
  <2>3. prog'[c] = After(DeleteInputProg(i), <<>>, 1) /\ Calm' /\ inRow'[i] = "stopped"
    BY <2>1, <2>2, Issued
  <2>4. DeletingInput(c)'
    BY <2>3 DEF DeletingInput, Calm
  <2> QED
    BY <2>4 DEF ClientInv
<1>4. CASE AskStartInput(c, i)
  <2>1. Issue(c, "startInput", StartInputProg(i))
    BY <1>4 DEF AskStartInput
  <2>2. After(StartInputProg(i), <<>>, 1) = StartInputProg(i)
    BY BeginInputIs, AfterFirst
  <2>3. prog'[c] = After(StartInputProg(i), <<>>, 1) /\ Calm'
    BY <2>1, <2>2, Issued
  <2>4. BeginningInput(c)'
    BY <2>3 DEF BeginningInput, Calm
  <2> QED
    BY <2>4 DEF ClientInv
<1>5. CASE AskStopInput(c, i)
  <2>1. Issue(c, "stopInput", StopInputProg(i))
    BY <1>5 DEF AskStopInput, StopInputProg
  <2>2. After(StopInputProg(i), <<>>, 1) = StopInputProg(i)
    BY StopInputIs, AfterFirst
  <2>3. prog'[c] = After(StopInputProg(i), <<>>, 1) /\ Calm'
    BY <2>1, <2>2, Issued
  <2>4. PICK P \in SUBSET PipeIds : P = {p \in PipesOf(i) : IsRunning(p)}'
    BY DEF PipesOf
  <2>5. 1 \in 1 .. 3 /\ ~(1 >= 2)
    OBVIOUS
  <2>6. StoppingInput(c)'
    BY <2>3, <2>4, <2>5 DEF StoppingInput
  <2> QED
    BY <2>6 DEF ClientInv
<1> QED
  BY <1>1, <1>2, <1>3, <1>4, <1>5

LEMMA AskedOutput ==
  ASSUME Steady, Calm, Unused, NEW c \in Callers, NEW o \in Outputs,
         \/ AskCreateOutput(c, o) \/ AskUpdateOutput(c, o) \/ AskDeleteOutput(c, o)
         \/ AskStartOutput(c, o) \/ AskStopOutput(c, o)
  PROVE  ClientInv(c)'
<1>1. CASE AskCreateOutput(c, o)
  <2>1. Issue(c, "createOutput", <<On("insertOut", o)>>) /\ o \in unborn /\ o \notin unborn'
    BY <1>1 DEF AskCreateOutput
  <2>2. outRow[o] = "none"
    BY <2>1 DEF Unused
  <2>3. prog'[c] = <<On("insertOut", o)>> /\ Calm' /\ outRow'[o] = "none"
    BY <2>1, <2>2, Issued
  <2>4. CreatingOutput(c)'
    BY <2>1, <2>3 DEF CreatingOutput
  <2> QED
    BY <2>4 DEF ClientInv
<1>2. CASE AskUpdateOutput(c, o)
  <2>1. Issue(c, "updateOutput", <<Set("saveOut", o, outRow[o])>>) /\ outRow[o] # "none"
    BY <1>2 DEF AskUpdateOutput
  <2>2. prog'[c] = <<Set("saveOut", o, outRow[o])>> /\ Calm' /\ outRow' = outRow
    BY <2>1, Issued
  <2>3. UpdatingOutput(c)'
    BY <2>1, <2>2 DEF UpdatingOutput
  <2> QED
    BY <2>3 DEF ClientInv
<1>3. CASE AskDeleteOutput(c, o)
  <2>1. Issue(c, "deleteOutput", DeleteOutputProg(o)) /\ outRow[o] = "stopped"
    BY <1>3 DEF AskDeleteOutput, DeleteOutputProg
  <2>2. After(DeleteOutputProg(o), <<>>, 1) = DeleteOutputProg(o)
    BY DeleteOutputIs, AfterFirst
  <2>3. prog'[c] = After(DeleteOutputProg(o), <<>>, 1) /\ Calm' /\ outRow'[o] = "stopped"
    BY <2>1, <2>2, Issued
  <2>4. DeletingOutput(c)'
    BY <2>3 DEF DeletingOutput, Calm
  <2> QED
    BY <2>4 DEF ClientInv
<1>4. CASE AskStartOutput(c, o)
  <2>1. Issue(c, "startOutput", StartOutputProg(o))
    BY <1>4 DEF AskStartOutput
  <2>2. After(StartOutputProg(o), <<>>, 1) = StartOutputProg(o)
    BY BeginOutputIs, AfterFirst
  <2>3. prog'[c] = After(StartOutputProg(o), <<>>, 1) /\ Calm'
    BY <2>1, <2>2, Issued
  <2>4. BeginningOutput(c)'
    BY <2>3 DEF BeginningOutput, Calm
  <2> QED
    BY <2>4 DEF ClientInv
<1>5. CASE AskStopOutput(c, o)
  <2>1. Issue(c, "stopOutput", StopOutputProg(o))
    BY <1>5 DEF AskStopOutput, StopOutputProg
  <2>2. After(StopOutputProg(o), <<>>, 1) = StopOutputProg(o)
    BY StopOutputIs, AfterFirst
  <2>3. prog'[c] = After(StopOutputProg(o), <<>>, 1) /\ Calm'
    BY <2>1, <2>2, Issued
  <2>4. PICK P \in SUBSET PipeIds : P = {p \in PipesTo(o) : IsRunning(p)}'
    BY DEF PipesTo
  <2>5. 1 \in 1 .. 3 /\ ~(1 >= 2)
    OBVIOUS
  <2>6. StoppingOutput(c)'
    BY <2>3, <2>4, <2>5 DEF StoppingOutput
  <2> QED
    BY <2>6 DEF ClientInv
<1> QED
  BY <1>1, <1>2, <1>3, <1>4, <1>5

(* What a request puts in a program, it may make.                             *)
LEMMA IssuesKnown ==
  ASSUME PlaneInv, Unused, OnlyKnown, NEW c \in Callers, NEW kind, NEW q, Issue(c, kind, q),
         unborn' \subseteq unborn, q \in Seq(Known)'
  PROVE  Unused' /\ OnlyKnown'
<1>1. UNCHANGED <<inRow, outRow, pipeRow>> /\ prog' = [prog EXCEPT ![c] = q]
  BY DEF Issue, rowVars
<1>2. Unused'
  BY <1>1 DEF Unused, Exists
<1>3. Known \subseteq Known'
  BY DEF Known
<1>4. prog'[c] = q /\ \A d \in Callers \ {c} : prog'[d] = prog[d]
  BY <1>1 DEF PlaneInv, ProgTyped
<1>5. \A d \in Callers \ {c} : prog[d] \in Seq(Known)'
  BY <1>3 DEF OnlyKnown
<1> QED
  BY <1>2, <1>4, <1>5 DEF OnlyKnown

LEMMA AskedKnown ==
  ASSUME PlaneInv, PairUnique, Unused, OnlyKnown, NEW c \in Callers, Ask(c)
  PROVE  Unused' /\ OnlyKnown'
<1>1. Safe \subseteq Known'
  BY DEF Safe, Known, Makers
<1>2. \A v \in Seq(Safe) : v \in Seq(Known)'
  BY <1>1
<1>3. /\ {"needIn", "removeIn", "dropIn", "cascadeIn"} \subseteq InOps \ Makers
      /\ {"needOut", "checkOut", "removeOut", "dropOut", "cascadeOut"} \subseteq OutOps \ Makers
      /\ {"checkPair", "disconnect"} \subseteq KeyOps /\ {"stopped", "running"} \subseteq Status
      /\ "insertIn" \in InOps /\ "insertOut" \in OutOps /\ {"insertPipe", "savePipe"} \subseteq PipeOps
  BY DEF InOps, OutOps, KeyOps, PipeOps, Makers, Status
<1>4. ASSUME NEW p \in PipeIds, NEW i \in Inputs, NEW o \in Outputs
      PROVE  /\ On("needIn", i) \in Known' /\ On("needOut", o) \in Known'
             /\ For("checkPair", i, o) \in Known' /\ On("checkOut", o) \in Known'
             /\ p \notin unborn' => /\ On("insertPipe", <<p, i, o>>) \in Known'
                                    /\ On("savePipe", <<p, i, o>>) \in Known'
  <2>1. /\ On("needIn", i) \in Safe /\ On("needOut", o) \in Safe
        /\ For("checkPair", i, o) \in Safe /\ On("checkOut", o) \in Safe
    BY <1>3, SafeInstr
  <2>2. <<p, i, o>> \in Triples
    BY DEF Triples
  <2>3. \A op \in {"insertPipe", "savePipe"} : On(op, <<p, i, o>>) \in Instr
    BY <1>3, <2>2, PlainInstr
  <2>4. \A op : On(op, <<p, i, o>>).op = op /\ On(op, <<p, i, o>>).x[1] = p
    BY DEF On
  <2>5. ASSUME p \notin unborn', NEW op \in {"insertPipe", "savePipe"} PROVE On(op, <<p, i, o>>) \in Known'
    BY <2>3, <2>4, <2>5 DEF Known
  <2> QED
    BY <1>1, <2>1, <2>5
<1>5. ASSUME NEW p \in PipeIds, NEW i \in Inputs, NEW o \in Outputs, AskCreatePipe(c, p, i, o)
      PROVE  Unused' /\ OnlyKnown'
  <2> DEFINE q == <<On("needOut", o), For("checkPair", i, o), On("checkOut", o), On("insertPipe", <<p, i, o>>)>>
  <2>1. unborn' \subseteq unborn /\ p \notin unborn' /\ Issue(c, "createPipe", q)
    BY <1>5 DEF AskCreatePipe
  <2>2. q \in Seq(Known')
    BY <1>4, <2>1
  <2> HIDE DEF q
  <2> QED
    BY <2>1, <2>2, IssuesKnown
<1>6. ASSUME NEW p \in PipeIds, NEW i \in Inputs, NEW o \in Outputs, AskUpdatePipe(c, p, i, o)
      PROVE  Unused' /\ OnlyKnown'
  <2> DEFINE q == <<On("needIn", i), On("needOut", o), On("savePipe", <<p, i, o>>)>>
  <2>1. unborn' \subseteq unborn /\ p \notin unborn' /\ Issue(c, "updatePipe", q)
    BY <1>6 DEF AskUpdatePipe, Unused
  <2>2. q \in Seq(Known')
    BY <1>4, <2>1
  <2> HIDE DEF q
  <2> QED
    BY <2>1, <2>2, IssuesKnown
<1>7. ASSUME NEW p \in PipeIds, AskDeletePipe(c, p) \/ AskStartPipe(c, p) \/ AskStopPipe(c, p)
      PROVE  Unused' /\ OnlyKnown'
  <2>1. PICK i \in Inputs, o \in Outputs : i = pipeRow[p].in /\ o = pipeRow[p].out
    BY <1>7, ExistsTyped DEF AskDeletePipe, AskStartPipe, AskStopPipe, PlaneInv
  <2>2. /\ For("disconnect", i, o) \in Safe /\ On("dropPipe", p) \in Safe
        /\ Set("setPipe", p, "stopped") \in Safe /\ Set("setPipe", p, "running") \in Safe
    BY <1>3, SafeInstr
  <2> DEFINE del == <<For("disconnect", i, o), On("dropPipe", p)>>
             set == <<Set("setPipe", p, "running")>>
             start == StartPipeProg(i, o) \o StatusProg(i, o, "running") \o set
             end == <<For("disconnect", i, o), Set("setPipe", p, "stopped")>>
             stop == end \o OrphanProg(i, o)
  <2>3. del \in Seq(Safe) /\ set \in Seq(Safe) /\ end \in Seq(Safe)
    BY <2>2
  <2>4. /\ StartPipeProg(i, o) \in Seq(Safe) /\ StatusProg(i, o, "running") \in Seq(Safe)
        /\ OrphanProg(i, o) \in Seq(Safe)
    BY <1>3, SafeStarts, SafePairs
  <2>5. StartPipeProg(i, o) \o StatusProg(i, o, "running") \in Seq(Safe)
    BY <2>4, SafeJoin
  <2>6. unborn' = unborn
    BY <1>7 DEF AskDeletePipe, AskStartPipe, AskStopPipe
  <2>7. CASE AskDeletePipe(c, p)
    <3>1. Issue(c, "deletePipe", del)
      BY <2>1, <2>7 DEF AskDeletePipe
    <3> HIDE DEF del
    <3> QED
      BY <1>2, <2>3, <2>6, <3>1, IssuesKnown
  <2>8. CASE AskStartPipe(c, p)
    <3>1. Issue(c, "startPipe", start)
      BY <2>1, <2>8 DEF AskStartPipe
    <3>2. start \in Seq(Safe)
      <4> HIDE DEF set
      <4> QED
        BY <2>3, <2>5, SafeJoin
    <3> HIDE DEF start
    <3> QED
      BY <1>2, <2>6, <3>1, <3>2, IssuesKnown
  <2>9. CASE AskStopPipe(c, p)
    <3>1. Issue(c, "stopPipe", stop)
      BY <2>1, <2>9 DEF AskStopPipe
    <3>2. stop \in Seq(Safe)
      <4> HIDE DEF end
      <4> QED
        BY <2>3, <2>4, SafeJoin
    <3> HIDE DEF stop
    <3> QED
      BY <1>2, <2>6, <3>1, <3>2, IssuesKnown
  <2> QED
    BY <1>7, <2>7, <2>8, <2>9
<1>8. ASSUME NEW i \in Inputs,
             \/ AskCreateInput(c, i) \/ AskUpdateInput(c, i) \/ AskDeleteInput(c, i)
             \/ AskStartInput(c, i) \/ AskStopInput(c, i)
      PROVE  Unused' /\ OnlyKnown'
  <2>1. CASE AskCreateInput(c, i)
    <3> DEFINE q == <<On("insertIn", i)>>
    <3>1. unborn' \subseteq unborn /\ i \notin unborn' /\ Issue(c, "createInput", q)
      BY <2>1 DEF AskCreateInput
    <3>2. On("insertIn", i) \in Instr
      BY <1>3, PlainInstr
    <3>3. On("insertIn", i) \in Known'
      BY <3>1, <3>2 DEF Known, On
    <3>4. q \in Seq(Known')
      BY <3>3
    <3> HIDE DEF q
    <3> QED
      BY <3>1, <3>4, IssuesKnown
  <2>2. CASE AskUpdateInput(c, i)
    <3> DEFINE m == Set("saveIn", i, inRow[i])
               q == <<m>>
    <3>1. unborn' = unborn /\ i \notin unborn /\ Issue(c, "updateInput", q) /\ inRow[i] \in Status
      BY <2>2 DEF AskUpdateInput, Unused, PlaneInv, RowsTyped
    <3>2. m \in Instr
      BY <3>1, StampedInstr
    <3>3. m.op = "saveIn" /\ m.x = i
      BY DEF Set
    <3> HIDE DEF m
    <3>4. m \in Known'
      BY <3>1, <3>2, <3>3 DEF Known
    <3>5. q \in Seq(Known')
      BY <3>4
    <3> HIDE DEF q
    <3> QED
      BY <3>1, <3>5, IssuesKnown
  <2>3. /\ On("removeIn", i) \in Safe /\ On("dropIn", i) \in Safe /\ On("cascadeIn", i) \in Safe
        /\ Set("setIn", i, "stopped") \in Safe
    BY <1>3, SafeInstr
  <2>4. CASE AskDeleteInput(c, i)
    <3> DEFINE q == <<On("removeIn", i), On("dropIn", i)>>
    <3>1. unborn' = unborn /\ Issue(c, "deleteInput", q)
      BY <2>4 DEF AskDeleteInput
    <3>2. q \in Seq(Safe)
      BY <2>3
    <3> HIDE DEF q
    <3> QED
      BY <1>2, <3>1, <3>2, IssuesKnown
  <2>5. CASE AskStartInput(c, i)
    <3>1. unborn' = unborn /\ Issue(c, "startInput", StartInputProg(i))
      BY <2>5 DEF AskStartInput
    <3>2. StartInputProg(i) \in Seq(Safe)
      BY SafeStarts
    <3> QED
      BY <1>2, <3>1, <3>2, IssuesKnown
  <2>6. CASE AskStopInput(c, i)
    <3> DEFINE q == <<On("removeIn", i), Set("setIn", i, "stopped"), On("cascadeIn", i)>>
    <3>1. unborn' = unborn /\ Issue(c, "stopInput", q)
      BY <2>6 DEF AskStopInput
    <3>2. q \in Seq(Safe)
      BY <2>3
    <3> HIDE DEF q
    <3> QED
      BY <1>2, <3>1, <3>2, IssuesKnown
  <2> QED
    BY <1>8, <2>1, <2>2, <2>4, <2>5, <2>6
<1>9. ASSUME NEW o \in Outputs,
             \/ AskCreateOutput(c, o) \/ AskUpdateOutput(c, o) \/ AskDeleteOutput(c, o)
             \/ AskStartOutput(c, o) \/ AskStopOutput(c, o)
      PROVE  Unused' /\ OnlyKnown'
  <2>1. CASE AskCreateOutput(c, o)
    <3> DEFINE q == <<On("insertOut", o)>>
    <3>1. unborn' \subseteq unborn /\ o \notin unborn' /\ Issue(c, "createOutput", q)
      BY <2>1 DEF AskCreateOutput
    <3>2. On("insertOut", o) \in Instr
      BY <1>3, PlainInstr
    <3>3. On("insertOut", o) \in Known'
      BY <3>1, <3>2 DEF Known, On
    <3>4. q \in Seq(Known')
      BY <3>3
    <3> HIDE DEF q
    <3> QED
      BY <3>1, <3>4, IssuesKnown
  <2>2. CASE AskUpdateOutput(c, o)
    <3> DEFINE m == Set("saveOut", o, outRow[o])
               q == <<m>>
    <3>1. unborn' = unborn /\ o \notin unborn /\ Issue(c, "updateOutput", q) /\ outRow[o] \in Status
      BY <2>2 DEF AskUpdateOutput, Unused, PlaneInv, RowsTyped
    <3>2. m \in Instr
      BY <3>1, StampedInstr
    <3>3. m.op = "saveOut" /\ m.x = o
      BY DEF Set
    <3> HIDE DEF m
    <3>4. m \in Known'
      BY <3>1, <3>2, <3>3 DEF Known
    <3>5. q \in Seq(Known')
      BY <3>4
    <3> HIDE DEF q
    <3> QED
      BY <3>1, <3>5, IssuesKnown
  <2>3. /\ On("removeOut", o) \in Safe /\ On("dropOut", o) \in Safe /\ On("cascadeOut", o) \in Safe
        /\ Set("setOut", o, "stopped") \in Safe
    BY <1>3, SafeInstr
  <2>4. CASE AskDeleteOutput(c, o)
    <3> DEFINE q == <<On("removeOut", o), On("dropOut", o)>>
    <3>1. unborn' = unborn /\ Issue(c, "deleteOutput", q)
      BY <2>4 DEF AskDeleteOutput
    <3>2. q \in Seq(Safe)
      BY <2>3
    <3> HIDE DEF q
    <3> QED
      BY <1>2, <3>1, <3>2, IssuesKnown
  <2>5. CASE AskStartOutput(c, o)
    <3>1. unborn' = unborn /\ Issue(c, "startOutput", StartOutputProg(o))
      BY <2>5 DEF AskStartOutput
    <3>2. StartOutputProg(o) \in Seq(Safe)
      BY SafeStarts
    <3> QED
      BY <1>2, <3>1, <3>2, IssuesKnown
  <2>6. CASE AskStopOutput(c, o)
    <3> DEFINE q == <<On("removeOut", o), Set("setOut", o, "stopped"), On("cascadeOut", o)>>
    <3>1. unborn' = unborn /\ Issue(c, "stopOutput", q)
      BY <2>6 DEF AskStopOutput
    <3>2. q \in Seq(Safe)
      BY <2>3
    <3> HIDE DEF q
    <3> QED
      BY <1>2, <3>1, <3>2, IssuesKnown
  <2> QED
    BY <1>9, <2>1, <2>2, <2>4, <2>5, <2>6
<1> QED
  BY <1>5, <1>6, <1>7, <1>8, <1>9 DEF Ask

-----------------------------------------------------------------------------
(* Whoever was at work last, nothing is wrong once nobody is.                 *)
LEMMA AllQuietCalm ==
  ASSUME Steady, TurnInv, Quiet
  PROVE  Calm
<1>1. PICK c \in Callers : IF c = Boot THEN BootInv ELSE ClientInv(c)
  BY DEF TurnInv
<1>2. prog[c] = <<>>
  BY DEF Quiet, Idle
<1>3. CASE c = Boot
  BY <1>1, <1>2, <1>3, StillToDo, AgreedCalm
<1>4. CASE c # Boot
  BY <1>1, <1>2, <1>4, QuietCalm
<1> QED
  BY <1>3, <1>4

LEMMA NobodyActive ==
  ASSUME IsFiniteSet(Callers), Cardinality(Active) < 1
  PROVE  Quiet
<1>1. IsFiniteSet(Active)
  BY FS_Subset DEF Active
<1>2. Cardinality(Active) = 0
  <2>1. Cardinality(Active) \in Nat
    BY <1>1, FS_CardinalityType
  <2> QED
    BY <2>1
<1>3. Active = {}
  BY <1>1, <1>2, FS_EmptySet
<1> QED
  BY <1>3 DEF Active, Quiet

LEMMA AskIssues ==
  ASSUME NEW c, Ask(c)
  PROVE  \E kind, q : Issue(c, kind, q)
BY DEF Ask, AskCreatePipe, AskUpdatePipe, AskDeletePipe, AskStartPipe, AskStopPipe,
       AskCreateInput, AskUpdateInput, AskDeleteInput, AskStartInput, AskStopInput,
       AskCreateOutput, AskUpdateOutput, AskDeleteOutput, AskStartOutput, AskStopOutput

(* A request is issued only when no handler is at work.                       *)
LEMMA AskTurn ==
  ASSUME MaxActive = 1, IsFiniteSet(Callers), Steady, TurnInv, NEW c \in Clients, Ask(c)
  PROVE  TurnInv'
<1>1. c \in Callers /\ c # Boot
  BY PlaneAssumption
<1>2. PICK kind, q : Issue(c, kind, q)
  BY AskIssues
<1>3. Quiet
  BY <1>2, NobodyActive DEF Issue
<1>4. Calm
  BY <1>3, AllQuietCalm
<1>5. Unused /\ OnlyKnown
  BY DEF TurnInv
<1>6. ClientInv(c)'
  <2>1. ASSUME NEW p \in PipeIds,
               \/ \E i \in Inputs, o \in Outputs : AskCreatePipe(c, p, i, o) \/ AskUpdatePipe(c, p, i, o)
               \/ AskDeletePipe(c, p) \/ AskStartPipe(c, p) \/ AskStopPipe(c, p)
        PROVE  ClientInv(c)'
    BY <1>1, <1>4, <1>5, <2>1, AskedPipe
  <2>2. ASSUME NEW i \in Inputs,
               \/ AskCreateInput(c, i) \/ AskUpdateInput(c, i) \/ AskDeleteInput(c, i)
               \/ AskStartInput(c, i) \/ AskStopInput(c, i)
        PROVE  ClientInv(c)'
    BY <1>1, <1>4, <1>5, <2>2, AskedInput
  <2>3. ASSUME NEW o \in Outputs,
               \/ AskCreateOutput(c, o) \/ AskUpdateOutput(c, o) \/ AskDeleteOutput(c, o)
               \/ AskStartOutput(c, o) \/ AskStopOutput(c, o)
        PROVE  ClientInv(c)'
    BY <1>1, <1>4, <1>5, <2>3, AskedOutput
  <2> QED
    BY <2>1, <2>2, <2>3 DEF Ask
<1>7. \A d \in Callers \ {c} : Idle(d)'
  BY <1>1, <1>2, <1>3, <1>4, Issued DEF Quiet, Idle
<1>8. Unused' /\ OnlyKnown'
  BY <1>1, <1>5, AskedKnown DEF Steady
<1> QED
  BY <1>1, <1>6, <1>7, <1>8 DEF TurnInv

(* The handler at work is the only one that moves.                            *)
LEMMA ExecTurn ==
  ASSUME Steady, TurnInv, NEW c \in Callers, Exec(c)
  PROVE  TurnInv'
<1>1. PICK b \in Callers : /\ \A d \in Callers \ {b} : Idle(d)
                           /\ IF b = Boot THEN BootInv ELSE ClientInv(b)
  BY DEF TurnInv
<1>2. ~Idle(c)
  BY NothingToDo
<1>3. b = c
  BY <1>1, <1>2
<1>4. \A d \in Callers \ {c} : prog'[d] = prog[d]
  BY OnlyItsOwn DEF Steady, PlaneInv
<1>5. \A d \in Callers \ {c} : Idle(d)'
  BY <1>1, <1>3, <1>4 DEF Idle
<1>6. IF c = Boot THEN BootInv' ELSE ClientInv(c)'
  <2>1. CASE c = Boot
    BY <1>1, <1>3, <2>1, BootStep
  <2>2. CASE c # Boot
    BY <1>1, <1>3, <2>2, ClientStep
  <2> QED
    BY <2>1, <2>2
<1>7. Unused' /\ OnlyKnown'
  BY UnusedExec DEF TurnInv, Steady
<1> QED
  BY <1>5, <1>6, <1>7 DEF TurnInv

(* After a restart only Restore is at work.                                   *)
LEMMA RebootTurn ==
  ASSUME Reboot, Unused
  PROVE  TurnInv'
<1>1. (\A d \in Callers \ {Boot} : Idle(d))' /\ BootInv'
  BY RebootHeals
<1>2. UNCHANGED <<inRow, outRow, pipeRow, unborn>>
  BY DEF Reboot, rowVars
<1>3. Unused'
  BY <1>2 DEF Unused, Exists
<1>4. OnlyKnown'
  <2>1. Safe \subseteq Known'
    BY DEF Safe, Known, Makers
  <2>2. /\ On("restorePipes", 0) \in Known' /\ On("restoreIns", 0) \in Known'
        /\ On("restoreOuts", 0) \in Known'
    <3>1. {"restorePipes", "restoreIns", "restoreOuts"} \subseteq QueryOps
      BY DEF QueryOps
    <3> QED
      BY <2>1, <3>1, SafeInstr
  <2>3. RestoreProg \in Seq(Known')
    BY <2>2 DEF RestoreProg
  <2>4. <<>> \in Seq(Known')
    OBVIOUS
  <2>5. \A d \in Callers : prog'[d] = IF d = Boot THEN RestoreProg ELSE <<>>
    BY DEF Reboot
  <2> QED
    BY <2>3, <2>4, <2>5 DEF OnlyKnown
<1> QED
  BY <1>1, <1>3, <1>4, BootCalls DEF TurnInv

(* Nothing moves: the places of a handler are state predicates.               *)
LEMMA SameTurn ==
  ASSUME UNCHANGED vars, NEW c \in Callers, ClientInv(c)
  PROVE  ClientInv(c)'
<1>1. UNCHANGED <<sources, sinks, pipes, srcOn, snkOn, pstate, held, inRow, outRow, pipeRow, prog, unborn>>
  BY DEF vars, hubVars, regVars, objVars, rowVars
<1>2. /\ \A i : (InOn(i)' <=> InOn(i)) /\ (InUse(i)' <=> InUse(i))
      /\ \A o : (OutOn(o)' <=> OutOn(o)) /\ (OutInUse(o)' <=> OutInUse(o))
      /\ \A i, o : (PipeOn(i, o)' <=> PipeOn(i, o)) /\ (Jammed(i, o)' <=> Jammed(i, o))
      /\ \A p : (Exists(p)' <=> Exists(p)) /\ (IsRunning(p)' <=> IsRunning(p))
  BY <1>1 DEF InUse, OutInUse, PipesOf, PipesTo, Exists, IsRunning, InOn, OutOn, PipeOn, Jammed
<1>3. \A P, I, O : True(P, I, O) => True(P, I, O)'
  <2>1. HubClean => HubClean'
    BY <1>1 DEF HubClean, Registered
  <2>2. (Rowed => Rowed') /\ (Unjammed => Unjammed')
    BY <1>1, <1>2 DEF Rowed, Unjammed, Sure
  <2>3. \A p : RowHolds(p) => RowHolds(p)'
    BY <1>1, <1>2 DEF RowHolds
  <2>4. \A I : (InsTrue(I) => InsTrue(I)') /\ (OutsTrue(I) => OutsTrue(I)')
    BY <1>1, <1>2 DEF InsTrue, OutsTrue, Sure
  <2> QED
    BY <2>1, <2>2, <2>3, <2>4 DEF True
<1>4. Calm => Calm'
  BY <1>3 DEF Calm
<1>5. \A P : Dead(P) => Dead(P)'
  BY <1>1, <1>2 DEF Dead
<1>6. \A P : Settling(P) => Settling(P)'
  BY <1>3, <1>5 DEF Settling
<1>7. \A P : OutsOf(P)' = OutsOf(P) /\ InsOf(P)' = InsOf(P)
  BY <1>1 DEF OutsOf, InsOf
<1>8. \A q, P : Rest(q, P) => Rest(q, P)'
  BY <1>7 DEF Rest
<1>9. \A p, i, o : RowIs(p, i, o) => RowIs(p, i, o)'
  BY <1>1 DEF RowIs, Exists
<1>10. \A k, p, i, o : StartFacts(c, k, p, i, o) => StartFacts(c, k, p, i, o)'
  BY <1>1, <1>2, <1>3, <1>9 DEF StartFacts, Sure
<1>11. /\ Resting(c) => Resting(c)'
       /\ OrphaningIn(c) => OrphaningIn(c)'
       /\ OrphaningOut(c) => OrphaningOut(c)'
  BY <1>1, <1>6, <1>8 DEF Resting, OrphaningIn, OrphaningOut
<1>12. LosingIn(c) => LosingIn(c)'
  BY <1>1, <1>2, <1>3, <1>5, <1>8 DEF LosingIn
<1>13. LosingOut(c) => LosingOut(c)'
  BY <1>1, <1>2, <1>3, <1>5, <1>8 DEF LosingOut
<1>14. (MarkingIn(c) => MarkingIn(c)') /\ (MarkingOut(c) => MarkingOut(c)')
  BY <1>1, <1>6, <1>7 DEF MarkingIn, MarkingOut
<1>15. /\ CreatingPipe(c) => CreatingPipe(c)'
       /\ UpdatingPipe(c) => UpdatingPipe(c)'
       /\ DeletingPipe(c) => DeletingPipe(c)'
  BY <1>1, <1>2, <1>4, <1>9 DEF CreatingPipe, UpdatingPipe, DeletingPipe
<1>16. (BeginningPipe(c) => BeginningPipe(c)') /\ (StoppingPipe(c) => StoppingPipe(c)')
  BY <1>1, <1>2, <1>4, <1>6, <1>9, <1>10 DEF BeginningPipe, StoppingPipe
<1>17. /\ CreatingInput(c) => CreatingInput(c)'
       /\ UpdatingInput(c) => UpdatingInput(c)'
       /\ DeletingInput(c) => DeletingInput(c)'
       /\ BeginningInput(c) => BeginningInput(c)'
  BY <1>1, <1>2, <1>3, <1>4 DEF CreatingInput, UpdatingInput, DeletingInput, BeginningInput
<1>18. StoppingInput(c) => StoppingInput(c)'
  BY <1>1, <1>2, <1>3, <1>4, <1>5 DEF StoppingInput, PipesOf
<1>19. /\ CreatingOutput(c) => CreatingOutput(c)'
       /\ UpdatingOutput(c) => UpdatingOutput(c)'
       /\ DeletingOutput(c) => DeletingOutput(c)'
       /\ BeginningOutput(c) => BeginningOutput(c)'
  BY <1>1, <1>2, <1>3, <1>4 DEF CreatingOutput, UpdatingOutput, DeletingOutput, BeginningOutput
<1>20. StoppingOutput(c) => StoppingOutput(c)'
  BY <1>1, <1>2, <1>3, <1>4, <1>5 DEF StoppingOutput, PipesTo
<1> QED
  BY <1>11, <1>12, <1>13, <1>14, <1>15, <1>16, <1>17, <1>18, <1>19, <1>20, Zenon DEF ClientInv

LEMMA StutterTurn ==
  ASSUME TurnInv, UNCHANGED vars
  PROVE  TurnInv'
<1>1. PICK c \in Callers : /\ \A d \in Callers \ {c} : Idle(d)
                           /\ IF c = Boot THEN BootInv ELSE ClientInv(c)
  BY DEF TurnInv
<1>2. IF c = Boot THEN BootInv' ELSE ClientInv(c)'
  <2>1. CASE c = Boot
    BY <1>1, <2>1, StutterHeals
  <2>2. CASE c # Boot
    BY <1>1, <2>2, SameTurn
  <2> QED
    BY <2>1, <2>2
<1>3. UNCHANGED <<inRow, outRow, pipeRow, prog, unborn>>
  BY DEF vars, rowVars
<1>4. Unused'
  BY <1>3 DEF TurnInv, Unused, Exists
<1>5. OnlyKnown'
  BY <1>3 DEF TurnInv, OnlyKnown, Known
<1>6. \A d \in Callers \ {c} : Idle(d)'
  BY <1>1, <1>3 DEF Idle
<1> QED
  BY <1>2, <1>4, <1>5, <1>6 DEF TurnInv

LEMMA NextTurn ==
  ASSUME MaxActive = 1, IsFiniteSet(Callers), Steady, TurnInv, [Next]_vars
  PROVE  TurnInv'
<1>1. ASSUME NEW c \in Clients, Ask(c) PROVE TurnInv'
  BY <1>1, AskTurn
<1>2. ASSUME NEW c \in Callers, Exec(c) PROVE TurnInv'
  BY <1>2, ExecTurn
<1>3. CASE Crash \/ RestorePanics
  BY <1>3, RebootTurn DEF TurnInv, Crash, RestorePanics
<1>4. CASE UNCHANGED vars
  BY <1>4, StutterTurn
<1> QED
  BY <1>1, <1>2, <1>3, <1>4 DEF Next

LEMMA InitTurn == Init => TurnInv
<1> SUFFICES ASSUME Init PROVE TurnInv
  OBVIOUS
<1>1. late = FALSE
  BY DEF Init
<1>2. (\A d \in Callers \ {Boot} : Idle(d)) /\ BootInv
  BY <1>1, InitHeals DEF HealInv
<1>3. Unused
  <2>1. /\ \A p \in PipeIds : Born(p) <=> pipeRow[p] # NoRow
        /\ inRow = [i \in Inputs |-> IF Born(i) THEN "stopped" ELSE "none"]
        /\ outRow = [o \in Outputs |-> IF Born(o) THEN "stopped" ELSE "none"]
        /\ unborn = Fresh
    BY DEF Init
  <2> QED
    BY <2>1 DEF Unused, Exists, Born
<1>4. OnlyKnown
  <2>1. \A c \in Callers : prog[c] = <<>>
    BY DEF Init
  <2>2. <<>> \in Seq(Known)
    OBVIOUS
  <2> QED
    BY <2>1, <2>2 DEF OnlyKnown
<1> QED
  BY <1>2, <1>3, <1>4, BootCalls DEF TurnInv

(* Nothing wrong is what the two properties mean.                             *)
LEMMA CalmRows ==
  ASSUME Calm, NEW p \in PipeIds, Exists(p), ~Stuck(p)
  PROVE  RowTrue(p)
<1>1. RowHolds(p) /\ ~Jammed(pipeRow[p].in, pipeRow[p].out)
  BY DEF Calm, True, Stuck, Jammed
<1> QED
  BY <1>1 DEF RowHolds, RowTrue, PipeOn

LEMMA CalmMatches ==
  ASSUME Steady, Calm, Sure
  PROVE  InputsMatch /\ OutputsMatch /\ PipesMatch /\ NoZombies
<1>1. HubClean /\ Rowed /\ Unjammed /\ InsTrue({}) /\ OutsTrue({})
  BY DEF Calm, True
<1>2. InputsMatch /\ OutputsMatch
  BY <1>1 DEF InputsMatch, OutputsMatch, InsTrue, OutsTrue, InOn, OutOn
<1>3. PipesMatch
  <2>1. ASSUME NEW p \in PipeIds, Exists(p) PROVE ~Stuck(p)
    <3>1. pipeRow[p].in \in Inputs /\ pipeRow[p].out \in Outputs
      BY <2>1, KeyTyped
    <3> QED
      BY <1>1, <3>1 DEF Unjammed, Jammed, Stuck
  <2> QED
    BY <2>1, CalmRows DEF PipesMatch
<1>4. NoZombies
  <2>1. ASSUME NEW x \in Objs, pstate[x] = "running"
        PROVE  \E q \in PipeIds : Exists(q) /\ pipes[<<pipeRow[q].in, pipeRow[q].out>>] = x
    <3>1. PICK k \in Keys : pipes[k] = x
      BY <1>1, <2>1 DEF HubClean, Registered
    <3>2. PICK i \in Inputs, o \in Outputs : k = <<i, o>>
      BY DEF Keys
    <3>3. PipeOn(i, o)
      BY <2>1, <3>1, <3>2, OnTyped DEF PipeOn
    <3> QED
      BY <1>1, <3>1, <3>2, <3>3 DEF Rowed
  <2> QED
    BY <1>1, <2>1 DEF NoZombies, HubClean
<1> QED
  BY <1>2, <1>3, <1>4

LEMMA SteadyTurn ==
  ASSUME MaxActive = 1, IsFiniteSet(Callers)
  PROVE  /\ Init => Steady /\ TurnInv
         /\ Steady /\ TurnInv /\ [Next]_vars => (Steady /\ TurnInv)'
<1>1. Init => Steady /\ TurnInv
  BY InitPlane, InitUnique, InitTurn DEF Steady
<1>2. Steady /\ [Next]_vars => Steady'
  BY NextPlane, UniqueStep DEF Steady
<1> QED
  BY <1>1, <1>2, NextTurn

(* "Database state and the engine's real state agree": when requests come one *)
(* after the other, and every source, sink and pipe starts when told to, then *)
(* whenever no handler is at work exactly the inputs, outputs and pipes whose *)
(* rows say running run, and nothing runs that no row accounts for; whichever *)
(* creations fail, however often the process ends in the middle of a handler  *)
(* or a Restore, for any numbers of inputs, outputs, pipes and requests.      *)
THEOREM EngineInTurn ==
  ASSUME MaxActive = 1, IsFiniteSet(Callers),
         "src" \notin Faults, "snk" \notin Faults, "pipe" \notin Faults
  PROVE  Spec => []EngineMatchesDB
<1>1. (Init => Steady /\ TurnInv) /\ (Steady /\ TurnInv /\ [Next]_vars => (Steady /\ TurnInv)')
  BY SteadyTurn
<1>2. Steady /\ TurnInv => EngineMatchesDB
  <2> SUFFICES ASSUME Steady, TurnInv, Quiet
               PROVE  InputsMatch /\ OutputsMatch /\ PipesMatch /\ NoZombies
    BY DEF EngineMatchesDB
  <2> QED
    BY AllQuietCalm, CalmMatches DEF Sure
<1> QED
  BY <1>1, <1>2, PTL DEF Spec

(* When requests come one after the other, a pipe's row says running exactly  *)
(* when the pipe runs, whenever no handler is at work: whatever calls of the  *)
(* hub fail, in a request or in Restore.  A failed start is not recorded as a *)
(* success, and no stop, cascade or Restore leaves a pipe running behind a    *)
(* row that says stopped.                                                     *)
THEOREM PipeRowsInTurn ==
  ASSUME MaxActive = 1, IsFiniteSet(Callers)
  PROVE  Spec => []PipeRowsTrue
<1>1. (Init => Steady /\ TurnInv) /\ (Steady /\ TurnInv /\ [Next]_vars => (Steady /\ TurnInv)')
  BY SteadyTurn
<1>2. Steady /\ TurnInv => PipeRowsTrue
  BY AllQuietCalm, CalmRows DEF PipeRowsTrue
<1> QED
  BY <1>1, <1>2, PTL DEF Spec
=============================================================================
