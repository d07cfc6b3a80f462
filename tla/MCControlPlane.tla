---------------------------- MODULE MCControlPlane ----------------------------
EXTENDS ControlPlane, TLC
CONSTANTS i1, i2, o1, o2, p1, p2, c1, c2

None == {}
PipeFaults == {"create", "pipe"}
AllFaults == {"create", "src", "snk", "pipe"}
SinkFaults == {"snk"}
In1 == {i1}
In2 == {i1, i2}
Out1 == {o1}
Out2 == {o1, o2}
Pipe1 == {p1}
Pipe2 == {p1, p2}
FreshOnes == {i2, o2, p2}
Client1 == {c1}
Client2 == {c1, c2}
Callers1 == {c1, Boot}
Callers2 == {c1, c2, Boot}

\* Sound where no output is Fragile: the requests name no particular one.
Alike == Permutations(Clients) \cup Permutations(PipeIds) \cup Permutations(Outputs)

Running == {"startPipe", "stopPipe", "startInput", "stopInput", "startOutput", "stopOutput"}
Editing == {"createPipe", "updatePipe", "deletePipe", "createInput", "updateInput", "deleteInput",
            "createOutput", "updateOutput", "deleteOutput"}
AllRequests == Running \cup Editing
=============================================================================
