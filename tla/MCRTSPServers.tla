---------------------------- MODULE MCRTSPServers -----------------------------
EXTENDS RTSPServers, TLC
CONSTANTS s1, s2, s3, a1, p1, p2, x1
ThreeSinks == {s1, s2, s3}
OneAddr == {a1}
TwoPaths == {p1, p2}
OneSession == {x1}
SameAddr == [s \in Sinks |-> a1]
OldAndNew == [s \in Sinks |-> IF s = s3 THEN p2 ELSE p1]
AllInputs == {"video", "audio", "half"}
Alike == Permutations({s1, s2})
=============================================================================
