------------------------------ MODULE MCFLVRing ------------------------------
EXTENDS FLVRing, TLC
CONSTANTS w1, w2, k1, k2
TwoWriters == {w1, w2}
OneClient == {k1}
Alike == Permutations(Writers) \cup Permutations(Clients)
=============================================================================
