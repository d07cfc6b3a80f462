----------------------------- MODULE MCFramePipe -----------------------------
EXTENDS FramePipe
CONSTANTS t1, t2
OneTrack == {t1}
TwoTracks == {t1, t2}
=============================================================================
