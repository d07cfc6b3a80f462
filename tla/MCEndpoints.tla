------------------------------ MODULE MCEndpoints ------------------------------
(***************************************************************************)
(* Endpoints on one file, one browser and one camera.                        *)
(***************************************************************************)
EXTENDS Endpoints

(* A file with video of an uneven rate and sync samples, and shorter audio.   *)
TwoTracks == <<[video |-> TRUE, scale |-> 2, deltas |-> <<1, 2, 1>>, sync |-> {1, 3}],
               [video |-> FALSE, scale |-> 3, deltas |-> <<1, 1>>, sync |-> {}]>>
TwoConfigs == {[repeat |-> TRUE, grid |-> FALSE], [repeat |-> FALSE, grid |-> TRUE]}

(* What the theorems ask of a file.                                           *)
ASSUME TracksAreFine == FineScales /\ TwoSamples

(* A server that offers a format the input passes over, video and audio.      *)
OneDesc == {<<"other", "h264", "mpeg4">>}
=============================================================================
