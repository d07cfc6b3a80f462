---------------------------- MODULE FrameDelivery ----------------------------
(***************************************************************************)
(* What a media pipe promises to the sink behind it, whatever its buffers,   *)
(* goroutines and restarts do: a frame reaches the sink at most once, it was *)
(* emitted by the source before, and each writer session delivers the frames *)
(* of a track in emission order.  Frames may be lost (the pipe drops under   *)
(* backpressure and on Stop); they are never invented, repeated or, within a *)
(* session, reordered.                                                       *)
(***************************************************************************)
EXTENDS Naturals, Sequences

CONSTANTS Tracks,    \* the tracks of the source
          Sessions   \* the writer goroutines, one per successful Start

VARIABLES offered,   \* offered[t]: how many frames of track t were emitted
          out        \* the WriteFrame calls the sink accepted, oldest first

vars == <<offered, out>>

Deliveries == [writer : Sessions, track : Tracks, num : Nat]

TypeOK == /\ offered \in [Tracks -> Nat]
          /\ out \in Seq(Deliveries)

Init == /\ offered = [t \in Tracks |-> 0]
        /\ out = <<>>

Offer(t) == /\ offered' = [offered EXCEPT ![t] = @ + 1]
            /\ UNCHANGED out

\* The next delivery of w: a frame already emitted, that nobody delivered, and
\* newer than all that w delivered of that track.
Deliver(w, t, n) ==
  /\ n \in 1 .. offered[t]
  /\ \A i \in DOMAIN out : out[i].track = t => /\ out[i].num # n
                                               /\ out[i].writer = w => out[i].num < n
  /\ out' = Append(out, [writer |-> w, track |-> t, num |-> n])
  /\ UNCHANGED offered

Next == \/ \E t \in Tracks : Offer(t)
        \/ \E w \in Sessions, t \in Tracks : \E n \in 1 .. offered[t] : Deliver(w, t, n)

Spec == Init /\ [][Next]_vars
=============================================================================
