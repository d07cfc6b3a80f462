------------------------------ MODULE GBPlayback ------------------------------
(***************************************************************************)
(* The goroutine of a Playback or Download session: recorded segments to the *)
(* platform, under the control of its INFO requests                          *)
(* (src/server/internal/gb28181/device/playback.go, segment.go).             *)
(*                                                                           *)
(* A segment is the sequence of NAL unit types of its file and the times of  *)
(* its sidecar.  Pacing is abstracted: a held frame is due at some moment,   *)
(* and controls are read while it is not.                                    *)
(***************************************************************************)
EXTENDS Naturals, Sequences, FiniteSets

CONSTANTS Recordings,  \* sequence of segments: [start, nalus, pts]
          Nominal,     \* interval of frames the sidecar says nothing of
          Ranges,      \* ranges <<from, to>> the platform asks for
          Mode,        \* "Playback" or "Download"
          Controls     \* bound: INFO requests

VARIABLES
  from, to, left,    \* the requested range and the segments that cover it, yet to be read
  seg, frame,        \* the segment being read and the frame
  at,                \* "open", "read", "held", "over"
  started, paused,
  anchored,          \* baseWall is set: a frame has been sent, and pacing counts from one
  queue, infos,      \* the control channel; INFO requests so far
  bye,               \* the media context is done, the socket closed
  notified,          \* the platform was told of the end of the media
  sent               \* history: frames sent since the last start or seek

vars == <<from, to, left, seg, frame, at, started, anchored, paused, queue, infos, bye, notified,
          sent>>
-----------------------------------------------------------------------------
(* startsNewAU: a slice starts an access unit if there is one before it; what *)
(* is not a slice joins the access unit that is being built.                  *)
IsVCL(n) == n \in {"slice", "idr"}
StartsNewAU(nalus, i) == i = 1 \/ (IsVCL(nalus[i]) /\ \E j \in 1 .. i - 1 : IsVCL(nalus[j]))

(* OpenSegment: the types of each access unit of a file.                      *)
NumberOf(nalus, i) == Cardinality({j \in 1 .. i : StartsNewAU(nalus, j)})
AccessUnits(nalus) ==
  [k \in 1 .. NumberOf(nalus, Len(nalus)) |->
     {nalus[i] : i \in {j \in DOMAIN nalus : NumberOf(nalus, j) = k}}]

(* SegmentReader.Next: the sidecar's time, or the nominal one.                *)
Pts(s, k) == IF k <= Len(s.pts) THEN s.pts[k] ELSE (k - 1) * Nominal
Frames ==
  [s \in DOMAIN Recordings |->
     [k \in DOMAIN AccessUnits(Recordings[s].nalus) |->
        [t |-> Recordings[s].start + Pts(Recordings[s], k),
         key |-> "idr" \in AccessUnits(Recordings[s].nalus)[k]]]]

(* The index.                                                                 *)
Covering(lo, hi) ==
  {s \in DOMAIN Recordings : Frames[s][1].t <= hi /\ Frames[s][Len(Frames[s])].t >= lo}

(* The sort by start time: the segment that comes next.                       *)
ComesNext(s) == \A r \in left : Recordings[s].start <= Recordings[r].start

Current == Frames[seg]
Held == Current[frame]
-----------------------------------------------------------------------------
TypeOK ==
  /\ at \in {"open", "read", "held", "over"}
  /\ left \subseteq DOMAIN Recordings /\ seg \in DOMAIN Recordings /\ frame \in Nat /\ infos \in 0 .. Controls
  /\ {started, anchored, paused, bye, notified} \subseteq BOOLEAN

Init ==
  /\ \E r \in Ranges : from = r[1] /\ to = r[2] /\ left = Covering(r[1], r[2])
  /\ left # {}
  /\ seg = 1 /\ frame = 1 /\ at = "open" /\ started = FALSE /\ anchored = FALSE /\ paused = FALSE
  /\ queue = <<>> /\ infos = 0 /\ bye = FALSE /\ notified = FALSE /\ sent = <<>>

(* The end of the goroutine; the platform is told unless it said BYE.         *)
Finish == at' = "over" /\ notified' = ~bye

NextSegment == at' = "open" /\ UNCHANGED <<seg, frame>>

(* Files that cannot be opened are passed over.                               *)
OpenSegment ==
  /\ at = "open"
  /\ \E s \in left : /\ ComesNext(s) /\ left' = left \ {s}
                      /\ \/ at' = "read" /\ seg' = s /\ frame' = 1
                         \/ UNCHANGED <<at, seg, frame>>
  /\ UNCHANGED <<from, to, started, anchored, paused, queue, infos, bye, notified, sent>>

Exhausted ==
  /\ at = "open" /\ left = {}
  /\ Finish
  /\ UNCHANGED <<from, to, left, seg, frame, started, anchored, paused, queue, infos, bye,
                 sent>>

(* (The code holds the session here if it is paused; it never is, since a     *)
(* pause holds a frame until it is over.)                                     *)
ReadFrame ==
  /\ at = "read"
  /\ \/ frame > Len(Current) /\ NextSegment /\ UNCHANGED notified
     \/ frame <= Len(Current) /\ Held.t < from
        /\ frame' = frame + 1 /\ UNCHANGED <<seg, at, notified>>
     \/ frame <= Len(Current) /\ Held.t > to /\ Finish /\ UNCHANGED <<seg, frame>>
     \/ frame <= Len(Current) /\ Held.t \in from .. to
        /\ at' = "held" /\ UNCHANGED <<seg, frame, notified>>
  /\ UNCHANGED <<from, to, left, started, anchored, paused, queue, infos, bye, sent>>
-----------------------------------------------------------------------------
(* Sending.                                                                   *)
Send(f) == sent' = Append(sent, f) /\ at' = "read" /\ started' = TRUE /\ anchored' = TRUE

(* Mutant: a session that starts with whatever frame comes first.             *)
MayStartAny(f) == TRUE

(* The decoder needs an IDR first.                                            *)
MayStart(f) == f.key

SendHeld ==
  /\ at = "held" /\ ~paused /\ (started \/ MayStart(Held)) /\ ~bye
  /\ Send(Held) /\ frame' = frame + 1
  /\ UNCHANGED <<from, to, left, seg, paused, queue, infos, bye, notified>>

SendFails ==
  /\ at = "held" /\ ~paused /\ (started \/ MayStart(Held)) /\ bye
  /\ Finish
  /\ UNCHANGED <<from, to, left, seg, frame, started, anchored, paused, queue, infos, bye,
                 sent>>

(* Fast forward within the segment, to a key frame or beyond the range.       *)
Stops == {k \in frame + 1 .. Len(Current) : Current[k].key \/ Current[k].t > to}

FastForward ==
  /\ at = "held" /\ ~paused /\ ~started /\ ~MayStart(Held)
  /\ \/ Stops = {} /\ NextSegment /\ UNCHANGED <<started, anchored, notified, sent>>
     \/ \E k \in Stops :
          /\ \A j \in Stops : k <= j
          /\ IF Current[k].t > to \/ bye
             THEN Finish /\ UNCHANGED <<seg, frame, started, anchored, sent>>
             ELSE Send(Current[k]) /\ frame' = k + 1 /\ UNCHANGED <<seg, notified>>
  /\ UNCHANGED <<from, to, left, paused, queue, infos, bye>>
-----------------------------------------------------------------------------
(* waitToSend: controls and the context are read while a frame is held.  The  *)
(* very first frame is due at once, as there is nothing to count from; the    *)
(* first one after a seek is due as far from the frame the pace was last set  *)
(* by as the recording says, since a seek leaves that alone.  A Download      *)
(* holds nothing.                                                             *)
Waits == at = "held" /\ (paused \/ (Mode = "Playback" /\ anchored))

(* The pacing counts from where it did before.                                *)
Seek(r) ==
  /\ from' = r[1] /\ to' = r[2] /\ left' = Covering(r[1], r[2])
  /\ sent' = <<>> /\ UNCHANGED <<seg, frame, anchored>>
  /\ IF left' = {} THEN Finish /\ UNCHANGED <<started, paused>>
     ELSE at' = "open" /\ started' = FALSE /\ paused' = FALSE /\ UNCHANGED notified

ApplyControl ==
  /\ Waits /\ queue # <<>> /\ queue' = Tail(queue)
  /\ LET c == Head(queue) IN
       IF c.value = "SEEK" THEN Seek(c.range)
       ELSE /\ paused' = (c.value = "PAUSE")
            /\ UNCHANGED <<from, to, left, seg, frame, at, started, anchored, notified,
                 sent>>
  /\ UNCHANGED <<infos, bye>>

(* Mutant: a paused session waits for a control alone.                        *)
CancelledUnpaused ==
  /\ Waits /\ ~paused /\ bye
  /\ Finish
  /\ UNCHANGED <<from, to, left, seg, frame, started, anchored, paused, queue, infos, bye,
                 sent>>

Cancelled ==
  /\ Waits /\ bye
  /\ Finish
  /\ UNCHANGED <<from, to, left, seg, frame, started, anchored, paused, queue, infos, bye,
                 sent>>
-----------------------------------------------------------------------------
Info(c) ==
  /\ at # "over" /\ ~bye /\ infos < Controls
  /\ infos' = infos + 1 /\ queue' = Append(queue, c)
  /\ UNCHANGED <<from, to, left, seg, frame, at, started, anchored, paused, bye, notified,
                 sent>>

Bye ==
  /\ ~bye /\ bye' = TRUE
  /\ UNCHANGED <<from, to, left, seg, frame, at, started, anchored, paused, queue, infos,
                 notified, sent>>

Commands == [value : {"PAUSE", "PLAY"}, range : {<<0, 0>>}] \cup [value : {"SEEK"}, range : Ranges]

Step ==
  OpenSegment \/ Exhausted \/ ReadFrame \/ SendHeld \/ SendFails \/ FastForward \/ ApplyControl
  \/ Cancelled

Next ==
  \/ OpenSegment \/ Exhausted \/ ReadFrame \/ SendHeld \/ SendFails \/ FastForward \/ ApplyControl
  \/ Cancelled
  \/ \E c \in Commands : Info(c)
  \/ Bye

Spec == Init /\ [][Next]_vars

(* The goroutine runs on; only a platform that has paused it can hold it.     *)
FairSpec == Spec /\ WF_vars(Step)
-----------------------------------------------------------------------------
(* What the platform gets after a start or a seek begins with a key frame,    *)
(* lies in the range asked for and never goes back in time.                   *)
GoodStream ==
  /\ sent # <<>> => sent[1].key
  /\ \A i \in DOMAIN sent : sent[i].t \in from .. to
  /\ \A i, j \in DOMAIN sent : i < j => sent[i].t < sent[j].t

(* A session ends by itself unless the platform leaves it paused, and a BYE   *)
(* ends that one too.                                                         *)
PlaybackEnds == <>(at = "over") \/ <>[](paused /\ ~bye)

(* Parameter sets belong to the access unit of the picture they precede       *)
(* (segment.go:60-61), so a stream that starts at a key frame can be decoded. *)
KeyHasParameters ==
  \A s \in DOMAIN Recordings :
    \A au \in {AccessUnits(Recordings[s].nalus)[k] : k \in DOMAIN Frames[s]} :
      "idr" \in au => "sps" \in au
=============================================================================
