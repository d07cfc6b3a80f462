------------------------------- MODULE MP4Source -------------------------------
(***************************************************************************)
(* The MP4 file input: the read loop that interleaves the tracks by media    *)
(* time and paces them by the clock, its loop around, and the signals start, *)
(* pause and seek (src/server/internal/media/mp4_source.go).                 *)
(*                                                                           *)
(* A track is its time scale, the durations of its samples and the numbers   *)
(* of its sync samples; a sample's payload is its number.  The read loop     *)
(* takes m.mu piece by piece, so a signal may come between two of its steps. *)
(***************************************************************************)
EXTENDS Integers, Sequences, FiniteSets

CONSTANTS Tracks,     \* sequence of [video, scale, deltas, sync]
          Micro,      \* the common scale of media times, and ticks of a second
          Configs,    \* records [repeat, grid]: the configuration's loop; stamps on a grid
          Points,     \* times the API seeks, in the scale of a track
          Starts, Signals, MaxTime  \* bounds: Start calls; pauses and seeks, and resumes; ticks

(* A file whose tracks have samples; durations are unsigned, and a scale of 0 *)
(* is replaced.                                                               *)
ASSUME SourceAssumption ==
  /\ Tracks \in Seq([video : BOOLEAN, scale : Nat \ {0}, deltas : Seq(Nat), sync : SUBSET Nat])
  /\ Tracks /= <<>> /\ \A t \in DOMAIN Tracks : Tracks[t].deltas /= <<>>
  /\ Micro \in Nat \ {0} /\ Configs \subseteq [repeat : BOOLEAN, grid : BOOLEAN]
  /\ Points \subseteq Nat

VARIABLES
  conf,         \* the configuration
  status, loop,       \* m.status; the loop: "none", "pick", "next", "read", "paced", "idle"
  cancelled,
  nr, loopDur, play,  \* of each track: next sample, time of the rounds before, may send
  anchored, anchor, anchorMedia,   \* the pacing anchor: clock and base track's media time
  now,                \* the clock
  tr, header,         \* the track chosen and the sample its header was made from
  until,              \* when the pace lets the loop go on
  starts, signals,
  epoch, picked,      \* history: jumps of the media time; the one the frame was picked in
  jump,               \* history: clock and base media time of the last jump
  sent                \* history: the last frame sent; track 0 before the first of this epoch

vars == <<conf, status, loop, cancelled, nr, loopDur, play, anchored, anchor, anchorMedia, now, tr,
          header, until, starts, signals, epoch, picked, jump, sent>>
tracks == <<nr, loopDur, play>>
pacing == <<anchored, anchor, anchorMedia>>
history == <<epoch, picked, jump, sent>>

T == DOMAIN Tracks
Total(t) == Len(Tracks[t].deltas)
Sums ==
  [t \in T |-> LET s[n \in 0 .. Total(t)] == IF n = 0 THEN 0 ELSE s[n - 1] + Tracks[t].deltas[n]
              IN  s]
SumTo(t, n) == Sums[t][n]
-----------------------------------------------------------------------------
ConvertClock(v, from, to) == (v * to) \div from

(* gridStepForVideo: the nominal frame interval, rounded; AAC: its frame.     *)
GridStep ==
  [t \in T |-> IF Tracks[t].video THEN (2 * SumTo(t, Total(t)) + Total(t)) \div (2 * Total(t))
               ELSE 1]

(* trackDecodeTime and totalDuration, in the track's own scale.               *)
TimeOf(grid, t, n) == IF grid THEN n * GridStep[t] ELSE SumTo(t, n)
DecodeTime(t, n) == TimeOf(conf.grid, t, n - 1)
TotalDuration(t) == TimeOf(conf.grid, t, Total(t))

(* selectBaseTrack: the first of the longest.                                 *)
BaseTrack ==
  [grid \in BOOLEAN |->
     LET long(t) == ConvertClock(TimeOf(grid, t, Total(t)), Tracks[t].scale, Micro)
     IN CHOOSE t \in T : \A u \in T : long(u) < long(t) \/ (long(u) = long(t) /\ t <= u)]
Base == BaseTrack[conf.grid]

(* peekMediaAbs.                                                              *)
Left(t) == nr[t] <= Total(t)
Media(t) == ConvertClock(DecodeTime(t, nr[t]) + loopDur[t], Tracks[t].scale, Micro)

Sending == {t \in T : play[t] /\ Left(t)}
Earliest(S) ==
  CHOOSE t \in S : \A u \in S : Media(t) < Media(u) \/ (Media(t) = Media(u) /\ t <= u)

(* Where the base track stands when its next sample is n, and where           *)
(* reAnchorPacing takes it to be: at its round's start once it is through.    *)
Position(n) == loopDur[Base] + DecodeTime(Base, n)
AnchorAt(n) == IF n <= Total(Base) THEN Position(n) ELSE loopDur[Base]

(* Mutant: media units are taken for clock units.                             *)
TargetUnconverted ==
  LET left == {ConvertClock(Media(t), Micro, Tracks[Base].scale) : t \in {u \in T : Left(u)}}
      next == CHOOSE m \in left : \A n \in left : m <= n
  IN IF left = {} \/ next <= anchorMedia THEN now ELSE anchor + (next - anchorMedia)

(* nextPaceTarget: no target (the clock as it is) unless some track has a     *)
(* sample left that lies after the anchor.                                    *)
Target ==
  LET left == {ConvertClock(Media(t), Micro, Tracks[Base].scale) : t \in {u \in T : Left(u)}}
      next == CHOOSE m \in left : \A n \in left : m <= n
  IN IF left = {} \/ next <= anchorMedia THEN now
     ELSE anchor + ConvertClock(next - anchorMedia, Tracks[Base].scale, Micro)

Init ==
  /\ conf \in Configs
  /\ status = "stopped" /\ loop = "none" /\ cancelled = FALSE
  /\ nr = [t \in T |-> 1] /\ loopDur = [t \in T |-> 0] /\ play = [t \in T |-> TRUE]
  /\ anchored = FALSE /\ anchor = 0 /\ anchorMedia = 0
  /\ now = 0 /\ tr = 1 /\ header = 0 /\ until = 0
  /\ starts = 0 /\ signals = [halt |-> 0, resume |-> 0]
  /\ epoch = 0 /\ picked = 0 /\ jump = [time |-> 0, media |-> 0]
  /\ sent = [track |-> 0, media |-> 0, header |-> 0, payload |-> 0]

(* A new epoch: nothing sent in it yet.                                       *)
Jump(media) ==
  /\ epoch' = epoch + 1 /\ jump' = [time |-> now, media |-> media]
  /\ sent' = [sent EXCEPT !.track = 0]
  /\ UNCHANGED picked
-----------------------------------------------------------------------------
(* Start builds the tracks anew and leaves the anchor as it is.               *)
Start ==
  /\ status /= "running" /\ starts < Starts /\ starts' = starts + 1
  /\ status' = "running" /\ loop' = "pick" /\ cancelled' = FALSE
  /\ nr' = [t \in T |-> 1] /\ loopDur' = [t \in T |-> 0] /\ play' = [t \in T |-> TRUE]
  /\ Jump(0)
  /\ UNCHANGED <<conf, pacing, now, tr, header, until, signals>>

(* The file cannot be opened, is fragmented or has no track.                  *)
StartFails ==
  /\ status /= "running" /\ starts < Starts /\ starts' = starts + 1
  /\ status' = "error"
  /\ UNCHANGED <<conf, loop, cancelled, tracks, pacing, now, tr, header, until,
                 signals, history>>

(* Stop cancels, waits for the loop, and closes the file.                     *)
StopCalled ==
  /\ status /= "stopped" /\ ~cancelled /\ cancelled' = TRUE
  /\ UNCHANGED <<conf, status, loop, tracks, pacing, now, tr, header, until, starts,
                 signals, history>>

StopReturns ==
  /\ cancelled /\ loop = "none" /\ status' = "stopped" /\ cancelled' = FALSE
  /\ UNCHANGED <<conf, loop, tracks, pacing, now, tr, header, until, starts, signals,
                 history>>
-----------------------------------------------------------------------------
(* The loop begins: it anchors once, and chooses the earliest sample.         *)
Pick ==
  /\ loop = "pick" /\ ~cancelled /\ Sending /= {}
  /\ tr' = Earliest(Sending) /\ loop' = "next" /\ picked' = epoch
  /\ IF anchored THEN UNCHANGED pacing
     ELSE anchored' = TRUE /\ anchor' = now /\ anchorMedia' = AnchorAt(nr[Base])
  /\ UNCHANGED <<conf, status, cancelled, tracks, now, header, until, starts, signals,
                 epoch, jump, sent>>

(* Mutant: every track goes on from its own end.                              *)
AlignOwn ==
  /\ nr' = [t \in T |-> 1]
  /\ loopDur' = [t \in T |-> loopDur[t] + TotalDuration(t)]

(* alignLoopDuration: the others start the round where the base track does.   *)
AlignLoopDuration ==
  LET start == loopDur[Base] + TotalDuration(Base)
  IN /\ nr' = [t \in T |-> 1]
     /\ loopDur' = [t \in T |-> IF t = Base THEN start
                                ELSE ConvertClock(start, Tracks[Base].scale, Tracks[t].scale)]

(* Nothing to send: around again or the end when the base track is through;   *)
(* the status does not tell the end.                                          *)
Wrap ==
  /\ loop = "pick" /\ ~cancelled /\ Sending = {} /\ ~Left(Base) /\ conf.repeat
  /\ AlignLoopDuration /\ loop' = "idle"
  /\ UNCHANGED <<conf, status, cancelled, play, pacing, now, tr, header, until, starts,
                 signals, history>>

FileEnds ==
  /\ loop = "pick" /\ ~cancelled /\ Sending = {} /\ ~Left(Base) /\ ~conf.repeat
  /\ loop' = "none"
  /\ UNCHANGED <<conf, status, cancelled, tracks, pacing, now, tr, header, until,
                 starts, signals, history>>

Idle ==
  /\ loop = "pick" /\ ~cancelled /\ Sending = {} /\ Left(Base) /\ loop' = "idle"
  /\ UNCHANGED <<conf, status, cancelled, tracks, pacing, now, tr, header, until,
                 starts, signals, history>>

Exits ==
  /\ cancelled /\ loop \in {"pick", "paced", "idle"} /\ loop' = "none"
  /\ UNCHANGED <<conf, status, cancelled, tracks, pacing, now, tr, header, until,
                 starts, signals, history>>

(* nextSample reads the number and the times, and counts on later.            *)
ReadsHeader ==
  /\ loop = "next" /\ loop' = "count"
  /\ header' = nr[tr]
  /\ UNCHANGED <<conf, status, cancelled, tracks, pacing, now, tr, until, starts,
                 signals, history>>

Counts ==
  /\ loop = "count" /\ loop' = "read"
  /\ nr' = [nr EXCEPT ![tr] = @ + 1]
  /\ UNCHANGED <<conf, status, cancelled, loopDur, play, pacing, now, tr, header,
                 until, starts, signals, history>>

(* readSampleData reads the sample before the next; emit; then the pace.      *)
Payload == IF nr[tr] - 1 < 1 THEN 1 ELSE nr[tr] - 1
Emit ==
  /\ loop = "read" /\ loop' = "paced" /\ until' = Target
  /\ sent' = [track |-> IF picked = epoch THEN tr ELSE 0, header |-> header, payload |-> Payload,
              media |-> ConvertClock(DecodeTime(tr, header) + loopDur[tr], Tracks[tr].scale, Micro)]
  /\ UNCHANGED <<conf, status, cancelled, tracks, pacing, now, tr, header, starts,
                 signals, epoch, picked, jump>>

WakesUp ==
  /\ \/ loop = "paced" /\ now >= until
     \/ loop = "idle"
  /\ loop' = "pick"
  /\ UNCHANGED <<conf, status, cancelled, tracks, pacing, now, tr, header, until,
                 starts, signals, history>>
-----------------------------------------------------------------------------
Signal(s) == signals[s] < Signals /\ signals' = [signals EXCEPT ![s] = @ + 1]

(* SignalPause and SignalStop.                                                *)
Pause ==
  /\ starts > 0 /\ Signal("halt") /\ play' = [t \in T |-> FALSE]
  /\ UNCHANGED <<conf, status, loop, cancelled, nr, loopDur, pacing, now, tr, header,
                 until, starts, history>>

ReAnchor(media) == anchored' = TRUE /\ anchor' = now /\ anchorMedia' = media

(* SignalStart and SignalResume; a loop that never ran anchors by itself.     *)
Resume ==
  /\ starts > 0 /\ Signal("resume") /\ play' = [t \in T |-> TRUE]
  /\ Jump(Position(nr[Base]))
  /\ IF anchored THEN ReAnchor(AnchorAt(nr[Base])) ELSE UNCHANGED pacing
  /\ UNCHANGED <<conf, status, loop, cancelled, nr, loopDur, now, tr, header, until,
                 starts>>

(* seek: the sample at the time, for video the sync sample before; the first  *)
(* one when there is none.  Only found tracks are started.                    *)
Found(t, pts) == {n \in 1 .. Total(t) : SumTo(t, n - 1) <= pts /\ pts < SumTo(t, n)}
SyncBefore(t, n) ==
  LET sync == {k \in 1 .. n : k \in Tracks[t].sync}
  IN IF Tracks[t].video /\ sync /= {} THEN CHOOSE k \in sync : \A j \in sync : j <= k ELSE n
Seek(t, pts) ==
  /\ starts > 0 /\ Signal("halt")
  /\ nr' = [nr EXCEPT ![t] = IF Found(t, pts) = {} THEN 1
                             ELSE SyncBefore(t, CHOOSE n \in Found(t, pts) : TRUE)]
  /\ play' = [play EXCEPT ![t] = @ \/ Found(t, pts) /= {}]
  /\ ReAnchor(AnchorAt(nr'[Base])) /\ Jump(Position(nr'[Base]))
  /\ UNCHANGED <<conf, status, loop, cancelled, loopDur, now, tr, header, until, starts>>

(* The clock goes on; the loop is never behind it by more than a step.        *)
Tick ==
  /\ now < MaxTime /\ now' = now + 1
  /\ loop \in {"none", "paced", "idle"} /\ (loop = "paced" => now < until)
  /\ UNCHANGED <<conf, status, loop, cancelled, tracks, pacing, tr, header, until,
                 starts, signals, history>>
-----------------------------------------------------------------------------
Next ==
  \/ Start \/ StartFails \/ StopCalled \/ StopReturns
  \/ Pick \/ Wrap \/ FileEnds \/ Idle \/ Exits \/ ReadsHeader \/ Counts \/ Emit \/ WakesUp
  \/ Pause \/ Resume
  \/ \E t \in T : \E pts \in Points : Seek(t, pts)
  \/ Tick

Spec == Init /\ [][Next]_vars
-----------------------------------------------------------------------------
TypeOK ==
  /\ conf \in Configs
  /\ status \in {"stopped", "running", "error"}
  /\ loop \in {"none", "pick", "next", "count", "read", "paced", "idle"}
  /\ \A t \in T : nr[t] \in 1 .. Total(t) + 1
  /\ tr \in T /\ now \in 0 .. MaxTime

(* Of a file that is played around and around, the last sample of a track     *)
(* begins at least one unit of any other track's scale before the round is    *)
(* over: alignLoopDuration rounds the start of a round down to such a unit.   *)
LastStart(grid, t) == TimeOf(grid, t, Total(t) - 1)
RoundEnd(grid) == TimeOf(grid, BaseTrack[grid], Total(BaseTrack[grid]))
FineScales ==
  \A c \in Configs : c.repeat =>
    \A t, u \in T : t /= u =>
      (LastStart(c.grid, u) * Tracks[t].scale + Tracks[u].scale) * Tracks[BaseTrack[c.grid]].scale
        <= RoundEnd(c.grid) * Tracks[u].scale * Tracks[t].scale

(* A base track of a single sample has no next one to wait for in any round.  *)
TwoSamples == \A c \in Configs : c.repeat => Total(BaseTrack[c.grid]) > 1

(* Around and around, and through a pause, the frames of all tracks leave in  *)
(* the order of their media times: the rounds of a track never overlap nor    *)
(* drift from the base track's (docs/design.md:457).  A frame picked before a *)
(* jump is not held against it.                                               *)
Interleaved ==
  [][sent.track /= 0 /\ sent'.track /= 0 => sent'.media >= sent.media]_vars

(* Pacing is exact up to what the conversions between the clocks round off,   *)
(* nothing if the base track's scale divides the common one, and to the first *)
(* frame of a round: after the last sample no track has a next one to wait    *)
(* for (mp4_source.go:628), and before it goes around the loop waits a        *)
(* nominal frame interval, here any time, whatever that sample lasts          *)
(* (569-573 and 717-741).                                                     *)
Rounding ==
  IF Micro % Tracks[Base].scale = 0 THEN 0 ELSE ConvertClock(1, Tracks[Base].scale, Micro) + 2
LastSample == TotalDuration(Base) - DecodeTime(Base, Total(Base))
RoundedUp(v) == (v * Micro + Tracks[Base].scale - 1) \div Tracks[Base].scale
Slack(n) == Rounding + IF n = 1 THEN RoundedUp(LastSample) ELSE 0
InTime(media, time, n) ==
  media - ConvertClock(jump.media, Tracks[Base].scale, Micro) <= time - jump.time + Slack(n)
OnTime == sent.track = Base => InTime(sent.media, now, sent.header)
Playing == \A t \in T : play[t]

(* A frame of the base track never leaves before its time: its distance to    *)
(* the last jump of the media time is no more than the clock went since       *)
(* (mp4_source.go:48-49); only the first of a round may be early, by what the *)
(* last sample of the round before should have lasted.  It does not hold from *)
(* the second Start on, nor while a seek lets one track play beside a paused  *)
(* one, whose next sample nextPaceTarget counts.                              *)
Paced == starts <= 1 /\ Playing => OnTime

(* A frame's payload is the sample its header speaks of                       *)
(* (mp4_source.go:699).  A seek between the steps of the loop breaks it.      *)
SampleOfItsHeader == sent.header = sent.payload

(* A source that says it runs reads.                                          *)
RunningReads == status = "running" /\ ~cancelled => loop /= "none"
=============================================================================
