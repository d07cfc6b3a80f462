------------------------------- MODULE GBFrames -------------------------------
(***************************************************************************)
(* From the frames of the bound input to the access units of each platform   *)
(* session: the frame converter and the hub of a GB28181 output              *)
(* (src/server/internal/media/gb28181_media.go, gb28181_hub.go).             *)
(*                                                                           *)
(* WriteFrame, Subscribe and Unsubscribe run under a mutex each and are one  *)
(* step.  A frame is a number, its kind and the parameter sets it carries;   *)
(* the sizes are small numbers.  Every number counts frames of the input.    *)
(***************************************************************************)
EXTENDS Naturals, Sequences, FiniteSets
Sq == INSTANCE SequencesExt

CONSTANTS Subs,       \* subscriptions, one per INVITE
          SubCap,     \* gb28181SubCapacity
          GOPMax,     \* gb28181GOPMaxBytes
          AudioMax,   \* gb28181AudioQueueMax
          Streams,    \* what Configure may be given
          Pictures,   \* kinds of video frames
          MaxFrames,  \* bound: frames of the input
          MaxConfigs  \* bound: times a pipe is bound to the output

VARIABLES
  n, configs,          \* frames and Configure calls so far
  conf,                \* codec, configNALUs, audioEnabled, dropBFrames
  audioQ,              \* audio frames that wait for a picture
  gop, truncated,      \* the cache of the hub
  status, ch,          \* of each subscription, and its channel
  made, heard,         \* history: access units and audio frames since Configure
  got, overrun, owed   \* history: what a session read, whether its channel was ever full,
                       \* and the key frame it found in a valid cache (0: none)

vars == <<n, configs, conf, audioQ, gop, truncated, status, ch, made, heard, got, overrun, owed>>
converter == <<configs, conf, audioQ, made, heard>>
hub == <<gop, truncated, status, ch, got, overrun, owed>>

Active == {s \in Subs : status[s] \in {"on", "leaving"}}
-----------------------------------------------------------------------------
Init ==
  /\ n = 0 /\ configs = 0 /\ conf = [codec |-> "none", params |-> {}, audio |-> FALSE, drop |-> FALSE]
  /\ audioQ = <<>> /\ gop = <<>> /\ truncated = FALSE
  /\ status = [s \in Subs |-> "new"] /\ ch = [s \in Subs |-> <<>>]
  /\ made = <<>> /\ heard = {} /\ got = [s \in Subs |-> <<>>]
  /\ overrun = [s \in Subs |-> FALSE] /\ owed = [s \in Subs |-> 0]

(* configure: a stream without H.264 or H.265 and, under video_codec=h264, an *)
(* H.265 stream are refused before anything changes.  The hub keeps its cache. *)
Accepted(st) == st.codec \in {"h264", "h265"} /\ ~(st.codec = "h265" /\ st.limit = "h264")

Configure(st) ==
  /\ configs < MaxConfigs /\ configs' = configs + 1
  /\ IF Accepted(st)
     THEN /\ conf' = [codec |-> st.codec, params |-> st.params, audio |-> st.audio, drop |-> st.drop]
          /\ audioQ' = <<>> /\ made' = <<>> /\ heard' = {}
     ELSE UNCHANGED <<conf, audioQ, made, heard>>
  /\ UNCHANGED <<n, hub>>
-----------------------------------------------------------------------------
(* isReorderedNonRefAU: shown before it is decoded, and no reference.         *)
IsReorderedNonRef(p) == p.early /\ ~p.ref

Dropped(p) == conf.drop /\ conf.codec # "h265" /\ IsReorderedNonRef(p)

(* videoAU: a key frame gets the parameter sets it lacks.                     *)
HasParameterSets(params) == {"sps", "pps"} \subseteq params
AccessUnit(p) ==
  [n |-> n + 1, key |-> p.key, size |-> p.size, audio |-> audioQ,
   params |-> IF p.key /\ conf.params # {} /\ ~HasParameterSets(p.params)
              THEN p.params \cup conf.params ELSE p.params]

Footprint(aus) == Sq!FoldLeft(LAMBDA sum, au : sum + au.size + Len(au.audio), 0, aus)

(* broadcast: a key frame starts the cache over; a cache that is too large is *)
(* dropped until the next one.                                                *)
CacheAfter(au) ==
  LET kept == IF au.key THEN <<au>> ELSE IF truncated THEN <<>> ELSE Append(gop, au)
  IN IF kept = <<>> \/ Footprint(kept) > GOPMax THEN [aus |-> <<>>, cut |-> TRUE]
     ELSE [aus |-> kept, cut |-> FALSE]

Broadcast(au) ==
  /\ gop' = CacheAfter(au).aus /\ truncated' = CacheAfter(au).cut
  /\ ch' = [s \in Subs |-> IF s \in Active /\ Len(ch[s]) < SubCap THEN Append(ch[s], au) ELSE ch[s]]
  /\ overrun' = [s \in Subs |-> overrun[s] \/ (s \in Active /\ Len(ch[s]) = SubCap)]
  /\ UNCHANGED <<status, got, owed>>

(* A picture that is dropped leaves the audio for the next one.               *)
AudioAfter(p) == IF Dropped(p) THEN audioQ ELSE <<>>

WriteVideo(p) ==
  /\ conf.codec # "none" /\ n < MaxFrames /\ n' = n + 1
  /\ audioQ' = AudioAfter(p)
  /\ IF Dropped(p) THEN UNCHANGED <<made, hub>>
     ELSE made' = Append(made, AccessUnit(p)) /\ Broadcast(AccessUnit(p))
  /\ UNCHANGED <<configs, conf, heard>>

(* audioFrame: beyond the limit the oldest goes.                              *)
WriteAudio ==
  /\ conf.codec # "none" /\ n < MaxFrames /\ n' = n + 1
  /\ IF conf.audio
     THEN /\ heard' = heard \cup {n + 1}
          /\ LET q == Append(audioQ, n + 1) IN audioQ' = IF Len(q) > AudioMax THEN Tail(q) ELSE q
     ELSE UNCHANGED <<audioQ, heard>>
  /\ UNCHANGED <<configs, conf, made, hub>>
-----------------------------------------------------------------------------
(* The newest key frame of this binding.                                      *)
HasKey == \E i \in DOMAIN made : made[i].key
LastKey == CHOOSE i \in DOMAIN made : /\ made[i].key
                                     /\ \A j \in i + 1 .. Len(made) : ~made[j].key

Fitting(aus) == SubSeq(aus, 1, IF Len(aus) < SubCap THEN Len(aus) ELSE SubCap)

(* Mutant: the newest part of the cache, when the channel cannot take it all. *)
ReplayNewest == IF truncated THEN <<>> ELSE Sq!Reverse(Fitting(Sq!Reverse(gop)))

(* Subscribe: as much of the cache as the channel takes.                      *)
Replay == IF truncated THEN <<>> ELSE Fitting(gop)

Subscribe(s) ==
  /\ status[s] = "new" /\ status' = [status EXCEPT ![s] = "on"]
  /\ ch' = [ch EXCEPT ![s] = Replay]
  /\ overrun' = [overrun EXCEPT ![s] = Len(gop) > SubCap]
  /\ owed' = [owed EXCEPT ![s] = IF ~truncated /\ HasKey THEN made[LastKey].n ELSE 0]
  /\ UNCHANGED <<n, converter, gop, truncated, got>>

Read(s) ==
  /\ s \in Active /\ ch[s] # <<>>
  /\ got' = [got EXCEPT ![s] = Append(@, Head(ch[s]))]
  /\ ch' = [ch EXCEPT ![s] = Tail(@)]
  /\ UNCHANGED <<n, converter, gop, truncated, status, overrun, owed>>

(* The session ends; the goroutine of Subscribe takes it out a moment later.  *)
Cancel(s) ==
  /\ status[s] = "on" /\ status' = [status EXCEPT ![s] = "leaving"]
  /\ UNCHANGED <<n, converter, gop, truncated, ch, got, overrun, owed>>

Unsubscribe(s) ==
  /\ status[s] = "leaving" /\ status' = [status EXCEPT ![s] = "gone"]
  /\ UNCHANGED <<n, converter, gop, truncated, ch, got, overrun, owed>>

Next ==
  \/ \E st \in Streams : Configure(st)
  \/ \E p \in Pictures : WriteVideo(p)
  \/ WriteAudio
  \/ \E s \in Subs : Subscribe(s) \/ Read(s) \/ Cancel(s) \/ Unsubscribe(s)

Spec == Init /\ [][Next]_vars
-----------------------------------------------------------------------------
TypeOK ==
  /\ n \in 0 .. MaxFrames /\ configs \in 0 .. MaxConfigs /\ truncated \in BOOLEAN
  /\ conf.codec \in {"none", "h264", "h265"} /\ Len(audioQ) <= AudioMax
  /\ status \in [Subs -> {"new", "on", "leaving", "gone"}]
  /\ \A s \in Subs : Len(ch[s]) <= SubCap

Stream(s) == got[s] \o ch[s]

(* The pictures of a session come in order and once, across the replay of the *)
(* cache and the live frames; it begins with the key frame of a valid cache;  *)
(* and if its channel was never full it misses none from its first picture    *)
(* to the newest (gb28181_hub.go:52-64, 105-111).                             *)
StreamInOrder ==
  \A s \in Active :
    LET st == Stream(s)
    IN /\ \A i, j \in DOMAIN st : i < j => st[i].n < st[j].n
       /\ owed[s] # 0 => st # <<>> /\ st[1].n = owed[s]
       /\ st # <<>> /\ ~overrun[s] =>
            \A k \in DOMAIN made : made[k].n >= st[1].n => \E i \in DOMAIN st : st[i] = made[k]

(* Whatever the cache holds of a binding with a key frame is its last group   *)
(* of pictures, from the key frame to the newest (gb28181_hub.go:84-103).     *)
CacheIsLastGOP == ~truncated /\ HasKey => gop = SubSeq(made, LastKey, Len(made))

(* Audio is neither lost nor reordered by the pictures that are dropped: the  *)
(* access units carry it in order and with the next picture that is kept, and *)
(* a frame that is missing is older than AudioMax others that came before any *)
(* picture after it                                                           *)
(* (gb28181_media.go:117-123, 146-149, 180-182).                              *)
Ascending(q) == \A i, j \in DOMAIN q : i < j => q[i] < q[j]
Among(a, q) == \E i \in DOMAIN q : q[i] = a
AudioKept ==
  /\ Ascending(audioQ) /\ \A k \in DOMAIN audioQ, j \in DOMAIN made : made[j].n < audioQ[k]
  /\ \A i \in DOMAIN made :
       LET q == made[i].audio IN
       /\ Ascending(q)
       /\ \A k \in DOMAIN q :
            q[k] < made[i].n /\ \A j \in DOMAIN made : made[j].n < made[i].n => made[j].n < q[k]
  /\ \A a \in heard : \/ Among(a, audioQ) \/ \E i \in DOMAIN made : Among(a, made[i].audio)
                      \/ Cardinality({x \in heard : x > a /\ \A j \in DOMAIN made :
                                        made[j].n > a => x < made[j].n}) >= AudioMax

(* "A new subscriber first gets the cache: the picture appears at once"       *)
(* (gb28181_hub.go:6-8): what a session gets first is a key frame of the      *)
(* stream that is bound.                                                      *)
ReplayStartsWithKey ==
  \A s \in Subs : Len(got[s]) > 0 => got[s][1].key
=============================================================================
