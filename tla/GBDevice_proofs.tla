---------------------------- MODULE GBDevice_proofs ----------------------------
(***************************************************************************)
(* What holds of a GB/T 28181 device behind its registration, for any number *)
(* of sessions, recordings, frames, subscribers and requests: the commands    *)
(* of the platform (GBMessages), the frames of an output (GBFrames), a        *)
(* playback (GBPlayback), the media sessions (GBSessions), and GBDevice,      *)
(* where all of them run.                                                    *)
(***************************************************************************)
EXTENDS GBDevice, SequenceTheorems, FiniteSetTheorems, TLAPS

(***************************************************************************)
(* A device never streams to two sessions at once, for any number of         *)
(* INVITEs, any offers and any configuration, but for sessions whose INVITEs *)
(* were handled beside each other.  The handler of an INVITE lets go of the  *)
(* server's lock several times.  The invariant says why nothing comes        *)
(* between that it does not know of: while a handler is under way, sessions  *)
(* apart that another handler raced with, nobody subscribes and the slot has *)
(* no context, so what the handler puts there displaces nothing; handlers    *)
(* that are under way together have raced; and a session numbered by a later *)
(* INVITE has neither goroutine nor kind yet.                                *)
(***************************************************************************)
Slots == [conn : 0 .. Invites, sub : 0 .. Invites, cancel : 0 .. Invites,
          tcp : 0 .. Invites, ln : 0 .. Invites, ctl : 0 .. Invites]
Runs == [Ids -> {"none", "over"} \cup Active]
Steps == [Ids -> {"idle", "asked"} \cup InHandler]

(* The part of TypeOK that the steps below need.                              *)
Shape ==
  /\ site \in Sites /\ last \in 0 .. Invites
  /\ kind \in [Ids -> {"none", "live", "playback", "talk", "cast"}]
  /\ slot \in Slots /\ run \in Runs /\ step \in Steps

(* Sessions are numbered in turn, and those under way have a number.          *)
Numbering ==
  /\ \A i \in Ids : i > last => step[i] = "idle" /\ kind[i] = "none"
  /\ \A i \in Ids : step[i] = "asked" => kind[i] = "cast"

Base == Shape /\ Numbering

(* Handlers that are under way together have raced; without a listener none   *)
(* has.                                                                       *)
Overlap ==
  /\ \A i, j \in Handling : i # j => i \in raced /\ j \in raced
  /\ ~Listener => raced = {}

(* While a handler is under way, and until it subscribes, nobody subscribes   *)
(* whose handler has not raced.                                               *)
HandlerAlone == Handling # {} => subs \ raced \subseteq {i \in Ids : step[i] = "subscribed"}

Alone == OneSubscriber /\ HandlerAlone

(* While a handler is under way the slot has no context to be displaced, but  *)
(* of a session that has raced; and its own session has no goroutine.         *)
SlotFree ==
  /\ \A i \in Ids : run[i] # "none" => i <= last
  /\ \A i \in Handling : run[i] = "none" /\ (slot.cancel = 0 \/ slot.cancel \in raced)

Turn == NoBroadcast => SlotFree /\ \A i \in Ids \ raced : Single(i)

IInv == Base /\ Overlap /\ Alone /\ Turn
-----------------------------------------------------------------------------
LEMMA InitInv == Init => IInv
  BY SessionsAssumption
  DEF Init, IInv, Base, Shape, Numbering, Overlap, Handling, InHandler, Alone, OneSubscriber,
      HandlerAlone, Turn, SlotFree, Single, Active, Empty, Ids, Slots, Runs, Steps

LEMMA SlotFields ==
  ASSUME NEW s \in Slots, NEW i \in Ids
  PROVE  /\ [s EXCEPT !.conn = i] \in Slots /\ [s EXCEPT !.sub = i] \in Slots
         /\ [s EXCEPT !.cancel = i] \in Slots /\ [s EXCEPT !.tcp = i] \in Slots
         /\ [s EXCEPT !.ln = i] \in Slots /\ [s EXCEPT !.cancel = i, !.ctl = i] \in Slots
         /\ [s EXCEPT !.conn = i, !.cancel = i] \in Slots
<1> i \in 0 .. Invites
  BY SessionsAssumption DEF Ids
<1> QED
  BY DEF Slots

LEMMA BaseStep == Base /\ [Next]_vars => Base'
<1> SUFFICES ASSUME Base, [Next]_vars PROVE Base'
  OBVIOUS
<1>a. ASSUME Shape, NEW offer \in site.offers PROVE offer.kind \in {"live", "playback", "talk"}
  BY <1>a, SessionsAssumption DEF Shape
<1> USE SessionsAssumption DEF Base, Shape, Numbering, Ids, Active, InHandler
<1>1. CASE \E offer \in site.offers : Invite(offer)
  <2>1. PICK offer \in site.offers : Invite(offer)
    BY <1>1
  <2>2. offer.kind \in {"live", "playback", "talk"}
    BY <1>a
  <2> QED
    BY <2>1, <2>2, SessionsAssumption DEF Invite, Teardown, MediaOf, Empty, SocketsOf, Goes, Steps, Slots
<1>2. CASE \E i \in Ids : BindListener(i)
  <2>1. PICK i \in Ids : BindListener(i)
    BY <1>2
  <2>2. slot' \in Slots
    BY <2>1, SlotFields DEF BindListener
  <2>3. run' \in Runs
    BY <2>1 DEF BindListener, Runs
  <2> QED
    BY <2>1, <2>2, <2>3 DEF BindListener, Goes, Steps
<1>3. CASE \E i \in Ids : BindMedia(i)
  <2>1. PICK i \in Ids : BindMedia(i)
    BY <1>3
  <2>2. slot' \in Slots
    BY <2>1, SlotFields DEF BindMedia
  <2>3. run' \in Runs
    BY <2>1 DEF BindMedia, Runs
  <2> QED
    BY <2>1, <2>2, <2>3 DEF BindMedia, Goes, Steps
<1>4. CASE \E i \in Ids : GiveUp(i)
  BY <1>4 DEF GiveUp, Goes, Steps
<1>5. CASE \E i \in Ids : Answer(i)
  BY <1>5 DEF Answer, Goes, Steps
<1>6. CASE \E i \in Ids : Dial(i)
  <2>1. PICK i \in Ids : Dial(i)
    BY <1>6
  <2>2. slot' \in Slots
    BY <2>1, SlotFields DEF Dial
  <2>3. run' \in Runs
    BY <2>1 DEF Dial, Runs
  <2> QED
    BY <2>1, <2>2, <2>3 DEF Dial, Goes, Steps
<1>7. CASE \E i \in Ids : Subscribe(i)
  <2>1. PICK i \in Ids : Subscribe(i)
    BY <1>7
  <2>2. slot' \in Slots
    BY <2>1, SlotFields DEF Subscribe
  <2>3. run' \in Runs
    BY <2>1 DEF Subscribe, Runs
  <2> QED
    BY <2>1, <2>2, <2>3 DEF Subscribe, Goes, Steps
<1>8. CASE \E i \in Ids : StartLive(i)
  <2>1. PICK i \in Ids : StartLive(i)
    BY <1>8
  <2>2. slot' \in Slots
    BY <2>1, SlotFields DEF StartLive
  <2>3. run' \in Runs
    BY <2>1 DEF StartLive, Launch, Runs
  <2> QED
    BY <2>1, <2>2, <2>3 DEF StartLive, Goes, Steps
<1>9. CASE \E i \in Ids : StartPlayback(i)
  <2>1. PICK i \in Ids : StartPlayback(i)
    BY <1>9
  <2>2. slot' \in Slots
    BY <2>1, SlotFields DEF StartPlayback
  <2>3. run' \in Runs
    BY <2>1 DEF StartPlayback, Launch, Runs
  <2> QED
    BY <2>1, <2>2, <2>3 DEF StartPlayback, Goes, Steps
<1>10. CASE \E i \in Ids : AnswerTalk(i)
  BY <1>10 DEF AnswerTalk, Goes, Steps
<1>11. CASE \E i \in Ids : StartTalk(i)
  <2>1. PICK i \in Ids : StartTalk(i)
    BY <1>11
  <2>2. slot' \in Slots
    BY <2>1, SlotFields DEF StartTalk
  <2>3. run' \in Runs
    BY <2>1 DEF StartTalk, Launch, Runs
  <2> QED
    BY <2>1, <2>2, <2>3 DEF StartTalk, Goes, Steps
<1>12. CASE \E i \in Ids : Bye(i)
  BY <1>12 DEF Bye, Teardown, Empty, SocketsOf, Slots
<1>13. CASE \E c \in {"PAUSE", "PLAY"} : Info(c)
  BY <1>13 DEF Info
<1>14. CASE \E c \in {"PAUSE", "PLAY"}, i \in Ids : InfoSends(i, c)
  BY <1>14 DEF InfoSends
<1>15. CASE \E i \in Ids : PlatformDials(i)
  BY <1>15 DEF PlatformDials
<1>16. CASE \E i \in Ids : TakeConn(i)
  <2>1. PICK i \in Ids : TakeConn(i)
    BY <1>16
  <2>2. slot' \in Slots
    BY <2>1, SlotFields DEF TakeConn
  <2>3. run' \in Runs
    BY <2>1 DEF TakeConn, Runs
  <2> QED
    BY <2>1, <2>2, <2>3 DEF TakeConn
<1>17. CASE \E i \in Ids : AcceptEnds(i)
  BY <1>17 DEF AcceptEnds, Exit, Done, Runs
<1>18. CASE \E i \in Ids : LiveEnds(i)
  BY <1>18 DEF LiveEnds, Exit, Done, Runs
<1>19. CASE \E i \in Ids : Unsubscribe(i)
  BY <1>19 DEF Unsubscribe
<1>20. CASE \E i \in Ids : TalkEnds(i)
  BY <1>20 DEF TalkEnds, Exit, Runs
<1>21. CASE \E i \in Ids : Control(i)
  BY <1>21 DEF Control, Runs
<1>22. CASE \E i \in Ids : PlaybackEnds(i)
  BY <1>22 DEF PlaybackEnds, Exit, Done, Runs
<1>23. CASE \E i \in Ids : CastAnswered(i)
  <2>1. PICK i \in Ids : CastAnswered(i)
    BY <1>23
  <2>2. slot' \in Slots
    BY <2>1, SlotFields DEF CastAnswered
  <2>3. run' \in Runs
    BY <2>1 DEF CastAnswered, Runs
  <2> QED
    BY <2>1, <2>2, <2>3 DEF CastAnswered, Goes, Steps
<1>24. CASE \E i \in Ids : CastFails(i)
  BY <1>24 DEF CastFails, Goes, Steps
<1>25. CASE CastBegins
  BY <1>25 DEF CastBegins, Empty, SocketsOf, Goes, Steps, Slots
<1>26. CASE StopCancels
  BY <1>26 DEF StopCancels
<1>27. CASE StopCloses
  BY <1>27 DEF StopCloses
<1>28. CASE StopSip
  BY <1>28 DEF StopSip
<1>29. CASE UNCHANGED vars
  BY <1>29 DEF vars
<1> QED
  BY <1>1, <1>2, <1>3, <1>4, <1>5, <1>6, <1>7, <1>8, <1>9, <1>10, <1>11, <1>12, <1>13,
    <1>14, <1>15, <1>16, <1>17, <1>18, <1>19, <1>20, <1>21, <1>22, <1>23, <1>24,
    <1>25, <1>26, <1>27, <1>28, <1>29 DEF Next
-----------------------------------------------------------------------------
(* Only an INVITE lets a handler in, and marks those it finds.                *)
LEMMA OverlapStep == Base /\ Overlap /\ [Next]_vars => Overlap'
<1> SUFFICES ASSUME Base, Overlap, [Next]_vars PROVE Overlap'
  OBVIOUS
<1> USE DEF Base, Shape, Overlap, Handling, InHandler, MayHandle, Listener, Ids
<1>1. CASE \E offer \in site.offers : Invite(offer)
  BY <1>1 DEF Invite, Teardown, MediaOf, Empty, SocketsOf, Goes, Steps
<1>2. CASE \E i \in Ids : BindListener(i)
  BY <1>2 DEF BindListener, Goes, Steps
<1>3. CASE \E i \in Ids : BindMedia(i)
  BY <1>3 DEF BindMedia, Goes, Steps
<1>4. CASE \E i \in Ids : GiveUp(i)
  BY <1>4 DEF GiveUp, Goes, Steps
<1>5. CASE \E i \in Ids : Answer(i)
  BY <1>5 DEF Answer, Goes, Steps
<1>6. CASE \E i \in Ids : Dial(i)
  BY <1>6 DEF Dial, Goes, Steps
<1>7. CASE \E i \in Ids : Subscribe(i)
  BY <1>7 DEF Subscribe, Goes, Steps
<1>8. CASE \E i \in Ids : StartLive(i)
  BY <1>8 DEF StartLive, Launch, Goes, Steps
<1>9. CASE \E i \in Ids : StartPlayback(i)
  BY <1>9 DEF StartPlayback, Launch, Goes, Steps
<1>10. CASE \E i \in Ids : AnswerTalk(i)
  BY <1>10 DEF AnswerTalk, Goes, Steps
<1>11. CASE \E i \in Ids : StartTalk(i)
  BY <1>11 DEF StartTalk, Launch, Goes, Steps
<1>12. CASE \E i \in Ids : Bye(i)
  BY <1>12 DEF Bye, Teardown, Empty, SocketsOf
<1>13. CASE \E c \in {"PAUSE", "PLAY"} : Info(c)
  BY <1>13 DEF Info
<1>14. CASE \E c \in {"PAUSE", "PLAY"}, i \in Ids : InfoSends(i, c)
  BY <1>14 DEF InfoSends
<1>15. CASE \E i \in Ids : PlatformDials(i)
  BY <1>15 DEF PlatformDials
<1>16. CASE \E i \in Ids : TakeConn(i)
  BY <1>16 DEF TakeConn
<1>17. CASE \E i \in Ids : AcceptEnds(i)
  BY <1>17 DEF AcceptEnds, Exit, Done
<1>18. CASE \E i \in Ids : LiveEnds(i)
  BY <1>18 DEF LiveEnds, Exit, Done
<1>19. CASE \E i \in Ids : Unsubscribe(i)
  BY <1>19 DEF Unsubscribe
<1>20. CASE \E i \in Ids : TalkEnds(i)
  BY <1>20 DEF TalkEnds, Exit
<1>21. CASE \E i \in Ids : Control(i)
  BY <1>21 DEF Control
<1>22. CASE \E i \in Ids : PlaybackEnds(i)
  BY <1>22 DEF PlaybackEnds, Exit, Done
<1>23. CASE \E i \in Ids : CastAnswered(i)
  BY <1>23 DEF CastAnswered, Goes, Steps
<1>24. CASE \E i \in Ids : CastFails(i)
  BY <1>24 DEF CastFails, Goes, Steps
<1>25. CASE CastBegins
  BY <1>25 DEF CastBegins, Empty, SocketsOf, Goes, Steps
<1>26. CASE StopCancels
  BY <1>26 DEF StopCancels
<1>27. CASE StopCloses
  BY <1>27 DEF StopCloses
<1>28. CASE StopSip
  BY <1>28 DEF StopSip
<1>29. CASE UNCHANGED vars
  BY <1>29 DEF vars
<1> QED
  BY <1>1, <1>2, <1>3, <1>4, <1>5, <1>6, <1>7, <1>8, <1>9, <1>10, <1>11, <1>12, <1>13,
    <1>14, <1>15, <1>16, <1>17, <1>18, <1>19, <1>20, <1>21, <1>22, <1>23, <1>24,
    <1>25, <1>26, <1>27, <1>28, <1>29 DEF Next
-----------------------------------------------------------------------------
(* A teardown takes the only subscription away of a session that has not      *)
(* raced.                                                                     *)
LEMMA TeardownUnsubscribes ==
  ASSUME OneSubscriber, Teardown PROVE subs' \subseteq raced
  BY DEF OneSubscriber, Teardown

LEMMA AloneStep == Base /\ Overlap /\ Alone /\ [Next]_vars => Alone'
<1> SUFFICES ASSUME Base, Overlap, Alone, [Next]_vars PROVE Alone'
  OBVIOUS
<1> USE DEF Base, Shape, Overlap, Alone, OneSubscriber, HandlerAlone, Handling, InHandler, Ids
<1>1. CASE \E offer \in site.offers : Invite(offer)
  BY <1>1, TeardownUnsubscribes DEF Invite, Goes, Steps
<1>2. CASE \E i \in Ids : BindListener(i)
  BY <1>2 DEF BindListener, Goes, Steps, Slots
<1>3. CASE \E i \in Ids : BindMedia(i)
  BY <1>3 DEF BindMedia, Goes, Steps, Slots
<1>4. CASE \E i \in Ids : GiveUp(i)
  BY <1>4 DEF GiveUp, Goes, Steps
<1>5. CASE \E i \in Ids : Answer(i)
  BY <1>5 DEF Answer, Goes, Steps
<1>6. CASE \E i \in Ids : Dial(i)
  BY <1>6 DEF Dial, Goes, Steps, Slots
<1>7. CASE \E i \in Ids : Subscribe(i)
  <2>1. PICK i \in Ids : Subscribe(i)
    BY <1>7
  <2>2. /\ step[i] = "dialled" /\ step' = [step EXCEPT ![i] = "subscribed"]
        /\ subs' = subs \cup {i} /\ slot'.sub = i /\ UNCHANGED raced
    BY <2>1 DEF Subscribe, Goes, Slots
  <2>3. i \in Handling /\ subs \ raced \subseteq Handling
    BY <2>2
  <2>4. subs' \ raced' \subseteq {i}
    BY <2>2, <2>3
  <2> QED
    BY <2>2, <2>4 DEF Steps
<1>8. CASE \E i \in Ids : StartLive(i)
  BY <1>8 DEF StartLive, Launch, Goes, Steps, Slots
<1>9. CASE \E i \in Ids : StartPlayback(i)
  BY <1>9 DEF StartPlayback, Launch, Goes, Steps, Slots
<1>10. CASE \E i \in Ids : AnswerTalk(i)
  BY <1>10 DEF AnswerTalk, Goes, Steps
<1>11. CASE \E i \in Ids : StartTalk(i)
  BY <1>11 DEF StartTalk, Launch, Goes, Steps, Slots
<1>12. CASE \E i \in Ids : Bye(i)
  BY <1>12, TeardownUnsubscribes DEF Bye
<1>13. CASE \E c \in {"PAUSE", "PLAY"} : Info(c)
  BY <1>13 DEF Info
<1>14. CASE \E c \in {"PAUSE", "PLAY"}, i \in Ids : InfoSends(i, c)
  BY <1>14 DEF InfoSends
<1>15. CASE \E i \in Ids : PlatformDials(i)
  BY <1>15 DEF PlatformDials
<1>16. CASE \E i \in Ids : TakeConn(i)
  BY <1>16 DEF TakeConn, Slots
<1>17. CASE \E i \in Ids : AcceptEnds(i)
  BY <1>17 DEF AcceptEnds, Exit, Done
<1>18. CASE \E i \in Ids : LiveEnds(i)
  BY <1>18 DEF LiveEnds, Exit, Done
<1>19. CASE \E i \in Ids : Unsubscribe(i)
  BY <1>19 DEF Unsubscribe
<1>20. CASE \E i \in Ids : TalkEnds(i)
  BY <1>20 DEF TalkEnds, Exit
<1>21. CASE \E i \in Ids : Control(i)
  BY <1>21 DEF Control
<1>22. CASE \E i \in Ids : PlaybackEnds(i)
  BY <1>22 DEF PlaybackEnds, Exit, Done
<1>23. CASE \E i \in Ids : CastAnswered(i)
  BY <1>23 DEF CastAnswered, Goes, Steps, Slots
<1>24. CASE \E i \in Ids : CastFails(i)
  BY <1>24 DEF CastFails, Goes, Steps
<1>25. CASE CastBegins
  BY <1>25 DEF CastBegins, Empty, SocketsOf, Goes, Steps, Slots
<1>26. CASE StopCancels
  BY <1>26 DEF StopCancels
<1>27. CASE StopCloses
  BY <1>27 DEF StopCloses
<1>28. CASE StopSip
  BY <1>28 DEF StopSip
<1>29. CASE UNCHANGED vars
  BY <1>29 DEF vars
<1> QED
  BY <1>1, <1>2, <1>3, <1>4, <1>5, <1>6, <1>7, <1>8, <1>9, <1>10, <1>11, <1>12, <1>13,
    <1>14, <1>15, <1>16, <1>17, <1>18, <1>19, <1>20, <1>21, <1>22, <1>23, <1>24,
    <1>25, <1>26, <1>27, <1>28, <1>29 DEF Next
-----------------------------------------------------------------------------
(* Kinds are given once, so a broadcast is never forgotten.                   *)
LEMMA BroadcastsStay == Base /\ [Next]_vars /\ NoBroadcast' => NoBroadcast
<1> SUFFICES ASSUME Base, [Next]_vars, NoBroadcast' PROVE NoBroadcast
  OBVIOUS
<1> USE SessionsAssumption DEF Base, Shape, Numbering, NoBroadcast, Ids
<1>1. CASE \E offer \in site.offers : Invite(offer)
  BY <1>1 DEF Invite, Teardown, MediaOf, Empty, SocketsOf, Goes
<1>2. CASE \E i \in Ids : BindListener(i)
  BY <1>2 DEF BindListener, Goes
<1>3. CASE \E i \in Ids : BindMedia(i)
  BY <1>3 DEF BindMedia, Goes
<1>4. CASE \E i \in Ids : GiveUp(i)
  BY <1>4 DEF GiveUp, Goes
<1>5. CASE \E i \in Ids : Answer(i)
  BY <1>5 DEF Answer, Goes
<1>6. CASE \E i \in Ids : Dial(i)
  BY <1>6 DEF Dial, Goes
<1>7. CASE \E i \in Ids : Subscribe(i)
  BY <1>7 DEF Subscribe, Goes
<1>8. CASE \E i \in Ids : StartLive(i)
  BY <1>8 DEF StartLive, Launch, Goes
<1>9. CASE \E i \in Ids : StartPlayback(i)
  BY <1>9 DEF StartPlayback, Launch, Goes
<1>10. CASE \E i \in Ids : AnswerTalk(i)
  BY <1>10 DEF AnswerTalk, Goes
<1>11. CASE \E i \in Ids : StartTalk(i)
  BY <1>11 DEF StartTalk, Launch, Goes
<1>12. CASE \E i \in Ids : Bye(i)
  BY <1>12 DEF Bye, Teardown, Empty, SocketsOf
<1>13. CASE \E c \in {"PAUSE", "PLAY"} : Info(c)
  BY <1>13 DEF Info
<1>14. CASE \E c \in {"PAUSE", "PLAY"}, i \in Ids : InfoSends(i, c)
  BY <1>14 DEF InfoSends
<1>15. CASE \E i \in Ids : PlatformDials(i)
  BY <1>15 DEF PlatformDials
<1>16. CASE \E i \in Ids : TakeConn(i)
  BY <1>16 DEF TakeConn
<1>17. CASE \E i \in Ids : AcceptEnds(i)
  BY <1>17 DEF AcceptEnds, Exit, Done
<1>18. CASE \E i \in Ids : LiveEnds(i)
  BY <1>18 DEF LiveEnds, Exit, Done
<1>19. CASE \E i \in Ids : Unsubscribe(i)
  BY <1>19 DEF Unsubscribe
<1>20. CASE \E i \in Ids : TalkEnds(i)
  BY <1>20 DEF TalkEnds, Exit
<1>21. CASE \E i \in Ids : Control(i)
  BY <1>21 DEF Control
<1>22. CASE \E i \in Ids : PlaybackEnds(i)
  BY <1>22 DEF PlaybackEnds, Exit, Done
<1>23. CASE \E i \in Ids : CastAnswered(i)
  BY <1>23 DEF CastAnswered, Goes
<1>24. CASE \E i \in Ids : CastFails(i)
  BY <1>24 DEF CastFails, Goes
<1>25. CASE CastBegins
  BY <1>25 DEF CastBegins, Empty, SocketsOf, Goes
<1>26. CASE StopCancels
  BY <1>26 DEF StopCancels
<1>27. CASE StopCloses
  BY <1>27 DEF StopCloses
<1>28. CASE StopSip
  BY <1>28 DEF StopSip
<1>29. CASE UNCHANGED vars
  BY <1>29 DEF vars
<1> QED
  BY <1>1, <1>2, <1>3, <1>4, <1>5, <1>6, <1>7, <1>8, <1>9, <1>10, <1>11, <1>12, <1>13,
    <1>14, <1>15, <1>16, <1>17, <1>18, <1>19, <1>20, <1>21, <1>22, <1>23, <1>24,
    <1>25, <1>26, <1>27, <1>28, <1>29 DEF Next
-----------------------------------------------------------------------------
LEMMA TurnStep == Base /\ Overlap /\ Turn /\ [Next]_vars => Turn'
<1> SUFFICES ASSUME Base, Overlap, Turn, [Next]_vars, NoBroadcast'
             PROVE  SlotFree' /\ \A i \in (Ids \ raced)' : Single(i)'
  BY DEF Turn
<1>a. NoBroadcast /\ SlotFree /\ \A i \in Ids \ raced : Single(i)
  BY BroadcastsStay DEF Turn
<1> USE SessionsAssumption, <1>a
    DEF Base, Shape, Numbering, Overlap, SlotFree, Single, Ending, Done, NoBroadcast, Ids, Active,
        Handling, InHandler
<1>1. CASE \E offer \in site.offers : Invite(offer)
  BY <1>1 DEF Invite, Teardown, MediaOf, Empty, SocketsOf, Goes, Steps, Slots
<1>2. CASE \E i \in Ids : BindListener(i)
  BY <1>2 DEF BindListener, Goes, Steps, Slots
<1>3. CASE \E i \in Ids : BindMedia(i)
  BY <1>3 DEF BindMedia, Goes, Steps, Slots
<1>4. CASE \E i \in Ids : GiveUp(i)
  BY <1>4 DEF GiveUp, Goes, Steps
<1>5. CASE \E i \in Ids : Answer(i)
  BY <1>5 DEF Answer, Goes, Steps
<1>6. CASE \E i \in Ids : Dial(i)
  BY <1>6 DEF Dial, Goes, Steps, Slots
<1>7. CASE \E i \in Ids : Subscribe(i)
  BY <1>7 DEF Subscribe, Goes, Steps, Slots
<1>8. CASE \E i \in Ids : StartLive(i)
  BY <1>8 DEF StartLive, Launch, Goes, Steps, Slots, Runs
<1>9. CASE \E i \in Ids : StartPlayback(i)
  BY <1>9 DEF StartPlayback, Launch, Goes, Steps, Slots, Runs
<1>10. CASE \E i \in Ids : AnswerTalk(i)
  BY <1>10 DEF AnswerTalk, Goes, Steps
<1>11. CASE \E i \in Ids : StartTalk(i)
  BY <1>11 DEF StartTalk, Launch, Goes, Steps, Slots, Runs
<1>12. CASE \E i \in Ids : Bye(i)
  BY <1>12 DEF Bye, Teardown, Empty, SocketsOf, Slots
<1>13. CASE \E c \in {"PAUSE", "PLAY"} : Info(c)
  BY <1>13 DEF Info
<1>14. CASE \E c \in {"PAUSE", "PLAY"}, i \in Ids : InfoSends(i, c)
  BY <1>14 DEF InfoSends
<1>15. CASE \E i \in Ids : PlatformDials(i)
  BY <1>15 DEF PlatformDials
<1>16. CASE \E i \in Ids : TakeConn(i)
  BY <1>16 DEF TakeConn, Slots, Runs
<1>17. CASE \E i \in Ids : AcceptEnds(i)
  BY <1>17 DEF AcceptEnds, Exit, Done, Runs
<1>18. CASE \E i \in Ids : LiveEnds(i)
  BY <1>18 DEF LiveEnds, Exit, Done, Runs
<1>19. CASE \E i \in Ids : Unsubscribe(i)
  BY <1>19 DEF Unsubscribe
<1>20. CASE \E i \in Ids : TalkEnds(i)
  BY <1>20 DEF TalkEnds, Exit, Runs
<1>21. CASE \E i \in Ids : Control(i)
  BY <1>21 DEF Control, Runs
<1>22. CASE \E i \in Ids : PlaybackEnds(i)
  BY <1>22 DEF PlaybackEnds, Exit, Done, Runs
<1>23. CASE \E i \in Ids : CastAnswered(i)
  BY <1>23 DEF CastAnswered, Goes, Steps, Slots, Runs
<1>24. CASE \E i \in Ids : CastFails(i)
  BY <1>24 DEF CastFails, Goes, Steps
<1>25. CASE CastBegins
  BY <1>25 DEF CastBegins, Empty, SocketsOf, Goes, Steps, Slots
<1>26. CASE StopCancels
  BY <1>26 DEF StopCancels
<1>27. CASE StopCloses
  BY <1>27 DEF StopCloses
<1>28. CASE StopSip
  BY <1>28 DEF StopSip
<1>29. CASE UNCHANGED vars
  BY <1>29 DEF vars
<1> QED
  BY <1>1, <1>2, <1>3, <1>4, <1>5, <1>6, <1>7, <1>8, <1>9, <1>10, <1>11, <1>12, <1>13,
    <1>14, <1>15, <1>16, <1>17, <1>18, <1>19, <1>20, <1>21, <1>22, <1>23, <1>24,
    <1>25, <1>26, <1>27, <1>28, <1>29 DEF Next
-----------------------------------------------------------------------------
LEMMA Invariant == Spec => []IInv
<1>1. Init => IInv
  BY InitInv
<1>2. IInv /\ [Next]_vars => IInv'
  BY BaseStep, OverlapStep, AloneStep, TurnStep DEF IInv
<1> QED
  BY <1>1, <1>2, PTL DEF Spec

(* A repeated INVITE, a BYE, a Stop or the end of a session never leaves a    *)
(* second subscription behind, nor, without broadcasts, a second goroutine    *)
(* that goes on streaming (teardownMediaLocked, server.go:1570), of sessions  *)
(* whose INVITE was not handled beside another one.                           *)
THEOREM NeverTwoStreams == Spec => []OneStream
<1>1. IInv => OneStream
  BY DEF IInv, Alone, Turn, OneStream
<1> QED
  BY <1>1, Invariant, PTL

(* Without the inbound listener one goroutine handles all requests, no        *)
(* handlers race, and so the above is so of every session: who subscribes is  *)
(* the session of the slot and, without broadcasts, an INVITE leaks no        *)
(* goroutine (server.go:1676-1679).                                           *)
THEOREM InTurnNothingLeaks ==
  Spec => [](~Listener => (\A i \in subs : slot.sub = i) /\ InviteLeaksNothing)
<1>1. IInv => (~Listener => (\A i \in subs : slot.sub = i) /\ InviteLeaksNothing)
  BY DEF IInv, Overlap, Alone, OneSubscriber, Turn, InviteLeaksNothing
<1> QED
  BY <1>1, Invariant, PTL

-----------------------------------------------------------------------------

(***************************************************************************)
(* One report loop at most, however the SUBSCRIBEs of the connections        *)
(* interleave.  restartPositionLoop puts its channel in place under the lock *)
(* and closes the one it found there after the unlock.  Why that is enough:  *)
(* a channel that is not the current one is closed, or one receiver is about *)
(* to close it; and the channel to be put in place is nobody's yet.          *)
(***************************************************************************)
(* The number of the request that a receiver is busy with.                    *)
Nr(h) == doing[h].n

LoopShape ==
  /\ received \in 0 .. MaxRequests /\ current \in 0 .. received /\ closed \subseteq 0 .. received
  /\ pc \in [Receivers -> {"idle", "swap", "close", "send"}]
  /\ old \in [Receivers -> 0 .. received]
  /\ DOMAIN doing = Receivers
  /\ loops \in [1 .. MaxRequests -> {"none", "running", "ended"}]

(* Requests are numbered one by one, and a loop has the number of its own.    *)
Numbered ==
  /\ \A h \in Receivers : pc[h] # "idle" => Nr(h) \in 1 .. received
  /\ \A h, k \in Receivers : pc[h] # "idle" /\ pc[k] # "idle" /\ h # k => Nr(h) # Nr(k)
  /\ \A i \in 1 .. MaxRequests : i > received => loops[i] = "none"

(* Somebody is about to close channel i.                                      *)
Doomed(i) == \E k \in Receivers : pc[k] = "close" /\ old[k] = i

(* A channel not yet in place is known to nobody.                             *)
Swapping ==
  \A h \in Receivers : pc[h] = "swap" => Nr(h) # current /\ Nr(h) \notin closed /\ ~Doomed(Nr(h))

(* A channel in place is the current one, or closed, or about to be.          *)
Closing ==
  \A h \in Receivers : pc[h] = "close" =>
    /\ old[h] # current
    /\ Nr(h) = current \/ Nr(h) \in closed \/ Doomed(Nr(h))

Loops ==
  \A i \in 1 .. MaxRequests :
    loops[i] = "running" => i = current \/ i \in closed \/ Doomed(i)

Newest ==
  /\ current \notin closed
  /\ current # 0 => \/ loops[current] = "running"
                    \/ \E h \in Receivers : pc[h] = "close" /\ Nr(h) = current

LoopInv == LoopShape /\ Numbered /\ Swapping /\ Closing /\ Loops /\ Newest
-----------------------------------------------------------------------------
LEMMA InitLoops == ASSUME MaxRequests \in Nat PROVE M!Init => LoopInv
  BY DEF M!Init, LoopInv, LoopShape, Numbered, Swapping, Closing, Loops, Newest, Doomed, Nr

(* A step that leaves the report loops alone and takes nobody into the swap.  *)
LEMMA ApartStep ==
  ASSUME MaxRequests \in Nat, LoopInv, UNCHANGED <<received, doing, old, M!reports>>,
         pc' \in [Receivers -> {"idle", "swap", "close", "send"}],
         \A h \in Receivers : pc'[h] = pc[h] \/ (pc[h] = "send" /\ pc'[h] = "idle")
  PROVE  LoopInv'
<1> USE DEF M!reports
<1>1. LoopShape' /\ Numbered'
  BY DEF LoopInv, LoopShape, Numbered, Nr
<1>2. \A i : Doomed(i)' <=> Doomed(i)
  BY DEF Doomed
<1>3. Swapping' /\ Closing' /\ Loops'
  BY <1>2 DEF LoopInv, Swapping, Closing, Loops, Nr
<1>4. Newest'
  BY DEF LoopInv, Newest, Nr
<1> QED
  BY <1>1, <1>3, <1>4 DEF LoopInv

(* A request begins.                                                          *)
LEMMA ReceiveLoops ==
  ASSUME MaxRequests \in Nat, LoopInv, NEW h \in Receivers, NEW r, M!Receive(h, r)
  PROVE  LoopInv'
<1>1. /\ pc[h] = "idle" /\ received < MaxRequests /\ received' = received + 1
      /\ UNCHANGED <<old, current, loops, closed>>
  BY DEF M!Receive, M!Idle, M!reports
<1>2. doing' = [doing EXCEPT ![h] = [n |-> received + 1, kind |-> r.kind, items |-> r.items]]
  BY DEF M!Receive
<1>3. pc' = [pc EXCEPT ![h] = "swap"] \/ pc' = [pc EXCEPT ![h] = "send"]
  BY DEF M!Receive
<1>4. Nr(h)' = received + 1 /\ \A k \in Receivers : k # h => Nr(k)' = Nr(k) /\ pc'[k] = pc[k]
  BY <1>2, <1>3 DEF LoopInv, LoopShape, Nr
<1>5. LoopShape'
  <2>1. received' \in 0 .. MaxRequests /\ 0 .. received \subseteq 0 .. received' /\ received \in Nat
    BY <1>1 DEF LoopInv, LoopShape
  <2>2. pc' \in [Receivers -> {"idle", "swap", "close", "send"}] /\ DOMAIN doing' = Receivers
    BY <1>2, <1>3 DEF LoopInv, LoopShape
  <2>3. old' \in [Receivers -> 0 .. received']
    BY <1>1, <2>1 DEF LoopInv, LoopShape
  <2>4. current' \in 0 .. received' /\ closed' \subseteq 0 .. received' /\ loops' = loops
    BY <1>1, <2>1 DEF LoopInv, LoopShape
  <2> QED
    BY <2>1, <2>2, <2>3, <2>4 DEF LoopInv, LoopShape
<1>6. Numbered'
  <2>1. received \in Nat /\ received' = received + 1
    BY <1>1 DEF LoopInv, LoopShape
  <2>2. ASSUME NEW k \in Receivers, pc'[k] # "idle"
        PROVE  Nr(k)' \in 1 .. received' /\ (k # h => Nr(k)' <= received)
    <3>1. CASE k = h
      BY <1>4, <2>1, <3>1
    <3>2. CASE k # h
      <4>1. pc[k] # "idle" /\ Nr(k)' = Nr(k)
        BY <1>4, <2>2, <3>2
      <4>2. Nr(k) \in 1 .. received
        BY <4>1 DEF LoopInv, Numbered
      <4> QED
        BY <2>1, <4>1, <4>2
    <3> QED
      BY <3>1, <3>2
  <2>3. ASSUME NEW j \in Receivers, NEW k \in Receivers, pc'[j] # "idle", pc'[k] # "idle", j # k
        PROVE  Nr(j)' # Nr(k)'
    <3>1. CASE j = h
      BY <1>4, <2>1, <2>2, <2>3, <3>1
    <3>2. CASE k = h
      BY <1>4, <2>1, <2>2, <2>3, <3>2
    <3>3. CASE j # h /\ k # h
      BY <1>4, <2>3, <3>3 DEF LoopInv, Numbered
    <3> QED
      BY <3>1, <3>2, <3>3
  <2>4. \A i \in 1 .. MaxRequests : i > received' => loops'[i] = "none"
    BY <1>1, <2>1 DEF LoopInv, Numbered
  <2> QED
    BY <2>2, <2>3, <2>4 DEF Numbered
<1>7. \A i : Doomed(i)' <=> Doomed(i)
  BY <1>1, <1>3 DEF LoopInv, LoopShape, Doomed
<1>8. ~Doomed(received + 1) /\ received + 1 # current /\ received + 1 \notin closed
  BY DEF LoopInv, LoopShape, Doomed
<1>9. Swapping'
  BY <1>1, <1>3, <1>4, <1>7, <1>8 DEF LoopInv, Swapping
<1>10. Closing'
  BY <1>1, <1>3, <1>4, <1>7 DEF LoopInv, LoopShape, Closing
<1>11. Loops' /\ Newest'
  BY <1>1, <1>3, <1>4, <1>7 DEF LoopInv, LoopShape, Loops, Newest
<1> QED
  BY <1>5, <1>6, <1>9, <1>10, <1>11 DEF LoopInv

(* The channel is put in place; the one it replaced is now doomed.            *)
LEMMA SwapLoops ==
  ASSUME MaxRequests \in Nat, LoopInv, NEW h \in Receivers, M!SwapLoop(h)
  PROVE  LoopInv'
<1>1. /\ pc[h] = "swap" /\ pc' = [pc EXCEPT ![h] = "close"]
      /\ old' = [old EXCEPT ![h] = current] /\ current' = Nr(h)
      /\ UNCHANGED <<received, doing, loops, closed>>
  BY DEF M!SwapLoop, Nr
<1>2. Nr(h) \in 1 .. received /\ \A k \in Receivers : Nr(k)' = Nr(k)
  BY <1>1 DEF LoopInv, LoopShape, Numbered, Nr
<1>3. LoopShape' /\ Numbered'
  BY <1>1, <1>2 DEF LoopInv, LoopShape, Numbered
<1>4. \A i : Doomed(i)' <=> Doomed(i) \/ i = current
  BY <1>1 DEF LoopInv, LoopShape, Doomed
<1>5. Swapping'
  BY <1>1, <1>2, <1>4 DEF LoopInv, LoopShape, Numbered, Swapping
<1>6. Closing'
  <2> SUFFICES ASSUME NEW k \in Receivers, pc'[k] = "close"
               PROVE  /\ old'[k] # current'
                      /\ Nr(k)' = current' \/ Nr(k)' \in closed' \/ Doomed(Nr(k))'
    BY <1>2, <1>4 DEF Closing, Doomed
  <2>1. CASE k = h
    BY <1>1, <1>2, <2>1 DEF LoopInv, LoopShape, Swapping
  <2>2. CASE k # h
    <3>1. pc[k] = "close" /\ old'[k] = old[k]
      BY <1>1, <2>2 DEF LoopInv, LoopShape
    <3>2. old[k] # Nr(h)
      BY <1>1, <3>1 DEF LoopInv, Swapping, Doomed
    <3> QED
      BY <1>1, <1>2, <1>4, <3>1, <3>2 DEF LoopInv, Closing
  <2> QED
    BY <2>1, <2>2
<1>7. Loops'
  BY <1>1, <1>4 DEF LoopInv, Loops
<1>8. Newest'
  BY <1>1, <1>2 DEF LoopInv, LoopShape, Swapping, Newest
<1> QED
  BY <1>3, <1>5, <1>6, <1>7, <1>8 DEF LoopInv

(* The channel that was replaced is closed, and the loop starts.              *)
LEMMA CloseLoops ==
  ASSUME MaxRequests \in Nat, LoopInv, NEW h \in Receivers, M!CloseOld(h)
  PROVE  LoopInv'
<1>1. /\ pc[h] = "close" /\ pc' = [pc EXCEPT ![h] = "send"]
      /\ closed' = closed \cup {old[h]}
      /\ loops' = [loops EXCEPT ![Nr(h)] = "running"]
      /\ UNCHANGED <<received, doing, old, current>>
  BY DEF M!CloseOld, M!Replaced, Nr
<1>2. Nr(h) \in 1 .. received /\ \A k \in Receivers : Nr(k)' = Nr(k)
  BY <1>1 DEF LoopInv, LoopShape, Numbered, Nr
<1>3. LoopShape' /\ Numbered'
  <2>1. closed' \subseteq 0 .. received'
    BY <1>1 DEF LoopInv, LoopShape
  <2>2. LoopShape'
    BY <1>1, <2>1 DEF LoopInv, LoopShape
  <2>3. Numbered'
    BY <1>1, <1>2 DEF LoopInv, LoopShape, Numbered
  <2> QED
    BY <2>2, <2>3
<1>4. \A i : /\ Doomed(i)' => Doomed(i)
             /\ Doomed(i) => Doomed(i)' \/ i = old[h]
  BY <1>1 DEF LoopInv, LoopShape, Doomed
<1>5. Swapping'
  BY <1>1, <1>2, <1>4 DEF LoopInv, LoopShape, Swapping, Doomed
<1>6. Closing'
  BY <1>1, <1>2, <1>4 DEF LoopInv, LoopShape, Closing
<1>7. Loops'
  BY <1>1, <1>2, <1>4 DEF LoopInv, LoopShape, Closing, Loops
<1>8. Newest'
  BY <1>1, <1>2 DEF LoopInv, LoopShape, Closing, Newest
<1> QED
  BY <1>3, <1>5, <1>6, <1>7, <1>8 DEF LoopInv

LEMMA LoopsStep ==
  ASSUME MaxRequests \in Nat, LoopInv, [M!Next]_(M!vars)
  PROVE  LoopInv'
<1>1. ASSUME NEW h \in Receivers, NEW r \in Requests, M!Receive(h, r)
      PROVE  LoopInv'
  BY <1>1, ReceiveLoops
<1>2. ASSUME NEW h \in Receivers, M!SwapLoop(h)
      PROVE  LoopInv'
  BY <1>2, SwapLoops
<1>3. ASSUME NEW h \in Receivers, M!CloseOld(h)
      PROVE  LoopInv'
  BY <1>3, CloseLoops
<1>4. ASSUME NEW h \in Receivers, M!Send(h) \/ M!Finish(h)
      PROVE  LoopInv'
  BY <1>4, ApartStep DEF M!Send, M!Finish, LoopInv, LoopShape
<1>5. ASSUME NEW j \in jobs, M!ExchangeEnds(j)
      PROVE  LoopInv'
  BY <1>5, ApartStep DEF M!ExchangeEnds, M!handling, LoopInv, LoopShape
<1>6. ASSUME NEW e \in Events, M!HostNotify(e) \/ M!Expire(e)
      PROVE  LoopInv'
  BY <1>6, ApartStep DEF M!HostNotify, M!Expire, M!handling, LoopInv, LoopShape
<1>7. ASSUME NEW i \in DOMAIN loops, M!Report(i)
      PROVE  LoopInv'
  BY <1>7, ApartStep DEF M!Report, M!handling, LoopInv, LoopShape
<1>8. ASSUME NEW i \in DOMAIN loops, M!LoopEnds(i)
      PROVE  LoopInv'
  <2>1. /\ i \in closed /\ loops' = [loops EXCEPT ![i] = "ended"] /\ loops[i] = "running"
        /\ UNCHANGED <<received, pc, doing, old, current, closed>>
    BY <1>8 DEF M!LoopEnds, M!handling
  <2>2. LoopShape' /\ Numbered'
    BY <2>1 DEF LoopInv, LoopShape, Numbered, Nr
  <2>3. Swapping' /\ Closing'
    BY <2>1 DEF LoopInv, Swapping, Closing, Doomed, Nr
  <2>4. Loops' /\ Newest'
    BY <2>1 DEF LoopInv, LoopShape, Loops, Newest, Doomed, Nr
  <2> QED
    BY <2>2, <2>3, <2>4 DEF LoopInv
<1>9. CASE M!Stop \/ UNCHANGED M!vars
  BY <1>9, ApartStep DEF M!Stop, M!vars, M!handling, M!reports, LoopInv, LoopShape
<1> QED
  BY <1>1, <1>2, <1>3, <1>4, <1>5, <1>6, <1>7, <1>8, <1>9 DEF M!Next

LEMMA LoopsAreOne == LoopInv => M!OnePositionLoop
  BY DEF LoopInv, LoopShape, Loops, Newest, Doomed, M!OnePositionLoop
-----------------------------------------------------------------------------
(***************************************************************************)
(* Complete answers.  What is on the wire and what a busy receiver has still *)
(* to send are together the answer to its request; the requests that others  *)
(* write about (the notifications of a dialog, the result of an exchange)    *)
(* are none of those that are answered by a list or a verdict alone.         *)
(***************************************************************************)
Lists == {"catalog", "records"}
Orders == {"control", "config", "snapshot", "homeposition"}
Says == {"200", "500", "OK", "ERROR", "page", "done", "failed", "notify"}
OneAnswer == [says : Says, from : Nat, to : Nat, total : Nat]

(* The verdict has arrived behind the 200, and after it at most the result of *)
(* the exchange.                                                              *)
Judged(all, kd) ==
  /\ all \in Seq(OneAnswer) /\ Len(all) >= 2 /\ all[1] = M!OK200 /\ all[2] = M!Verdict(kd)
  /\ \A i \in 3 .. Len(all) : all[i].says \in {"done", "failed"}

Underway(h) == pc[h] # "idle" /\ doing[h].kind \in Lists \cup Orders

(* The rest of the answer waits with the receiver.                            *)
Owing(h) ==
  Underway(h) /\ ~stopped =>
    /\ doing[h].items \in Nat
    /\ answers[Nr(h)] \in Seq(OneAnswer) /\ todo[h] \in Seq(OneAnswer)
    /\ answers[Nr(h)] \o todo[h] = M!AnswersTo(doing[h])

Handled(r) ==
  /\ r.n \in 1 .. received /\ \A h \in Receivers : pc[h] # "idle" => Nr(h) # r.n
  /\ r.kind \in Lists => r.items \in Nat /\ answers[r.n] = M!AnswersTo(r)
  /\ r.kind \in Orders => Judged(answers[r.n], r.kind)

(* Nobody but its receiver writes about request i while it is answered, and   *)
(* afterwards only those of one of the kinds `kinds`.                         *)
Foreign(i, kinds) ==
  /\ i \in 1 .. received
  /\ \A h \in Receivers : pc[h] # "idle" /\ Nr(h) = i => doing[h].kind \in kinds
  /\ \A r \in finished : r.n = i => r.kind \in kinds

AnswerInv ==
  /\ DOMAIN answers = 1 .. MaxRequests /\ DOMAIN todo = Receivers
  /\ DOMAIN registry = Events /\ \A e \in Events : DOMAIN registry[e] = {"dialog", "cseq", "live"}
  /\ \A i \in 1 .. MaxRequests : i > received => answers[i] = <<>>
  /\ \A h \in Receivers : Owing(h)
  /\ \A r \in finished : Handled(r)
  /\ \A e \in Events : registry[e].live => Foreign(registry[e].dialog, {"subscribe"})
  /\ \A j \in jobs : /\ Foreign(j, {"broadcast", "snapshot", "upgrade"})
                     /\ \A h \in Receivers : pc[h] # "idle" => Nr(h) # j
-----------------------------------------------------------------------------
(* The pages of a list, behind the 200, are complete.                         *)
LEMMA PageCount ==
  ASSUME PageItems \in Nat \ {0}, NEW total \in Nat,
         NEW c, c = IF total = 0 THEN 1 ELSE (total + PageItems - 1) \div PageItems
  PROVE  /\ c \in Nat \ {0} /\ c * PageItems >= total
         /\ \A i \in 1 .. c : i # c => i * PageItems < total
         /\ total > 0 => (c - 1) * PageItems < total
<1>1. CASE total = 0
  BY <1>1
<1>2. CASE total # 0
  <2>1. PICK x : x = total + PageItems - 1
    OBVIOUS
  <2>2. x \in Nat /\ c = x \div PageItems
    BY <1>2, <2>1
  <2>3. c \in Nat /\ c * PageItems <= x /\ x < c * PageItems + PageItems
    BY <2>2
  <2>4. c # 0
    BY <1>2, <2>1, <2>3
  <2>5. c * PageItems >= total
    BY <2>1, <2>3
  <2>6. (c - 1) * PageItems + PageItems = c * PageItems
    BY <2>3
  <2>7. (c - 1) * PageItems < total
    BY <2>1, <2>3, <2>4, <2>6
  <2>8. ASSUME NEW i \in 1 .. c, i # c PROVE i * PageItems < total
    <3>1. i * PageItems <= (c - 1) * PageItems
      BY <2>3, <2>8
    <3>2. i * PageItems \in Int /\ (c - 1) * PageItems \in Int
      BY <2>3
    <3> QED
      BY <2>7, <3>1, <3>2
  <2> QED
    BY <2>3, <2>4, <2>5, <2>7, <2>8
<1> QED
  BY <1>1, <1>2

LEMMA PagesAre ==
  ASSUME PageItems \in Nat \ {0}, NEW total \in Nat
  PROVE  \E c \in Nat \ {0} :
           /\ M!Pages(total) \in [1 .. c -> OneAnswer]
           /\ \A i \in 1 .. c :
                LET p == M!Pages(total)[i] IN
                /\ p.says = "page" /\ p.total = total
                /\ p.from = (i - 1) * PageItems + 1 /\ p.to \in Nat
                /\ p.to = IF i = c THEN total ELSE i * PageItems
                /\ total > 0 => p.to \in p.from .. p.from + PageItems - 1
<1>1. PICK c : c = IF total = 0 THEN 1 ELSE (total + PageItems - 1) \div PageItems
  OBVIOUS
<1>2. /\ c \in Nat \ {0} /\ c * PageItems >= total
      /\ \A i \in 1 .. c : i # c => i * PageItems < total
      /\ total > 0 => (c - 1) * PageItems < total
  BY <1>1, PageCount
<1>3. M!Pages(total) =
        [i \in 1 .. c |-> [says |-> "page", total |-> total, from |-> (i - 1) * PageItems + 1,
                           to |-> IF i * PageItems < total THEN i * PageItems ELSE total]]
  BY <1>1 DEF M!Pages
<1>4. ASSUME NEW i \in 1 .. c
      PROVE  LET p == M!Pages(total)[i] IN
             /\ p \in OneAnswer /\ p.says = "page" /\ p.total = total
             /\ p.from = (i - 1) * PageItems + 1 /\ p.to \in Nat
             /\ p.to = IF i = c THEN total ELSE i * PageItems
             /\ total > 0 => p.to \in p.from .. p.from + PageItems - 1
  <2> DEFINE a == (i - 1) * PageItems
             b == i * PageItems
  <2>1. a \in Nat /\ b \in Nat /\ b = a + PageItems
    BY <1>2
  <2>2. i # c => b < total
    BY <1>2
  <2>3. i = c => b >= total /\ (total > 0 => a < total)
    BY <1>2
  <2>4. M!Pages(total)[i] = [says |-> "page", total |-> total, from |-> a + 1,
                             to |-> IF b < total THEN b ELSE total]
    BY <1>3
  <2> HIDE DEF a, b
  <2>5. M!Pages(total)[i] \in OneAnswer
    BY <2>1, <2>4 DEF OneAnswer, Says
  <2>6. CASE i = c
    <3>1. ~(b < total)
      BY <2>1, <2>3, <2>6
    <3> QED
      BY <2>1, <2>3, <2>4, <2>5, <2>6, <3>1 DEF a
  <2>7. CASE i # c
    BY <2>1, <2>2, <2>4, <2>5, <2>7 DEF a, b
  <2> QED
    BY <2>6, <2>7
<1>5. M!Pages(total) \in [1 .. c -> OneAnswer]
  BY <1>3, <1>4
<1> QED
  BY <1>2, <1>4, <1>5

LEMMA ListIsComplete ==
  ASSUME PageItems \in Nat \ {0}, NEW total \in Nat, NEW all, all = <<M!OK200>> \o M!Pages(total)
  PROVE  M!ListComplete(all, total) /\ all \in Seq(OneAnswer)
<1>1. PICK c \in Nat \ {0} :
           /\ M!Pages(total) \in [1 .. c -> OneAnswer]
           /\ \A i \in 1 .. c :
                LET p == M!Pages(total)[i] IN
                /\ p.says = "page" /\ p.total = total
                /\ p.from = (i - 1) * PageItems + 1 /\ p.to \in Nat
                /\ p.to = IF i = c THEN total ELSE i * PageItems
                /\ total > 0 => p.to \in p.from .. p.from + PageItems - 1
  BY PagesAre
<1>2. PICK g : g = M!Pages(total)
  OBVIOUS
<1>3. g \in Seq(OneAnswer) /\ Len(g) = c
  BY <1>1, <1>2
<1>4. PICK o : o = <<M!OK200>>
  OBVIOUS
<1>5. o \in Seq(OneAnswer) /\ Len(o) = 1 /\ o[1] = M!OK200
  BY <1>4 DEF M!OK200, OneAnswer, Says
<1>6. /\ all \in Seq(OneAnswer) /\ Len(all) = 1 + c
      /\ \A i \in 1 .. 1 + c : all[i] = IF i <= 1 THEN o[i] ELSE g[i - 1]
  <2>1. all = o \o g
    BY <1>2, <1>4
  <2>2. /\ all \in Seq(OneAnswer) /\ Len(all) = Len(o) + Len(g)
        /\ \A i \in 1 .. Len(o) + Len(g) : all[i] = IF i <= Len(o) THEN o[i] ELSE g[i - Len(o)]
    BY <1>3, <1>5, <2>1, ConcatProperties, ZenonT(60)
  <2> QED
    BY <1>3, <1>5, <2>2
<1>7. all[1] = M!OK200 /\ Len(all) > 1
  BY <1>1, <1>5, <1>6
<1>8. ASSUME NEW i \in 1 .. c
      PROVE  /\ all[i + 1].says = "page" /\ all[i + 1].total = total
             /\ all[i + 1].from = (i - 1) * PageItems + 1
             /\ all[i + 1].to = IF i = c THEN total ELSE i * PageItems
             /\ total > 0 => all[i + 1].to \in all[i + 1].from .. all[i + 1].from + PageItems - 1
  <2>1. i + 1 \in 1 .. 1 + c /\ ~(i + 1 <= 1) /\ (i + 1) - 1 = i
    BY <1>1
  <2>2. all[i + 1] = g[i]
    BY <1>6, <2>1
  <2> QED
    BY <1>1, <1>2, <2>2
<1>9. all[Len(all)].to = total
  BY <1>1, <1>6, <1>8
<1>10. ASSUME NEW i \in 2 .. Len(all)
       PROVE  /\ all[i].says = "page" /\ all[i].total = total
              /\ all[i].from = IF i = 2 THEN 1 ELSE all[i - 1].to + 1
              /\ total > 0 => all[i].to \in all[i].from .. all[i].from + PageItems - 1
  <2>1. PICK k : k = i - 1
    OBVIOUS
  <2>2. k \in 1 .. c /\ i = k + 1
    BY <1>1, <1>6, <2>1
  <2>3. /\ all[i].says = "page" /\ all[i].total = total
        /\ all[i].from = (k - 1) * PageItems + 1
        /\ total > 0 => all[i].to \in all[i].from .. all[i].from + PageItems - 1
    BY <1>8, <2>2
  <2>4. CASE k = 1
    BY <2>2, <2>3, <2>4
  <2>5. CASE k # 1
    <3>1. PICK j : j = k - 1
      OBVIOUS
    <3>2. j \in 1 .. c /\ j # c /\ i - 1 = j + 1
      BY <1>1, <2>2, <2>5, <3>1
    <3>3. all[i - 1].to = j * PageItems
      BY <1>8, <3>2
    <3> QED
      BY <2>2, <2>3, <2>5, <3>1, <3>3
  <2> QED
    BY <2>4, <2>5
<1> QED
  BY <1>6, <1>7, <1>9, <1>10 DEF M!ListComplete

(* The answers to lists and to orders.                                        *)
LEMMA AnswersAre ==
  ASSUME PageItems \in Nat \ {0}, NEW r
  PROVE  /\ r.kind \in Lists => M!AnswersTo(r) = <<M!OK200>> \o M!Pages(r.items)
         /\ r.kind \in Lists /\ r.items \in Nat =>
              M!AnswersTo(r) \in Seq(OneAnswer) /\ M!ListComplete(M!AnswersTo(r), r.items)
         /\ r.kind \in Orders => M!AnswersTo(r) \in Seq(OneAnswer) /\ Judged(M!AnswersTo(r), r.kind)
<1>1. r.kind \in Lists => M!AnswersTo(r) = <<M!OK200>> \o M!Pages(r.items)
  BY DEF M!AnswersTo, Lists
<1>2. ASSUME r.kind \in Lists, r.items \in Nat
      PROVE  M!AnswersTo(r) \in Seq(OneAnswer) /\ M!ListComplete(M!AnswersTo(r), r.items)
  BY <1>1, <1>2, ListIsComplete
<1>3. ASSUME r.kind \in Orders
      PROVE  M!AnswersTo(r) \in Seq(OneAnswer) /\ Judged(M!AnswersTo(r), r.kind)
  <2>1. M!AnswersTo(r) = <<M!OK200, M!Verdict(r.kind)>>
    BY <1>3 DEF M!AnswersTo, Orders
  <2>2. M!OK200 \in OneAnswer /\ M!Verdict(r.kind) \in OneAnswer
    BY DEF M!OK200, M!Verdict, M!Response, OneAnswer, Says
  <2>3. PICK a : a = M!AnswersTo(r)
    OBVIOUS
  <2>4. a \in Seq(OneAnswer) /\ Len(a) = 2 /\ a[1] = M!OK200 /\ a[2] = M!Verdict(r.kind)
    BY <2>1, <2>2, <2>3
  <2> QED
    BY <2>3, <2>4 DEF Judged
<1> QED
  BY <1>1, <1>2, <1>3
-----------------------------------------------------------------------------
LEMMA InitAnswers == ASSUME MaxRequests \in Nat PROVE M!Init => AnswerInv
<1> SUFFICES ASSUME M!Init PROVE AnswerInv
  OBVIOUS
<1>1. DOMAIN answers = 1 .. MaxRequests /\ DOMAIN todo = Receivers /\ \A i \in 1 .. MaxRequests : answers[i] = <<>>
  BY DEF M!Init
<1>2. \A h \in Receivers : Owing(h)
  BY DEF M!Init, Owing, Underway
<1>3. /\ DOMAIN registry = Events
      /\ \A e \in Events : DOMAIN registry[e] = {"dialog", "cseq", "live"} /\ ~registry[e].live
  BY DEF M!Init, M!NoSub
<1>4. finished = {} /\ jobs = {}
  BY DEF M!Init
<1> QED
  BY <1>1, <1>2, <1>3, <1>4 DEF AnswerInv

(* The handling goes on elsewhere.                                            *)
LEMMA QuietAnswers ==
  ASSUME AnswerInv, UNCHANGED <<received, doing, todo, answers, finished, jobs>>, stopped => stopped',
         \A h \in Receivers : pc'[h] # "idle" => pc[h] # "idle",
         DOMAIN registry' = Events, \A e \in Events : DOMAIN registry'[e] = {"dialog", "cseq", "live"},
         \A e \in Events : registry'[e].live => registry[e].live /\ registry'[e].dialog = registry[e].dialog
  PROVE  AnswerInv'
<1>1. \A h \in Receivers : Owing(h)'
  BY DEF AnswerInv, Owing, Underway, Nr
<1>2. \A r \in finished : Handled(r)'
  BY DEF AnswerInv, Handled, Nr
<1>3. \A i, kinds : Foreign(i, kinds) => Foreign(i, kinds)'
  BY DEF Foreign, Nr
<1>4. \A j \in jobs : \A h \in Receivers : pc'[h] # "idle" => Nr(h)' # j
  BY DEF AnswerInv, Nr
<1> QED
  BY <1>1, <1>2, <1>3, <1>4 DEF AnswerInv

(* A request begins.                                                          *)
LEMMA ReceiveAnswers ==
  ASSUME MaxRequests \in Nat, PageItems \in Nat \ {0}, LoopInv, AnswerInv,
         NEW h \in Receivers, NEW r, r.items \in Nat, M!Receive(h, r)
  PROVE  AnswerInv'
<1>1. /\ ~stopped /\ pc[h] = "idle" /\ received < MaxRequests /\ received' = received + 1
      /\ UNCHANGED <<answers, finished, jobs, stopped>>
      /\ doing' = [doing EXCEPT ![h] = [n |-> received + 1, kind |-> r.kind, items |-> r.items]]
      /\ todo' = [todo EXCEPT ![h] = M!AnswersTo(r)]
  BY DEF M!Receive, M!Idle
<1>2. pc' = [pc EXCEPT ![h] = "swap"] \/ pc' = [pc EXCEPT ![h] = "send"]
  BY DEF M!Receive
<1>3. /\ doing'[h] = [n |-> received + 1, kind |-> r.kind, items |-> r.items] /\ todo'[h] = M!AnswersTo(r)
      /\ \A k \in Receivers : k # h => doing'[k] = doing[k] /\ todo'[k] = todo[k] /\ pc'[k] = pc[k]
  BY <1>1, <1>2 DEF LoopInv, LoopShape, AnswerInv
<1>4. Nr(h)' = received + 1 /\ \A k \in Receivers : k # h => Nr(k)' = Nr(k)
  BY <1>3 DEF Nr
<1>5. received \in Nat /\ 1 .. received \subseteq 1 .. received' /\ received + 1 \in 1 .. MaxRequests
  BY <1>1 DEF LoopInv, LoopShape
<1>6. answers[received + 1] = <<>>
  BY <1>5 DEF AnswerInv
<1>7. Owing(h)'
  <2> SUFFICES ASSUME r.kind \in Lists \cup Orders
               PROVE  /\ answers[received + 1] \in Seq(OneAnswer) /\ todo'[h] \in Seq(OneAnswer)
                      /\ answers[received + 1] \o todo'[h] = M!AnswersTo(doing'[h])
    <3>1. doing'[h].kind = r.kind /\ doing'[h].items \in Nat
      BY <1>3
    <3>2. answers'[Nr(h)'] = answers[received + 1]
      BY <1>1, <1>4
    <3> QED
      BY <3>1, <3>2 DEF Owing, Underway
  <2>1. M!AnswersTo(doing'[h]) = M!AnswersTo(r)
    BY <1>3 DEF M!AnswersTo
  <2>2. M!AnswersTo(r) \in Seq(OneAnswer)
    BY AnswersAre
  <2>3. <<>> \in Seq(OneAnswer)
    OBVIOUS
  <2>4. <<>> \o M!AnswersTo(r) = M!AnswersTo(r)
    BY <2>2, ConcatEmptySeq
  <2> QED
    BY <1>3, <1>6, <2>1, <2>2, <2>3, <2>4
<1>8. \A k \in Receivers : k # h => Owing(k)'
  BY <1>1, <1>3, <1>4 DEF AnswerInv, Owing, Underway
<1>9. \A q \in finished : Handled(q)'
  BY <1>1, <1>3, <1>4, <1>5 DEF AnswerInv, Handled
<1>10. ASSUME NEW i, NEW kinds, Foreign(i, kinds) PROVE Foreign(i, kinds)'
  <2>1. i \in 1 .. received' /\ i # received + 1
    BY <1>5, <1>10 DEF Foreign
  <2>2. \A k \in Receivers : pc'[k] # "idle" /\ Nr(k)' = i => doing'[k].kind \in kinds
    BY <1>3, <1>4, <1>10, <2>1 DEF Foreign
  <2> QED
    BY <1>1, <1>10, <2>1, <2>2 DEF Foreign
<1>11. ASSUME r.kind = "subscribe" PROVE \A d : d = received + 1 => Foreign(d, {"subscribe"})'
  <2>1. \A k \in Receivers : pc'[k] # "idle" /\ k # h => Nr(k)' # received + 1
    <3>1. \A k \in Receivers : pc[k] # "idle" => Nr(k) \in 1 .. received
      BY DEF LoopInv, Numbered
    <3> QED
      BY <1>3, <1>4, <1>5, <3>1
  <2>2. \A q \in finished : q.n # received + 1
    BY <1>5 DEF AnswerInv, Handled
  <2>3. received + 1 \in 1 .. received'
    BY <1>1, <1>5
  <2>4. \A k \in Receivers : pc'[k] # "idle" /\ Nr(k)' = received + 1 => doing'[k].kind = "subscribe"
    BY <1>3, <1>11, <2>1
  <2>5. PICK d : d = received + 1
    OBVIOUS
  <2>6. Foreign(d, {"subscribe"})'
    BY <1>1, <2>2, <2>3, <2>4, <2>5 DEF Foreign
  <2> QED
    BY <2>5, <2>6
<1>12. \/ registry' = registry
       \/ /\ r.kind = "subscribe" /\ r.event \in Events
          /\ registry' = [registry EXCEPT ![r.event] =
                            [dialog |-> received + 1, cseq |-> r.cseq + 1, live |-> TRUE]]
  BY DEF M!Receive
<1>13. /\ DOMAIN registry' = Events /\ \A e \in Events : DOMAIN registry'[e] = {"dialog", "cseq", "live"}
       /\ \A e \in Events : registry'[e].live => \A d : d = registry'[e].dialog => Foreign(d, {"subscribe"})'
  <2>1. \A e \in Events : registry[e].live => \A d : d = registry[e].dialog => Foreign(d, {"subscribe"})
    BY DEF AnswerInv
  <2>2. CASE registry' = registry
    <3>1. DOMAIN registry' = Events /\ \A e \in Events : DOMAIN registry'[e] = {"dialog", "cseq", "live"}
      BY <2>2 DEF AnswerInv
    <3> QED
      BY <1>10, <2>1, <2>2, <3>1
  <2>3. CASE /\ r.kind = "subscribe" /\ r.event \in Events
             /\ registry' = [registry EXCEPT ![r.event] =
                               [dialog |-> received + 1, cseq |-> r.cseq + 1, live |-> TRUE]]
    <3>1. DOMAIN registry' = Events /\ \A e \in Events : DOMAIN registry'[e] = {"dialog", "cseq", "live"}
      BY <2>3 DEF AnswerInv
    <3>2. ASSUME NEW e \in Events, registry'[e].live, NEW d, d = registry'[e].dialog
          PROVE  Foreign(d, {"subscribe"})'
      <4>1. CASE e = r.event
        <5>1. registry'[e].dialog = received + 1
          BY <2>3, <4>1 DEF AnswerInv
        <5> QED
          BY <1>11, <2>3, <3>2, <5>1
      <4>2. CASE e # r.event
        <5>1. registry'[e] = registry[e]
          BY <2>3, <4>2 DEF AnswerInv
        <5> QED
          BY <1>10, <2>1, <3>2, <5>1
      <4> QED
        BY <4>1, <4>2
    <3> QED
      BY <3>1, <3>2
  <2> QED
    BY <1>12, <2>2, <2>3
<1>14. \A j \in jobs' : /\ Foreign(j, {"broadcast", "snapshot", "upgrade"})'
                        /\ \A k \in Receivers : pc'[k] # "idle" => Nr(k)' # j
  <2> SUFFICES ASSUME NEW j \in jobs
               PROVE  /\ Foreign(j, {"broadcast", "snapshot", "upgrade"})'
                      /\ \A k \in Receivers : pc'[k] # "idle" => Nr(k)' # j
    BY <1>1
  <2>1. Foreign(j, {"broadcast", "snapshot", "upgrade"}) /\ j \in 1 .. received
    BY DEF AnswerInv, Foreign
  <2>2. \A k \in Receivers : pc'[k] # "idle" => Nr(k)' # j
    BY <1>3, <1>4, <1>5, <2>1 DEF AnswerInv
  <2> QED
    BY <1>10, <2>1, <2>2
<1>15. DOMAIN answers' = 1 .. MaxRequests /\ DOMAIN todo' = Receivers
       /\ \A i \in 1 .. MaxRequests : i > received' => answers'[i] = <<>>
  BY <1>1, <1>5 DEF AnswerInv
<1>16. \A e \in Events : registry'[e].live => Foreign(registry[e].dialog, {"subscribe"})'
  BY <1>13 DEF Foreign
<1>17. /\ \A k \in Receivers : Owing(k)'
       /\ \A q \in finished' : Handled(q)'
  BY <1>1, <1>7, <1>8, <1>9
<1> QED
  BY <1>13, <1>14, <1>15, <1>16, <1>17 DEF AnswerInv

(* An answer goes out.                                                        *)
LEMMA SayOne ==
  ASSUME AnswerInv, NEW i \in 1 .. MaxRequests, NEW a, M!Say(i, a)
  PROVE  /\ DOMAIN answers' = 1 .. MaxRequests
         /\ stopped => answers' = answers
         /\ ~stopped => answers'[i] = Append(answers[i], a)
         /\ \A k \in 1 .. MaxRequests : k # i => answers'[k] = answers[k]
  BY DEF AnswerInv, M!Say

(* Whoever writes about request i, when nobody is answering it.               *)
LEMMA ForeignAnswers ==
  ASSUME MaxRequests \in Nat, LoopInv, AnswerInv, NEW i, NEW kinds, Foreign(i, kinds), NEW a, M!Say(i, a),
         kinds \cap Lists = {}, kinds \cap Orders # {} => a \in OneAnswer /\ a.says \in {"done", "failed"},
         \A h \in Receivers : Underway(h) => Nr(h) # i,
         UNCHANGED <<received, pc, doing, todo, finished, stopped>>
  PROVE  /\ DOMAIN answers' = 1 .. MaxRequests
         /\ \A k \in 1 .. MaxRequests : k > received' => answers'[k] = <<>>
         /\ \A h \in Receivers : Owing(h)'
         /\ \A r \in finished' : Handled(r)'
<1>1. i \in 1 .. received /\ received \in 0 .. MaxRequests /\ i \in 1 .. MaxRequests
  BY DEF LoopInv, LoopShape, Foreign
<1>2. /\ DOMAIN answers' = 1 .. MaxRequests
      /\ stopped => answers' = answers
      /\ ~stopped => answers'[i] = Append(answers[i], a)
      /\ \A k \in 1 .. MaxRequests : k # i => answers'[k] = answers[k]
  BY <1>1, SayOne
<1>3. \A k \in 1 .. MaxRequests : k > received' => answers'[k] = <<>>
  BY <1>1, <1>2 DEF AnswerInv
<1>4. \A h \in Receivers : Nr(h)' = Nr(h) /\ (Underway(h)' <=> Underway(h)) /\ (pc[h] # "idle" => Nr(h) \in 1 .. MaxRequests)
  <2>1. \A h \in Receivers : pc[h] # "idle" => Nr(h) \in 1 .. received
    BY DEF LoopInv, Numbered
  <2> QED
    BY <1>1, <2>1 DEF Nr, Underway
<1>5. ASSUME NEW h \in Receivers PROVE Owing(h)'
  BY <1>2, <1>4 DEF AnswerInv, Owing, Underway
<1>6. ASSUME NEW r \in finished PROVE Handled(r)'
  <2>1. Handled(r) /\ r.n \in 1 .. MaxRequests
    BY <1>1 DEF AnswerInv, Handled
  <2>2. CASE r.n # i \/ stopped
    <3>1. answers'[r.n] = answers[r.n]
      BY <1>2, <2>1, <2>2
    <3> QED
      BY <1>4, <2>1, <3>1 DEF Handled
  <2>3. CASE r.n = i /\ ~stopped
    <3>1. r.kind \in kinds /\ r.kind \notin Lists
      BY <2>3 DEF Foreign
    <3>2. ASSUME r.kind \in Orders PROVE Judged(answers'[r.n], r.kind)
      <4>1. a \in OneAnswer /\ a.says \in {"done", "failed"}
        BY <3>1, <3>2
      <4>2. PICK s : s = answers[i]
        OBVIOUS
      <4>3. PICK l : l = Len(s)
        OBVIOUS
      <4>4. s \in Seq(OneAnswer) /\ l \in Nat /\ l >= 2 /\ s[1] = M!OK200 /\ s[2] = M!Verdict(r.kind)
            /\ \A k \in 3 .. l : s[k].says \in {"done", "failed"}
        BY <2>1, <2>3, <3>2, <4>2, <4>3, LenProperties DEF Handled, Judged
      <4>5. PICK t : t = Append(s, a)
        OBVIOUS
      <4>6. t \in Seq(OneAnswer) /\ Len(t) = l + 1 /\ t[l + 1] = a /\ \A k \in 1 .. l : t[k] = s[k]
        BY <4>1, <4>3, <4>4, <4>5, AppendProperties
      <4>7. t[1] = M!OK200 /\ t[2] = M!Verdict(r.kind) /\ \A k \in 3 .. l + 1 : t[k].says \in {"done", "failed"}
        BY <4>1, <4>4, <4>6
      <4>8. answers'[r.n] = t
        BY <1>2, <2>3, <4>2, <4>5
      <4> QED
        BY <4>4, <4>6, <4>7, <4>8 DEF Judged
    <3> QED
      BY <1>4, <2>1, <3>1, <3>2 DEF Handled
  <2> QED
    BY <2>2, <2>3
<1> QED
  BY <1>2, <1>3, <1>5, <1>6

(* What is sent, or read, moves from what is left to what is done.            *)
LEMMA Shifted ==
  ASSUME NEW Item, NEW g \in Seq(Item), NEW q \in Seq(Item), q # <<>>
  PROVE  /\ Append(g, Head(q)) \in Seq(Item) /\ Tail(q) \in Seq(Item)
         /\ Append(g, Head(q)) \o Tail(q) = g \o q
<1>1. Head(q) \in Item /\ Tail(q) \in Seq(Item) /\ q = <<Head(q)>> \o Tail(q)
  BY HeadTailProperties
<1>2. PICK a : a = Head(q)
  OBVIOUS
<1>3. PICK t : t = Tail(q)
  OBVIOUS
<1>4. <<a>> \in Seq(Item)
  BY <1>1, <1>2
<1>5. Append(g, a) = g \o <<a>> /\ Append(g, a) \in Seq(Item)
  BY <1>1, <1>2, AppendIsConcat, AppendProperties
<1>6. (g \o <<a>>) \o t = g \o (<<a>> \o t)
  BY <1>1, <1>3, <1>4, ConcatAssociative
<1> QED
  BY <1>1, <1>2, <1>3, <1>5, <1>6

(* An answer of the request that a receiver is busy with.                     *)
LEMMA SendAnswers ==
  ASSUME MaxRequests \in Nat, LoopInv, AnswerInv, NEW h \in Receivers, M!Send(h)
  PROVE  AnswerInv'
<1>1. /\ pc[h] = "send" /\ todo[h] # <<>> /\ M!Say(Nr(h), Head(todo[h]))
      /\ todo' = [todo EXCEPT ![h] = IF stopped /\ Head(@).says = "page" THEN <<>> ELSE Tail(@)]
      /\ UNCHANGED <<received, pc, doing, finished, jobs, registry, stopped>>
  BY DEF M!Send, Nr
<1>2. Nr(h) \in 1 .. received /\ Nr(h) \in 1 .. MaxRequests /\ received \in Nat
  <2>1. Nr(h) \in 1 .. received /\ received \in 0 .. MaxRequests
    BY <1>1 DEF LoopInv, LoopShape, Numbered
  <2> QED
    BY <2>1
<1>3. /\ DOMAIN answers' = 1 .. MaxRequests
      /\ stopped => answers' = answers
      /\ ~stopped => answers'[Nr(h)] = Append(answers[Nr(h)], Head(todo[h]))
      /\ \A k \in 1 .. MaxRequests : k # Nr(h) => answers'[k] = answers[k]
  <2>1. PICK i : i = Nr(h)
    OBVIOUS
  <2>2. PICK a : a = Head(todo[h])
    OBVIOUS
  <2>3. i \in 1 .. MaxRequests /\ M!Say(i, a)
    BY <1>1, <1>2, <2>1, <2>2
  <2>4. /\ DOMAIN answers' = 1 .. MaxRequests
        /\ stopped => answers' = answers
        /\ ~stopped => answers'[i] = Append(answers[i], a)
        /\ \A k \in 1 .. MaxRequests : k # i => answers'[k] = answers[k]
    BY <2>3, SayOne
  <2> QED
    BY <2>1, <2>2, <2>4
<1>4. /\ DOMAIN todo' = Receivers /\ (~stopped => todo'[h] = Tail(todo[h]))
      /\ \A k \in Receivers : k # h => todo'[k] = todo[k]
  BY <1>1 DEF AnswerInv
<1>5. \A k \in Receivers : Nr(k)' = Nr(k) /\ (Underway(k)' <=> Underway(k))
  BY <1>1 DEF Nr, Underway
<1>6. \A k \in Receivers : pc[k] # "idle" => Nr(k) \in 1 .. MaxRequests /\ (k # h => Nr(k) # Nr(h))
  BY <1>1 DEF LoopInv, LoopShape, Numbered
<1>7. ASSUME NEW k \in Receivers PROVE Owing(k)'
  <2>1. CASE k # h
    <3> SUFFICES ASSUME Underway(k), ~stopped
                 PROVE  /\ doing[k].items \in Nat
                        /\ answers'[Nr(k)] \in Seq(OneAnswer) /\ todo'[k] \in Seq(OneAnswer)
                        /\ answers'[Nr(k)] \o todo'[k] = M!AnswersTo(doing[k])
      BY <1>1, <1>5 DEF Owing
    <3>1. /\ doing[k].items \in Nat
          /\ answers[Nr(k)] \in Seq(OneAnswer) /\ todo[k] \in Seq(OneAnswer)
          /\ answers[Nr(k)] \o todo[k] = M!AnswersTo(doing[k])
      BY DEF AnswerInv, Owing
    <3>2. answers'[Nr(k)] = answers[Nr(k)]
      BY <1>3, <1>6, <2>1 DEF Underway
    <3>3. todo'[k] = todo[k]
      BY <1>4, <2>1
    <3> QED
      BY <3>1, <3>2, <3>3
  <2>2. CASE k = h
    <3> SUFFICES ASSUME Underway(h), ~stopped
                 PROVE  /\ doing[h].items \in Nat
                        /\ answers'[Nr(h)] \in Seq(OneAnswer) /\ todo'[h] \in Seq(OneAnswer)
                        /\ answers'[Nr(h)] \o todo'[h] = M!AnswersTo(doing[h])
      BY <1>1, <1>5, <2>2 DEF Owing
    <3>1. /\ doing[h].items \in Nat /\ answers[Nr(h)] \in Seq(OneAnswer) /\ todo[h] \in Seq(OneAnswer)
          /\ answers[Nr(h)] \o todo[h] = M!AnswersTo(doing[h])
      BY DEF AnswerInv, Owing
    <3>2. PICK g : g = answers[Nr(h)]
      OBVIOUS
    <3>3. PICK q : q = todo[h]
      OBVIOUS
    <3>4. g \in Seq(OneAnswer) /\ q \in Seq(OneAnswer) /\ q # <<>>
      BY <1>1, <3>1, <3>2, <3>3
    <3>5. /\ Append(g, Head(q)) \in Seq(OneAnswer) /\ Tail(q) \in Seq(OneAnswer)
          /\ Append(g, Head(q)) \o Tail(q) = g \o q
      BY <3>4, Shifted
    <3>6. answers'[Nr(h)] = Append(g, Head(q)) /\ todo'[h] = Tail(q)
      BY <1>3, <1>4, <3>2, <3>3
    <3>7. g \o q = M!AnswersTo(doing[h])
      BY <3>1, <3>2, <3>3
    <3> QED
      BY <3>1, <3>5, <3>6, <3>7
  <2> QED
    BY <2>1, <2>2
<1>8. ASSUME NEW r \in finished PROVE Handled(r)'
  <2>1. Handled(r) /\ r.n # Nr(h) /\ r.n \in 1 .. MaxRequests
    BY <1>1, <1>2 DEF AnswerInv, Handled, LoopInv, LoopShape
  <2>2. answers'[r.n] = answers[r.n]
    BY <1>3, <2>1
  <2> QED
    BY <1>1, <1>5, <2>1, <2>2 DEF Handled
<1>9. \A k \in 1 .. MaxRequests : k > received' => answers'[k] = <<>>
  BY <1>1, <1>2, <1>3 DEF AnswerInv
<1>10. \A i, kinds : Foreign(i, kinds) => Foreign(i, kinds)'
  BY <1>1, <1>5 DEF Foreign
<1>11. /\ \A e \in Events : registry'[e].live => Foreign(registry[e].dialog, {"subscribe"})'
       /\ \A j \in jobs' : /\ Foreign(j, {"broadcast", "snapshot", "upgrade"})'
                           /\ \A k \in Receivers : pc'[k] # "idle" => Nr(k)' # j
  BY <1>1, <1>5, <1>10 DEF AnswerInv
<1>12. DOMAIN registry' = Events /\ \A e \in Events : DOMAIN registry'[e] = {"dialog", "cseq", "live"}
  BY <1>1 DEF AnswerInv
<1> QED
  BY <1>1, <1>3, <1>4, <1>7, <1>8, <1>9, <1>11, <1>12 DEF AnswerInv

(* A request is handled to the end.                                           *)
LEMMA FinishAnswers ==
  ASSUME MaxRequests \in Nat, PageItems \in Nat \ {0}, LoopInv, AnswerInv, NEW h \in Receivers, M!Finish(h)
  PROVE  AnswerInv'
<1>1. /\ pc[h] = "send" /\ todo[h] = <<>> /\ pc' = [pc EXCEPT ![h] = "idle"]
      /\ finished' = IF stopped THEN finished ELSE finished \cup {doing[h]}
      /\ jobs' = IF M!Exchange(doing[h]) THEN jobs \cup {Nr(h)} ELSE jobs
      /\ UNCHANGED <<received, doing, todo, answers, registry, stopped>>
  BY DEF M!Finish, Nr
<1>2. pc'[h] = "idle" /\ \A k \in Receivers : k # h => pc'[k] = pc[k]
  BY <1>1 DEF LoopInv, LoopShape
<1>3. \A k \in Receivers : Nr(k)' = Nr(k)
  BY <1>1 DEF Nr
<1>4. Nr(h) \in 1 .. received /\ \A k \in Receivers : pc'[k] # "idle" => pc[k] # "idle" /\ Nr(k) # Nr(h)
  BY <1>1, <1>2 DEF LoopInv, Numbered
<1>5. \A k \in Receivers : Owing(k)'
  BY <1>1, <1>2, <1>3 DEF AnswerInv, Owing, Underway
<1>6. ASSUME ~stopped PROVE Handled(doing[h])'
  <2>1. PICK r : r = doing[h]
    OBVIOUS
  <2>2. r.n = Nr(h)
    BY <2>1 DEF Nr
  <2>3. ASSUME r.kind \in Lists \cup Orders
        PROVE  r.items \in Nat /\ answers[r.n] = M!AnswersTo(r)
    <3>1. /\ doing[h].items \in Nat /\ answers[Nr(h)] \in Seq(OneAnswer)
          /\ answers[Nr(h)] \o todo[h] = M!AnswersTo(doing[h])
      BY <1>1, <1>6, <2>1, <2>3 DEF AnswerInv, Owing, Underway
    <3>2. answers[Nr(h)] \o <<>> = answers[Nr(h)]
      BY <3>1, ConcatEmptySeq
    <3> QED
      BY <1>1, <2>1, <2>2, <3>1, <3>2
  <2>4. r.kind \in Orders => Judged(answers[r.n], r.kind)
    BY <2>3, AnswersAre
  <2>5. Handled(r)'
    BY <1>1, <1>3, <1>4, <2>2, <2>3, <2>4 DEF Handled
  <2> QED
    BY <1>1, <2>1, <2>5 DEF Handled
<1>7. ASSUME NEW r \in finished PROVE Handled(r)'
  BY <1>1, <1>3, <1>4 DEF AnswerInv, Handled
<1>8. \A r \in finished' : Handled(r)'
  <2>1. CASE stopped
    BY <1>1, <1>7, <2>1
  <2>2. CASE ~stopped
    <3> SUFFICES ASSUME NEW r \in finished' PROVE Handled(r)'
      OBVIOUS
    <3>1. CASE r = doing[h]
      BY <1>1, <1>6, <2>2, <3>1 DEF Handled
    <3>2. CASE r \in finished
      BY <1>7, <3>2
    <3> QED
      BY <1>1, <2>2, <3>1, <3>2
  <2> QED
    BY <2>1, <2>2
<1>9. ASSUME NEW i, NEW kinds, Foreign(i, kinds) PROVE Foreign(i, kinds)'
  <2>1. \A r \in finished' : r.n = i => r.kind \in kinds
    BY <1>1, <1>9 DEF Foreign, Nr
  <2>2. \A k \in Receivers : pc'[k] # "idle" /\ Nr(k)' = i => doing'[k].kind \in kinds
    BY <1>1, <1>3, <1>4, <1>9 DEF Foreign
  <2> QED
    BY <1>1, <1>9, <2>1, <2>2 DEF Foreign
<1>10. /\ \A e \in Events : registry'[e].live => Foreign(registry[e].dialog, {"subscribe"})'
       /\ DOMAIN registry' = Events /\ \A e \in Events : DOMAIN registry'[e] = {"dialog", "cseq", "live"}
  <2>1. \A e \in Events : registry[e].live => \A d : d = registry[e].dialog => Foreign(d, {"subscribe"})
    BY DEF AnswerInv
  <2>2. \A e \in Events : registry'[e].live => \A d : d = registry'[e].dialog => Foreign(d, {"subscribe"})'
    BY <1>1, <1>9, <2>1
  <2> QED
    BY <1>1, <2>2 DEF AnswerInv, Foreign
<1>11. ASSUME NEW j \in jobs'
       PROVE  /\ Foreign(j, {"broadcast", "snapshot", "upgrade"})'
              /\ \A k \in Receivers : pc'[k] # "idle" => Nr(k)' # j
  <2>1. CASE j \in jobs
    BY <1>3, <1>4, <1>9, <2>1 DEF AnswerInv
  <2>2. CASE j \notin jobs
    <3>1. j = Nr(h) /\ doing[h].kind \in {"broadcast", "snapshot", "upgrade"}
      BY <1>1, <2>2 DEF M!Exchange
    <3>2. \A k \in Receivers : pc'[k] # "idle" => Nr(k)' # j
      BY <1>3, <1>4, <3>1
    <3>3. \A r \in finished : r.n # j
      BY <1>1, <3>1 DEF AnswerInv, Handled
    <3>4. \A r \in finished' : r.n = j => r.kind \in {"broadcast", "snapshot", "upgrade"}
      BY <1>1, <3>1, <3>3
    <3>5. j \in 1 .. received'
      BY <1>1, <1>4, <3>1
    <3> QED
      BY <3>2, <3>4, <3>5 DEF Foreign
  <2> QED
    BY <2>1, <2>2
<1>12. /\ DOMAIN answers' = 1 .. MaxRequests /\ DOMAIN todo' = Receivers
       /\ \A i \in 1 .. MaxRequests : i > received' => answers'[i] = <<>>
  BY <1>1 DEF AnswerInv
<1> QED
  BY <1>5, <1>8, <1>10, <1>11, <1>12 DEF AnswerInv

(* An exchange ends: its request was handled to the end long ago.             *)
LEMMA ExchangeAnswers ==
  ASSUME MaxRequests \in Nat, LoopInv, AnswerInv, NEW j \in jobs, M!ExchangeEnds(j)
  PROVE  AnswerInv'
<1> DEFINE kinds == {"broadcast", "snapshot", "upgrade"}
<1>1. PICK result \in {"done", "failed"} : M!Say(j, M!Response(result))
  BY DEF M!ExchangeEnds
<1>2. /\ jobs' = jobs \ {j}
      /\ UNCHANGED <<received, pc, doing, todo, finished, registry, stopped>>
  BY DEF M!ExchangeEnds, M!handling
<1>3. PICK a : a = M!Response(result)
  OBVIOUS
<1>4. a \in OneAnswer /\ a.says \in {"done", "failed"} /\ M!Say(j, a)
  BY <1>1, <1>3 DEF M!Response, OneAnswer, Says
<1>5. Foreign(j, kinds) /\ \A h \in Receivers : pc[h] # "idle" => Nr(h) # j
  BY DEF AnswerInv
<1>6. kinds \cap Lists = {} /\ \A h \in Receivers : Underway(h) => Nr(h) # j
  BY <1>5 DEF Lists, Underway
<1>7. /\ DOMAIN answers' = 1 .. MaxRequests
      /\ \A k \in 1 .. MaxRequests : k > received' => answers'[k] = <<>>
      /\ \A h \in Receivers : Owing(h)'
      /\ \A r \in finished' : Handled(r)'
  <2> HIDE DEF kinds
  <2> QED
    BY <1>2, <1>4, <1>5, <1>6, ForeignAnswers
<1>8. \A i, ks : Foreign(i, ks) => Foreign(i, ks)'
  BY <1>2 DEF Foreign, Nr
<1>9. /\ \A e \in Events : registry'[e].live => Foreign(registry[e].dialog, {"subscribe"})'
      /\ DOMAIN registry' = Events /\ \A e \in Events : DOMAIN registry'[e] = {"dialog", "cseq", "live"}
  BY <1>2 DEF AnswerInv, Foreign, Nr
<1>10. \A i \in jobs' : /\ Foreign(i, {"broadcast", "snapshot", "upgrade"})'
                        /\ \A h \in Receivers : pc'[h] # "idle" => Nr(h)' # i
  BY <1>2, <1>8 DEF AnswerInv, Nr
<1>11. DOMAIN todo' = Receivers
  BY <1>2 DEF AnswerInv
<1> QED
  BY <1>7, <1>9, <1>10, <1>11 DEF AnswerInv

(* A notification belongs to the dialog of a SUBSCRIBE.                       *)
LEMMA NotifyAnswers ==
  ASSUME MaxRequests \in Nat, LoopInv, AnswerInv, NEW e \in Events, M!Notify(e),
         UNCHANGED <<received, pc, doing, todo, finished, jobs, stopped>>
  PROVE  AnswerInv'
<1>1. PICK d : d = registry[e].dialog
  OBVIOUS
<1>2. PICK a : M!Say(d, a)
  BY <1>1 DEF M!Notify
<1>3. registry[e].live /\ registry' = [registry EXCEPT ![e].cseq = @ + 1]
  BY DEF M!Notify
<1>4. Foreign(d, {"subscribe"})
  BY <1>1, <1>3 DEF AnswerInv
<1>5. \A h \in Receivers : Underway(h) => Nr(h) # d
  BY <1>4 DEF Foreign, Underway, Lists, Orders
<1>6. /\ DOMAIN answers' = 1 .. MaxRequests
      /\ \A k \in 1 .. MaxRequests : k > received' => answers'[k] = <<>>
      /\ \A h \in Receivers : Owing(h)'
      /\ \A r \in finished' : Handled(r)'
  <2>1. {"subscribe"} \cap Lists = {} /\ {"subscribe"} \cap Orders = {}
    BY DEF Lists, Orders
  <2> QED
    BY <1>2, <1>4, <1>5, <2>1, ForeignAnswers
<1>7. \A i, ks : Foreign(i, ks) => Foreign(i, ks)'
  BY DEF Foreign, Nr
<1>8. /\ DOMAIN registry' = Events
      /\ \A f \in Events : /\ DOMAIN registry'[f] = {"dialog", "cseq", "live"}
                           /\ registry'[f].live = registry[f].live /\ registry'[f].dialog = registry[f].dialog
  BY <1>3 DEF AnswerInv
<1>9. \A f \in Events : registry'[f].live => Foreign(registry[f].dialog, {"subscribe"})'
  BY <1>8 DEF AnswerInv, Foreign, Nr
<1>10. \A i \in jobs' : /\ Foreign(i, {"broadcast", "snapshot", "upgrade"})'
                        /\ \A h \in Receivers : pc'[h] # "idle" => Nr(h)' # i
  BY <1>7 DEF AnswerInv, Nr
<1>11. DOMAIN todo' = Receivers
  BY DEF AnswerInv
<1> QED
  BY <1>6, <1>8, <1>9, <1>10, <1>11 DEF AnswerInv

MessagesInv == LoopInv /\ AnswerInv

LEMMA MessagesStep ==
  ASSUME MaxRequests \in Nat, PageItems \in Nat \ {0}, Position \in Events,
         \A r \in Requests : r.items \in Nat, MessagesInv, [M!Next]_(M!vars)
  PROVE  MessagesInv'
<1>1. LoopInv'
  BY LoopsStep DEF MessagesInv
<1> SUFFICES ASSUME LoopInv, AnswerInv PROVE AnswerInv'
  BY <1>1 DEF MessagesInv
<1>2. ASSUME NEW h \in Receivers, NEW r \in Requests, M!Receive(h, r)
      PROVE  AnswerInv'
  BY <1>2, ReceiveAnswers
<1>3. ASSUME NEW h \in Receivers, M!Send(h)
      PROVE  AnswerInv'
  BY <1>3, SendAnswers
<1>4. ASSUME NEW h \in Receivers, M!Finish(h)
      PROVE  AnswerInv'
  BY <1>4, FinishAnswers
<1>5. ASSUME NEW j \in jobs, M!ExchangeEnds(j)
      PROVE  AnswerInv'
  BY <1>5, ExchangeAnswers
<1>6. ASSUME NEW e \in Events, M!HostNotify(e)
      PROVE  AnswerInv'
  BY <1>6, NotifyAnswers DEF M!HostNotify, M!handling
<1>7. ASSUME NEW i \in DOMAIN loops, M!Report(i)
      PROVE  AnswerInv'
  BY <1>7, NotifyAnswers DEF M!Report, M!handling
<1>8. ASSUME UNCHANGED <<received, doing, todo, answers, finished, jobs, registry>>, stopped => stopped',
             \A h \in Receivers : pc'[h] # "idle" => pc[h] # "idle"
      PROVE  AnswerInv'
  <2>1. DOMAIN registry' = Events /\ \A e \in Events : DOMAIN registry'[e] = {"dialog", "cseq", "live"}
    BY <1>8 DEF AnswerInv
  <2> QED
    BY <1>8, <2>1, QuietAnswers
<1>9. ASSUME NEW h \in Receivers, M!SwapLoop(h) \/ M!CloseOld(h)
      PROVE  AnswerInv'
  <2>1. \A k \in Receivers : pc'[k] # "idle" => pc[k] # "idle"
    BY <1>9 DEF M!SwapLoop, M!CloseOld, LoopInv, LoopShape
  <2> QED
    BY <1>8, <1>9, <2>1 DEF M!SwapLoop, M!CloseOld
<1>10. ASSUME NEW i \in DOMAIN loops, M!LoopEnds(i)
       PROVE  AnswerInv'
  BY <1>8, <1>10 DEF M!LoopEnds, M!handling
<1>11. CASE M!Stop \/ UNCHANGED M!vars
  BY <1>8, <1>11 DEF M!Stop, M!vars, M!handling
<1>12. ASSUME NEW e \in Events, M!Expire(e)
       PROVE  AnswerInv'
  <2>1. /\ registry' = [registry EXCEPT ![e] = M!NoSub]
        /\ UNCHANGED <<received, doing, todo, answers, finished, jobs, stopped, pc>>
    BY <1>12 DEF M!Expire, M!handling
  <2>2. /\ DOMAIN registry' = Events /\ \A f \in Events : DOMAIN registry'[f] = {"dialog", "cseq", "live"}
        /\ \A f \in Events : registry'[f].live => registry[f].live /\ registry'[f].dialog = registry[f].dialog
    BY <2>1 DEF AnswerInv, M!NoSub
  <2> QED
    BY <2>1, <2>2, QuietAnswers
<1> QED
  BY <1>2, <1>3, <1>4, <1>5, <1>6, <1>7, <1>9, <1>10, <1>11, <1>12 DEF M!Next

(* What was handled to the end has its whole answer.                          *)
LEMMA AnswersWhole ==
  ASSUME PageItems \in Nat \ {0}, AnswerInv
  PROVE  M!AnswersComplete
<1> SUFFICES ASSUME NEW r \in finished
             PROVE  /\ r.kind \in Lists => M!ListComplete(answers[r.n], r.items)
                    /\ r.kind \in Orders => M!OneVerdict(answers[r.n], r.kind \in Installed)
  BY DEF M!AnswersComplete, Lists, Orders
<1>1. Handled(r)
  BY DEF AnswerInv
<1>2. r.kind \in Lists => M!ListComplete(answers[r.n], r.items)
  BY <1>1, AnswersAre DEF Handled
<1>3. ASSUME r.kind \in Orders PROVE M!OneVerdict(answers[r.n], r.kind \in Installed)
  <2>1. PICK s : s = answers[r.n]
    OBVIOUS
  <2>2. /\ s \in Seq(OneAnswer) /\ Len(s) >= 2 /\ s[1] = M!OK200 /\ s[2] = M!Verdict(r.kind)
        /\ \A i \in 3 .. Len(s) : s[i].says \in {"done", "failed"}
    BY <1>1, <1>3, <2>1 DEF Handled, Judged
  <2>3. Len(s) \in Nat /\ DOMAIN s = 1 .. Len(s)
    BY <2>2, LenProperties
  <2>4. s[2].says = IF r.kind \in Installed THEN "OK" ELSE "ERROR"
    BY <2>2 DEF M!Verdict, M!Response
  <2>5. s[1].says = "200"
    BY <2>2 DEF M!OK200
  <2>6. ASSUME NEW i \in DOMAIN s, s[i].says \in {"OK", "ERROR"} PROVE i = 2
    <3>1. i # 1
      BY <2>5, <2>6
    <3>2. i \notin 3 .. Len(s)
      BY <2>2, <2>6
    <3> QED
      BY <2>3, <3>1, <3>2
  <2>7. 2 \in DOMAIN s
    BY <2>2, <2>3
  <2>8. M!OneVerdict(s, r.kind \in Installed)
    BY <2>4, <2>6, <2>7 DEF M!OneVerdict
  <2> QED
    BY <2>1, <2>8
<1> QED
  BY <1>2, <1>3
-----------------------------------------------------------------------------
(***************************************************************************)
(* A stream that can be decoded, of whatever recordings, ranges and controls. *)
(* The goroutine never looks back: all it has sent since the last start or   *)
(* seek is earlier than the frames it has yet to read of the segment, and    *)
(* than the segments it has yet to open, which follow in order.              *)
(***************************************************************************)
Frame == [t : Nat, key : BOOLEAN]

(* Everything sent is earlier than the frames of segment s from the k-th on.  *)
Past(s, k) ==
  \A i \in DOMAIN frames, j \in DOMAIN P!Frames[s] : j >= k => frames[i].t < P!Frames[s][j].t

Reading == at \in {"read", "held"}

PlayShape ==
  /\ from \in Nat /\ to \in Nat /\ left \subseteq DOMAIN Recordings
  /\ queue \in Seq(P!Commands) /\ frames \in Seq(Frame)
  /\ at \in {"open", "read", "held", "over"}
  /\ Reading => seg \in DOMAIN Recordings /\ frame \in Nat \ {0}

(* A seek beyond every recording forgets what was sent, and ends.             *)
Begun == at # "over" => (started <=> frames # <<>>)

Ahead ==
  /\ at # "over" => \A s \in left : Past(s, 1)
  /\ Reading => /\ Past(seg, frame)
                /\ \A s \in left : s # seg /\ Recordings[seg].start <= Recordings[s].start

Holding == at = "held" => frame \in DOMAIN P!Frames[seg] /\ P!Frames[seg][frame].t \in from .. to

PlayInv == PlayShape /\ Begun /\ Ahead /\ Holding /\ P!GoodStream
-----------------------------------------------------------------------------
(* The access units of a segment are a sequence.                              *)
LEMMA FramesAre ==
  ASSUME NEW s \in DOMAIN Recordings PROVE P!Frames[s] \in Seq(Frame)
<1>1. /\ Recordings[s].start \in Nat /\ Recordings[s].nalus \in Seq(STRING)
      /\ Recordings[s].pts \in Seq(Nat) /\ Nominal \in Nat
  <2> DEFINE Segments == [start : Nat, nalus : Seq(STRING), pts : Seq(Nat)]
  <2>1. Recordings[s] \in Segments
    <3>1. Recordings \in Seq(Segments)
      BY RecordingsAssumption
    <3> HIDE DEF Segments
    <3>2. Recordings \in [1 .. Len(Recordings) -> Segments]
      BY <3>1, LenProperties
    <3> QED
      BY <3>2
  <2> QED
    BY <2>1, RecordingsAssumption
<1> DEFINE nalus == Recordings[s].nalus
           top == P!NumberOf(nalus, Len(nalus))
<1>2. Len(nalus) \in Nat
  BY <1>1
<1>3. top \in Nat
  <2>1. IsFiniteSet(1 .. Len(nalus))
    BY <1>2, FS_Interval
  <2>2. {j \in 1 .. Len(nalus) : P!StartsNewAU(nalus, j)} \subseteq 1 .. Len(nalus)
    OBVIOUS
  <2>3. IsFiniteSet({j \in 1 .. Len(nalus) : P!StartsNewAU(nalus, j)})
    BY <2>1, <2>2, FS_Subset
  <2>4. Cardinality({j \in 1 .. Len(nalus) : P!StartsNewAU(nalus, j)}) \in Nat
    BY <2>3, FS_CardinalityType
  <2>5. P!NumberOf(nalus, Len(nalus)) = Cardinality({j \in 1 .. Len(nalus) : P!StartsNewAU(nalus, j)})
    BY Zenon DEF P!NumberOf, P!Cardinality, Cardinality
  <2> QED
    BY <2>4, <2>5, Zenon
<1>4. DOMAIN P!AccessUnits(nalus) = 1 .. top
  BY DEF P!AccessUnits
<1>5. P!Frames[s] = [k \in 1 .. top |-> [t |-> Recordings[s].start + P!Pts(Recordings[s], k),
                                          key |-> "idr" \in P!AccessUnits(nalus)[k]]]
  BY <1>4 DEF P!Frames
<1>6. ASSUME NEW k \in 1 .. top PROVE P!Pts(Recordings[s], k) \in Nat
  <2>1. CASE k <= Len(Recordings[s].pts)
    <3>1. k \in 1 .. Len(Recordings[s].pts)
      BY <1>1, <1>3, <2>1
    <3> QED
      BY <1>1, <2>1, <3>1 DEF P!Pts
  <2>2. CASE ~(k <= Len(Recordings[s].pts))
    <3>1. k - 1 \in Nat
      BY <1>3
    <3>2. (k - 1) * Nominal \in Nat
      BY <1>1, <3>1
    <3> QED
      BY <2>2, <3>2 DEF P!Pts
  <2> QED
    BY <2>1, <2>2
<1>7. ASSUME NEW k \in 1 .. top
      PROVE  [t |-> Recordings[s].start + P!Pts(Recordings[s], k),
              key |-> "idr" \in P!AccessUnits(nalus)[k]] \in Frame
  BY <1>1, <1>6 DEF Frame
<1> HIDE DEF top, nalus
<1> QED
  BY <1>3, <1>5, <1>7

LEMMA InitPlay == P!Init => PlayInv
<1> SUFFICES ASSUME P!Init PROVE PlayInv
  OBVIOUS
<1>1. from \in Nat /\ to \in Nat
  BY RecordingsAssumption DEF P!Init
<1>2. left \subseteq DOMAIN Recordings
  BY DEF P!Init, P!Covering
<1>3. frames = <<>> /\ queue = <<>> /\ at = "open" /\ started = FALSE
  BY DEF P!Init
<1> QED
  BY <1>1, <1>2, <1>3
  DEF PlayInv, PlayShape, Begun, Ahead, Holding, Reading, Past, P!GoodStream

(* What was sent stays, and the goroutine is over or goes on to a segment.    *)
LEMMA RestStep ==
  ASSUME PlayInv, UNCHANGED <<from, to, left, queue, frames>>, at # "over",
         at' = "over" \/ (at' = "open" /\ UNCHANGED started)
  PROVE  PlayInv'
  BY DEF PlayInv, PlayShape, Begun, Ahead, Holding, Reading, Past, P!GoodStream

(* One more frame, from the one that is held on.                              *)
LEMMA SendStep ==
  ASSUME PlayInv, at = "held", NEW k \in DOMAIN P!Frames[seg], k >= frame,
         P!Frames[seg][k].t <= to, started \/ P!Frames[seg][k].key,
         frames' = Append(frames, P!Frames[seg][k]), at' = "read", started' = TRUE, frame' = k + 1,
         UNCHANGED <<from, to, left, seg, queue>>
  PROVE  PlayInv'
<1>1. PICK c : c = P!Frames[seg]
  OBVIOUS
<1>2. PICK fs : fs = frames
  OBVIOUS
<1>3. PICK gs : gs = frames'
  OBVIOUS
<1>4. /\ seg \in DOMAIN Recordings /\ fs \in Seq(Frame) /\ frame \in DOMAIN c
      /\ c[frame].t \in from .. to /\ from \in Nat /\ to \in Nat
  BY <1>1, <1>2 DEF PlayInv, PlayShape, Reading, Holding
<1>5. c \in Seq(Frame)
  BY <1>1, <1>4, FramesAre
<1>6. Len(c) \in Nat /\ DOMAIN c = 1 .. Len(c) /\ k \in 1 .. Len(c) /\ c[k] \in Frame /\ frame \in Nat
  BY <1>1, <1>4, <1>5
<1>7. \A i, j \in DOMAIN c : i < j => c[i].t < c[j].t
  BY <1>1, <1>4, RecordingsAssumption
<1>8. c[k].t \in from .. to
  <2>1. c[frame].t \in Nat /\ c[k].t \in Nat /\ c[k].t <= to
    <3>1. frame \in 1 .. Len(c)
      BY <1>4, <1>6
    <3>2. c[frame] \in Frame
      BY <1>5, <3>1
    <3>3. c[k].t <= to
      BY <1>1
    <3> QED
      BY <1>6, <3>2, <3>3 DEF Frame
  <2>2. k = frame \/ c[frame].t < c[k].t
    BY <1>4, <1>6, <1>7
  <2> QED
    BY <1>4, <2>1, <2>2
<1>9. /\ gs \in Seq(Frame) /\ Len(fs) \in Nat /\ Len(gs) = Len(fs) + 1
      /\ DOMAIN gs = 1 .. Len(fs) + 1 /\ DOMAIN fs = 1 .. Len(fs)
      /\ \A i \in 1 .. Len(fs) : gs[i] = fs[i] /\ fs[i] \in Frame
      /\ gs[Len(fs) + 1] = c[k] /\ gs # <<>>
  <2>1. gs = Append(fs, c[k])
    BY <1>1, <1>2, <1>3
  <2> QED
    BY <1>4, <1>6, <2>1, SMTT(30)
<1>10. /\ \A i \in DOMAIN fs, j \in DOMAIN c : j >= frame => fs[i].t < c[j].t
       /\ \A s \in left : s # seg /\ Recordings[seg].start <= Recordings[s].start
       /\ \A s \in left : Past(s, 1)
  BY <1>1, <1>2 DEF PlayInv, Ahead, Reading, Past
<1>11. PlayShape'
  BY <1>3, <1>4, <1>6, <1>9 DEF PlayInv, PlayShape, Reading
<1>12. Begun' /\ Holding'
  BY <1>3, <1>9 DEF Begun, Holding
<1>13. Ahead'
  <2>1. ASSUME NEW i \in DOMAIN gs, NEW j \in DOMAIN c, j >= k + 1 PROVE gs[i].t < c[j].t
    <3>1. CASE i = Len(fs) + 1
      BY <1>6, <1>7, <1>9, <2>1, <3>1
    <3>2. CASE i # Len(fs) + 1
      <4>1. i \in DOMAIN fs /\ gs[i] = fs[i] /\ j >= frame
        BY <1>6, <1>9, <2>1, <3>2
      <4> QED
        BY <1>10, <4>1
    <3> QED
      BY <3>1, <3>2
  <2>2. ASSUME NEW s \in left, NEW i \in DOMAIN gs, NEW j \in DOMAIN P!Frames[s], j >= 1
        PROVE  gs[i].t < P!Frames[s][j].t
    <3>1. CASE i = Len(fs) + 1
      <4>1. s \in DOMAIN Recordings \ {seg} /\ Recordings[seg].start <= Recordings[s].start
        BY <1>10 DEF PlayInv, PlayShape
      <4>2. c[k].t < P!Frames[s][j].t
        BY <1>1, <1>4, <4>1, RecordingsAssumption
      <4> QED
        BY <1>9, <3>1, <4>2
    <3>2. CASE i # Len(fs) + 1
      <4>1. i \in DOMAIN fs /\ gs[i] = fs[i]
        BY <1>9, <3>2
      <4> QED
        BY <1>2, <1>10, <2>2, <4>1 DEF Past
    <3> QED
      BY <3>1, <3>2
  <2>3. Past(seg, frame)'
    BY <1>1, <1>3, <2>1 DEF Past
  <2>4. \A s \in left : Past(s, 1)'
    BY <1>3, <2>2 DEF Past
  <2> QED
    BY <1>10, <2>3, <2>4 DEF Ahead, Reading
<1>14. P!GoodStream'
  <2>0. /\ fs # <<>> => fs[1].key
        /\ \A i \in DOMAIN fs : fs[i].t \in from .. to
        /\ \A i, j \in DOMAIN fs : i < j => fs[i].t < fs[j].t
    BY <1>2 DEF PlayInv, P!GoodStream
  <2>1. gs[1].key
    <3>1. CASE fs = <<>>
      <4>1. ~started
        BY <1>2, <3>1 DEF PlayInv, Begun
      <4>2. Len(fs) = 0
        BY <3>1
      <4> QED
        BY <1>1, <1>9, <4>1, <4>2
    <3>2. CASE fs # <<>>
      <4>1. 1 \in 1 .. Len(fs)
        BY <1>4, <1>9, <3>2
      <4> QED
        BY <1>9, <2>0, <3>2, <4>1
    <3> QED
      BY <3>1, <3>2
  <2>2. \A i \in DOMAIN gs : gs[i].t \in from .. to
    BY <1>8, <1>9, <2>0
  <2>3. ASSUME NEW i \in DOMAIN gs, NEW j \in DOMAIN gs, i < j PROVE gs[i].t < gs[j].t
    <3>0. i \in DOMAIN fs /\ gs[i] = fs[i]
      BY <1>9, <2>3
    <3>1. CASE j = Len(fs) + 1
      <4>1. fs[i].t < c[k].t
        BY <1>1, <1>10, <3>0
      <4> QED
        BY <1>9, <3>0, <3>1, <4>1
    <3>2. CASE j # Len(fs) + 1
      <4>1. j \in DOMAIN fs /\ gs[j] = fs[j]
        BY <1>9, <3>2
      <4> QED
        BY <2>0, <2>3, <3>0, <4>1
    <3> QED
      BY <3>1, <3>2
  <2> QED
    BY <1>3, <2>1, <2>2, <2>3 DEF P!GoodStream
<1> QED
  BY <1>11, <1>12, <1>13, <1>14 DEF PlayInv

(* A seek starts over, or ends.                                               *)
LEMMA SeekStep ==
  ASSUME PlayInv, at = "held", NEW r \in Ranges, P!Seek(r), queue' \in Seq(P!Commands)
  PROVE  PlayInv'
<1>1. from' \in Nat /\ to' \in Nat
  BY RecordingsAssumption DEF P!Seek
<1>2. left' \subseteq DOMAIN Recordings
  BY DEF P!Seek, P!Covering
<1>3. frames' = <<>> /\ (at' = "over" \/ (at' = "open" /\ started' = FALSE))
  BY DEF P!Seek, P!Finish
<1> QED
  BY <1>1, <1>2, <1>3
  DEF PlayInv, PlayShape, Begun, Ahead, Holding, Reading, Past, P!GoodStream

LEMMA PlayStep == ASSUME PlayInv, [P!Next]_(P!vars) PROVE PlayInv'
<1>1. CASE P!OpenSegment
  <2>1. PICK s \in left :
          /\ P!ComesNext(s) /\ left' = left \ {s}
          /\ \/ at' = "read" /\ seg' = s /\ frame' = 1
             \/ UNCHANGED <<at, seg, frame>>
    BY <1>1 DEF P!OpenSegment
  <2>2. at = "open" /\ UNCHANGED <<from, to, started, queue, frames>>
    BY <1>1 DEF P!OpenSegment
  <2>3. PlayShape' /\ Begun' /\ Holding'
    BY <2>1, <2>2 DEF PlayInv, PlayShape, Begun, Holding, Reading
  <2>4. Ahead'
    BY <2>1, <2>2 DEF PlayInv, Ahead, Reading, Past, P!ComesNext
  <2>5. P!GoodStream'
    BY <2>2 DEF PlayInv, P!GoodStream
  <2> QED
    BY <2>3, <2>4, <2>5 DEF PlayInv
<1>2. CASE P!Exhausted
  BY <1>2, RestStep DEF P!Exhausted, P!Finish
<1>3. CASE P!ReadFrame
  <2>1. CASE at' \in {"open", "over"}
    BY <1>3, <2>1, RestStep DEF P!ReadFrame, P!Finish
  <2>2. CASE at' \notin {"open", "over"}
    <3>1. /\ at = "read" /\ UNCHANGED <<from, to, left, started, queue, frames, seg>>
          /\ \/ at' = "read" /\ frame' = frame + 1
             \/ /\ frame <= Len(P!Frames[seg]) /\ P!Frames[seg][frame].t \in from .. to
                /\ at' = "held" /\ frame' = frame
      BY <1>3, <2>2 DEF P!ReadFrame, P!Finish, P!NextSegment, P!Held, P!Current
    <3>2. seg \in DOMAIN Recordings /\ frame \in Nat \ {0}
      BY <3>1 DEF PlayInv, PlayShape, Reading
    <3>3. PlayShape' /\ Begun'
      BY <3>1, <3>2 DEF PlayInv, PlayShape, Begun, Reading
    <3>4. Ahead'
      <4>1. PICK c : c = P!Frames[seg]
        OBVIOUS
      <4>2. c \in Seq(Frame)
        BY <3>2, <4>1, FramesAre
      <4>3. \A j \in DOMAIN c : j \in Nat
        BY <4>2
      <4>4. \A i \in DOMAIN frames, j \in DOMAIN c : j >= frame => frames[i].t < c[j].t
        BY <3>1, <4>1 DEF PlayInv, Ahead, Reading, Past
      <4>5. \A i \in DOMAIN frames, j \in DOMAIN c : j >= frame' => frames[i].t < c[j].t
        BY <3>1, <3>2, <4>3, <4>4
      <4>6. Past(seg, frame)'
        BY <3>1, <4>1, <4>5 DEF Past
      <4> QED
        BY <3>1, <4>6 DEF PlayInv, Ahead, Reading, Past
    <3>5. Holding'
      BY <3>1, <3>2, FramesAre DEF Holding
    <3>6. P!GoodStream'
      BY <3>1 DEF PlayInv, P!GoodStream
    <3> QED
      BY <3>3, <3>4, <3>5, <3>6 DEF PlayInv
  <2> QED
    BY <2>1, <2>2
<1>4. CASE P!SendHeld
  <2>1. /\ at = "held" /\ (started \/ P!Frames[seg][frame].key)
        /\ frames' = Append(frames, P!Frames[seg][frame])
        /\ at' = "read" /\ started' = TRUE /\ frame' = frame + 1
        /\ UNCHANGED <<from, to, left, seg, queue>>
    BY <1>4 DEF P!SendHeld, P!Send, P!MayStart, P!Held, P!Current
  <2>2. frame \in DOMAIN P!Frames[seg] /\ P!Frames[seg][frame].t <= to /\ frame >= frame
    BY <2>1 DEF PlayInv, PlayShape, Reading, Holding
  <2> QED
    BY <2>1, <2>2, SendStep
<1>5. CASE P!SendFails
  BY <1>5, RestStep DEF P!SendFails, P!Finish
<1>6. CASE P!FastForward
  <2>0. at = "held" /\ UNCHANGED <<from, to, left, queue>>
    BY <1>6 DEF P!FastForward
  <2>1. CASE P!Stops = {}
    BY <1>6, <2>0, <2>1, RestStep DEF P!FastForward, P!NextSegment
  <2>2. CASE P!Stops # {}
    <3>1. PICK k \in P!Stops :
            IF P!Current[k].t > to \/ bye
            THEN P!Finish /\ UNCHANGED <<seg, frame, started, anchored, frames>>
            ELSE P!Send(P!Current[k]) /\ frame' = k + 1 /\ UNCHANGED <<seg, notified>>
      BY <1>6, <2>2 DEF P!FastForward
    <3>2. CASE P!Current[k].t > to \/ bye
      BY <2>0, <3>1, <3>2, RestStep DEF P!Finish
    <3>3. CASE ~(P!Current[k].t > to \/ bye)
      <4>1. /\ frames' = Append(frames, P!Frames[seg][k]) /\ at' = "read" /\ started' = TRUE
            /\ frame' = k + 1 /\ UNCHANGED seg
        BY <3>1, <3>3 DEF P!Send, P!Current
      <4>2. seg \in DOMAIN Recordings /\ frame \in Nat /\ frame \in DOMAIN P!Frames[seg] /\ to \in Nat
        BY <2>0 DEF PlayInv, PlayShape, Reading, Holding
      <4>3. PICK c : c = P!Frames[seg]
        OBVIOUS
      <4>4. c \in Seq(Frame)
        BY <4>2, <4>3, FramesAre
      <4>5. k \in frame + 1 .. Len(c) /\ (c[k].key \/ c[k].t > to) /\ ~(c[k].t > to)
        BY <3>1, <3>3, <4>3 DEF P!Stops, P!Current
      <4>6. k \in DOMAIN c /\ k >= frame /\ c[k] \in Frame
        BY <4>2, <4>4, <4>5
      <4>7. c[k].t <= to /\ c[k].key
        BY <4>2, <4>5, <4>6 DEF Frame
      <4> QED
        BY <2>0, <4>1, <4>3, <4>6, <4>7, SendStep
    <3> QED
      BY <3>2, <3>3
  <2> QED
    BY <2>1, <2>2
<1>7. CASE P!ApplyControl
  <2>1. at = "held" /\ queue # <<>> /\ queue' = Tail(queue)
    BY <1>7 DEF P!ApplyControl, P!Waits
  <2>2. PICK c : c = Head(queue)
    OBVIOUS
  <2>3. queue' \in Seq(P!Commands) /\ c \in P!Commands
    BY <2>1, <2>2 DEF PlayInv, PlayShape
  <2>4. CASE c.value = "SEEK"
    <3>1. c.range \in Ranges
      BY <2>3, <2>4 DEF P!Commands
    <3>2. P!Seek(c.range)
      BY <1>7, <2>2, <2>4 DEF P!ApplyControl
    <3> QED
      BY <2>1, <2>3, <3>1, <3>2, SeekStep
  <2>5. CASE c.value # "SEEK"
    <3>1. UNCHANGED <<from, to, left, seg, frame, at, started, frames>>
      BY <1>7, <2>2, <2>5 DEF P!ApplyControl
    <3> QED
      BY <2>3, <3>1 DEF PlayInv, PlayShape, Begun, Ahead, Holding, Reading, Past, P!GoodStream
  <2> QED
    BY <2>4, <2>5
<1>8. CASE P!Cancelled
  BY <1>8, RestStep DEF P!Cancelled, P!Finish, P!Waits
<1>9. ASSUME NEW c \in P!Commands, P!Info(c)
      PROVE  PlayInv'
  <2>1. queue' \in Seq(P!Commands)
    BY <1>9 DEF P!Info, PlayInv, PlayShape
  <2>2. UNCHANGED <<from, to, left, seg, frame, at, started, frames>>
    BY <1>9 DEF P!Info
  <2> QED
    BY <2>1, <2>2 DEF PlayInv, PlayShape, Begun, Ahead, Holding, Reading, Past, P!GoodStream
<1>10. CASE P!Bye \/ UNCHANGED P!vars
  <2>1. UNCHANGED <<from, to, left, seg, frame, at, started, queue, frames>>
    BY <1>10 DEF P!Bye, P!vars
  <2> QED
    BY <2>1 DEF PlayInv, PlayShape, Begun, Ahead, Holding, Reading, Past, P!GoodStream
<1> QED
  BY <1>1, <1>2, <1>3, <1>4, <1>5, <1>6, <1>7, <1>8, <1>9, <1>10 DEF P!Next
-----------------------------------------------------------------------------
(***************************************************************************)
(* The frames of an output, whatever is bound to it and whoever subscribes.   *)
(* Numbers only rise: those of the access units of this binding, of the cache *)
(* (which may begin before it), and of what a session has got and will get;   *)
(* and audio that waits is younger than every access unit.                   *)
(***************************************************************************)
Params == UNION {x.params : x \in Pictures \cup Streams}
AU == [n : Nat, key : BOOLEAN, size : {p.size : p \in Pictures}, audio : Seq(Nat),
       params : SUBSET Params]

Rising(q) == \A i, j \in DOMAIN q : i < j => q[i].n < q[j].n
UpTo(q, m) == \A i \in DOMAIN q : q[i].n <= m
Holds(q, x) == \E i \in DOMAIN q : q[i] = x

HubShape ==
  /\ n \in Nat /\ truncated \in BOOLEAN
  /\ conf.params \subseteq Params
  /\ gop \in Seq(AU) /\ made \in Seq(AU)
  /\ status \in [Subs -> {"new", "on", "leaving", "gone"}]
  /\ ch \in [Subs -> Seq(AU)] /\ got \in [Subs -> Seq(AU)]
  /\ overrun \in [Subs -> BOOLEAN] /\ owed \in [Subs -> Nat]

(* The newest key frame of q.                                                 *)
KeyAt(q, k) == k \in DOMAIN q /\ q[k].key /\ \A j \in k + 1 .. Len(q) : ~q[j].key

Group(q, k) == SubSeq(q, k, Len(q))

(* The cache has what was made since its first access unit.                   *)
Cached ==
  /\ Rising(made) /\ UpTo(made, n) /\ Rising(gop) /\ UpTo(gop, n)
  /\ \A i \in DOMAIN made : made[i].n # 0
  /\ ~truncated /\ gop # <<>> => \A k \in DOMAIN made : made[k].n >= gop[1].n => Holds(gop, made[k])
  /\ F!HasKey => \E k : KeyAt(made, k)
  /\ F!CacheIsLastGOP

(* What a session has got and what waits in its channel are one stream.       *)
InTurn(s) ==
  /\ status[s] = "new" => got[s] = <<>>
  /\ Len(ch[s]) <= SubCap
  /\ s \in F!Active => Rising(F!Stream(s)) /\ UpTo(F!Stream(s), n)

Waiting ==
  /\ audioQ \in Seq(Nat) /\ Len(audioQ) <= AudioMax
  /\ heard \subseteq 1 .. n
  /\ \A k \in DOMAIN audioQ : audioQ[k] \in heard

FrameInv ==
  /\ HubShape /\ Cached /\ (\A s \in Subs : InTurn(s)) /\ F!StreamInOrder
  /\ Waiting /\ F!AudioKept
-----------------------------------------------------------------------------
LEMMA InitFrames == F!Init => FrameInv
<1> SUFFICES ASSUME F!Init PROVE FrameInv
  OBVIOUS
<1>1. HubShape
  <2>1. conf.params = {}
    BY DEF F!Init
  <2>2. <<>> \in Seq(AU)
    BY EmptySeq
  <2>3. /\ status \in [Subs -> {"new", "on", "leaving", "gone"}]
        /\ ch \in [Subs -> Seq(AU)] /\ got \in [Subs -> Seq(AU)]
        /\ overrun \in [Subs -> BOOLEAN] /\ owed \in [Subs -> Nat]
    BY <2>2 DEF F!Init
  <2>4. n = 0 /\ truncated = FALSE /\ gop = <<>> /\ made = <<>>
    BY DEF F!Init
  <2> QED
    BY <2>1, <2>2, <2>3, <2>4 DEF HubShape
<1>2. made = <<>> /\ gop = <<>> /\ audioQ = <<>> /\ heard = {} /\ n = 0
  BY DEF F!Init
<1>3. Cached
  BY <1>2 DEF Cached, Rising, UpTo, F!CacheIsLastGOP, F!HasKey
<1>4. F!Active = {}
  BY DEF F!Init, F!Active
<1>5. \A s \in Subs : InTurn(s)
  BY <1>4, FramesAssumption DEF F!Init, InTurn
<1>6. F!StreamInOrder
  BY <1>4 DEF F!StreamInOrder
<1>7. Waiting /\ F!AudioKept
  BY <1>2, FramesAssumption DEF Waiting, F!AudioKept, F!Ascending
<1> QED
  BY <1>1, <1>3, <1>5, <1>6, <1>7 DEF FrameInv

(* r is q with one more access unit, younger than all before.                 *)
Longer(r, q, m, x) ==
  /\ r \in Seq(AU) /\ Len(q) \in Nat /\ Len(r) = Len(q) + 1 /\ r # <<>>
  /\ DOMAIN q = 1 .. Len(q) /\ DOMAIN r = 1 .. Len(q) + 1
  /\ \A i \in 1 .. Len(q) : r[i] = q[i] /\ q[i] \in AU /\ q[i].n \in Nat /\ q[i].n <= m
  /\ r[Len(q) + 1] = x
  /\ Rising(r) /\ UpTo(r, m + 1)
  /\ \A y : Holds(r, y) <=> Holds(q, y) \/ y = x

LEMMA AppendAU ==
  ASSUME NEW q \in Seq(AU), NEW m \in Nat, Rising(q), UpTo(q, m), NEW x \in AU, x.n = m + 1,
         NEW r, r = Append(q, x)
  PROVE  Longer(r, q, m, x)
<1>1. /\ r \in Seq(AU) /\ Len(q) \in Nat /\ Len(r) = Len(q) + 1 /\ r # <<>>
      /\ DOMAIN q = 1 .. Len(q) /\ DOMAIN r = 1 .. Len(q) + 1
      /\ \A i \in 1 .. Len(q) : r[i] = q[i] /\ q[i] \in AU
      /\ r[Len(q) + 1] = x
  OBVIOUS
<1>2. \A i \in 1 .. Len(q) : q[i].n \in Nat /\ q[i].n <= m
  BY <1>1 DEF UpTo, AU
<1>3. Rising(r)
  <2> SUFFICES ASSUME NEW i \in DOMAIN r, NEW j \in DOMAIN r, i < j PROVE r[i].n < r[j].n
    BY DEF Rising
  <2>1. i \in 1 .. Len(q)
    BY <1>1
  <2>2. CASE j = Len(q) + 1
    BY <1>1, <1>2, <2>1, <2>2
  <2>3. CASE j \in 1 .. Len(q)
    BY <1>1, <2>1, <2>3 DEF Rising
  <2> QED
    BY <1>1, <2>2, <2>3
<1>4. UpTo(r, m + 1)
  <2> SUFFICES ASSUME NEW i \in DOMAIN r PROVE r[i].n <= m + 1
    BY DEF UpTo
  <2>1. CASE i = Len(q) + 1
    BY <1>1, <2>1
  <2>2. CASE i \in 1 .. Len(q)
    <3>1. r[i] = q[i] /\ q[i].n \in Nat /\ q[i].n <= m
      BY <1>1, <1>2, <2>2
    <3> QED
      BY <3>1
  <2> QED
    BY <1>1, <2>1, <2>2
<1>5. ASSUME NEW y PROVE Holds(r, y) <=> Holds(q, y) \/ y = x
  <2>1. Len(q) + 1 \in DOMAIN r /\ \A i \in DOMAIN q : i \in DOMAIN r /\ r[i] = q[i]
    BY <1>1
  <2>2. \A i \in DOMAIN r : i \in DOMAIN q \/ i = Len(q) + 1
    BY <1>1
  <2> QED
    BY <1>1, <2>1, <2>2 DEF Holds
<1> QED
  BY <1>1, <1>2, <1>3, <1>4, <1>5 DEF Longer

(* ... and the only one.                                                      *)
LEMMA SingleAU ==
  ASSUME NEW m \in Nat, NEW x \in AU, x.n = m + 1
  PROVE  <<x>> \in Seq(AU) /\ Rising(<<x>>) /\ UpTo(<<x>>, m + 1) /\ Holds(<<x>>, x)
<1>1. /\ <<x>> \in Seq(AU) /\ DOMAIN <<x>> = {1} /\ <<x>>[1] = x
  OBVIOUS
<1> QED
  BY <1>1 DEF Rising, UpTo, Holds

LEMMA Later ==
  ASSUME NEW q, NEW m \in Nat, q \in Seq(AU), UpTo(q, m)
  PROVE  UpTo(q, m + 1)
<1>1. \A i \in DOMAIN q : q[i] \in AU
  BY LenProperties, ElementOfSeq
<1>2. \A i \in DOMAIN q : q[i].n \in Nat
  BY <1>1 DEF AU
<1> QED
  BY <1>2 DEF UpTo
-----------------------------------------------------------------------------
(* There is one newest key frame.                                             *)
LEMMA NewestKey ==
  ASSUME NEW q \in Seq(AU), NEW k, KeyAt(q, k)
  PROVE  (CHOOSE i \in DOMAIN q : q[i].key /\ \A j \in i + 1 .. Len(q) : ~q[j].key) = k
<1> DEFINE Newest1(i) == q[i].key /\ \A j \in i + 1 .. Len(q) : ~q[j].key
<1>1. Len(q) \in Nat /\ DOMAIN q = 1 .. Len(q)
  OBVIOUS
<1>2. k \in DOMAIN q /\ Newest1(k)
  BY DEF KeyAt
<1>3. ASSUME NEW i \in DOMAIN q, Newest1(i) PROVE i = k
  <2>1. i \in 1 .. Len(q) /\ k \in 1 .. Len(q)
    BY <1>1, <1>2
  <2>2. ~(i < k)
    BY <1>2, <1>3, <2>1
  <2>3. ~(k < i)
    BY <1>2, <1>3, <2>1
  <2> QED
    BY <2>1, <2>2, <2>3
<1> HIDE DEF Newest1
<1>4. (CHOOSE i \in DOMAIN q : Newest1(i)) = k
  BY <1>2, <1>3
<1> QED
  BY <1>4 DEF Newest1

(* The rest of a sequence.                                                    *)
LEMMA RestOf ==
  ASSUME NEW q \in Seq(AU), NEW z, z = Len(q), NEW k \in 1 .. z, NEW u, u = SubSeq(q, k, z)
  PROVE  /\ u \in Seq(AU) /\ Len(u) = z - k + 1
         /\ \A i \in 1 .. z - k + 1 : u[i] = q[k + i - 1]
<1>1. z \in Int /\ k \in Int /\ k <= z
  OBVIOUS
<1>2. \A i \in k .. z : q[i] \in AU
  OBVIOUS
<1> QED
  BY <1>1, <1>2, SubSeqProperties

(* A cache that is the last group of pictures, after one more picture.        *)
LEMMA GroupOf ==
  ASSUME NEW q \in Seq(AU), NEW x \in AU, NEW r, r = Append(q, x)
  PROVE  /\ x.key => KeyAt(r, Len(q) + 1) /\ SubSeq(r, Len(q) + 1, Len(r)) = <<x>>
         /\ \A k : ~x.key => (KeyAt(r, k) <=> KeyAt(q, k))
<1>1. /\ r \in Seq(AU) /\ Len(q) \in Nat /\ Len(r) = Len(q) + 1
      /\ DOMAIN q = 1 .. Len(q) /\ DOMAIN r = 1 .. Len(q) + 1
      /\ \A i \in 1 .. Len(q) : r[i] = q[i] /\ q[i] \in AU
      /\ r[Len(q) + 1] = x
  OBVIOUS
<1>2. ASSUME x.key PROVE KeyAt(r, Len(q) + 1)
  BY <1>1, <1>2 DEF KeyAt
<1>3. SubSeq(r, Len(q) + 1, Len(r)) = <<x>>
  <2>1. PICK m : m = Len(q) + 1
    OBVIOUS
  <2>2. m \in Int /\ Len(r) = m /\ r[m] = x /\ m .. m = {m}
    BY <1>1, <2>1
  <2>3. \A i \in m .. m : r[i] \in AU
    BY <2>2
  <2>4. /\ SubSeq(r, m, m) \in Seq(AU) /\ Len(SubSeq(r, m, m)) = 1
        /\ SubSeq(r, m, m)[1] = r[m]
    <3>1. /\ SubSeq(r, m, m) \in Seq(AU) /\ Len(SubSeq(r, m, m)) = (IF m <= m THEN m - m + 1 ELSE 0)
          /\ \A i \in 1 .. m - m + 1 : SubSeq(r, m, m)[i] = r[m + i - 1]
      BY <2>2, <2>3, SubSeqProperties
    <3>2. m <= m /\ m - m + 1 = 1 /\ 1 \in 1 .. 1 /\ m + 1 - 1 = m
      BY <2>2
    <3> QED
      BY <3>1, <3>2
  <2>5. <<x>> \in Seq(AU) /\ Len(<<x>>) = 1 /\ <<x>>[1] = x
    OBVIOUS
  <2>6. SubSeq(r, m, m) = <<x>>
    <3>1. PICK u : u = SubSeq(r, m, m)
      OBVIOUS
    <3>2. u \in Seq(AU) /\ Len(u) = Len(<<x>>) /\ \A i \in 1 .. Len(u) : u[i] = <<x>>[i]
      BY <2>2, <2>4, <2>5, <3>1
    <3> QED
      BY <2>5, <3>1, <3>2, SeqEqual
  <2> QED
    BY <2>1, <2>2, <2>6
<1>4. ASSUME NEW k, ~x.key PROVE KeyAt(r, k) <=> KeyAt(q, k)
  <2>1. ASSUME KeyAt(r, k) PROVE KeyAt(q, k)
    BY <1>1, <1>4, <2>1 DEF KeyAt
  <2>2. ASSUME KeyAt(q, k) PROVE KeyAt(r, k)
    BY <1>1, <1>4, <2>2 DEF KeyAt
  <2> QED
    BY <2>1, <2>2
<1> QED
  BY <1>2, <1>3, <1>4

LEMMA GroupGrows ==
  \A q, x, k : q \in Seq(AU) /\ x \in AU /\ KeyAt(q, k) => Group(Append(q, x), k) = Append(Group(q, k), x)
<1> SUFFICES ASSUME NEW q, NEW x, NEW k, q \in Seq(AU), x \in AU, KeyAt(q, k)
             PROVE  Group(Append(q, x), k) = Append(Group(q, k), x)
  OBVIOUS
<1>0. PICK r : r = Append(q, x)
  OBVIOUS
<1>1. /\ r \in Seq(AU) /\ Len(q) \in Nat /\ Len(r) = Len(q) + 1
      /\ DOMAIN q = 1 .. Len(q) /\ DOMAIN r = 1 .. Len(q) + 1
      /\ \A i \in 1 .. Len(q) : r[i] = q[i] /\ q[i] \in AU
      /\ r[Len(q) + 1] = x
  BY <1>0
<1>2. SubSeq(r, k, Len(r)) = Append(SubSeq(q, k, Len(q)), x)
  <2>1. k \in 1 .. Len(q) /\ k \in Int /\ Len(q) \in Int /\ Len(r) \in Int
    BY <1>1 DEF KeyAt
  <2>2. PICK u : u = SubSeq(q, k, Len(q))
    OBVIOUS
  <2>3. PICK v : v = SubSeq(r, k, Len(r))
    OBVIOUS
  <2>a. PICK b : b = Len(q)
    OBVIOUS
  <2>b. PICK z : z = Len(r)
    OBVIOUS
  <2>c. b \in Nat /\ z = b + 1 /\ k \in 1 .. b /\ k \in 1 .. z
    BY <1>1, <2>1, <2>a, <2>b
  <2>4. /\ u \in Seq(AU) /\ Len(u) = b - k + 1
        /\ \A i \in 1 .. b - k + 1 : u[i] = q[k + i - 1]
    BY <1>1, <2>2, <2>a, <2>c, RestOf
  <2>5. /\ v \in Seq(AU) /\ Len(v) = z - k + 1
        /\ \A i \in 1 .. z - k + 1 : v[i] = r[k + i - 1]
    <3>1. PICK w : w = r
      OBVIOUS
    <3>2. w \in Seq(AU) /\ z = Len(w) /\ v = SubSeq(w, k, z)
      BY <1>1, <2>3, <2>b, <3>1
    <3>3. v \in Seq(AU) /\ Len(v) = z - k + 1 /\ \A i \in 1 .. z - k + 1 : v[i] = w[k + i - 1]
      <4>1. k \in 1 .. z
        BY <2>c
      <4> QED
        BY <3>2, <4>1, RestOf
    <3> QED
      BY <3>1, <3>3
  <2>6. PICK a : a = Append(u, x)
    OBVIOUS
  <2>7. /\ a \in Seq(AU) /\ Len(a) = Len(u) + 1 /\ a[Len(u) + 1] = x
        /\ \A i \in 1 .. Len(u) : a[i] = u[i]
    BY <2>4, <2>6
  <2>8. Len(a) = Len(v) /\ Len(u) + 1 = z - k + 1
    BY <2>4, <2>5, <2>7, <2>c
  <2>9. ASSUME NEW i \in 1 .. z - k + 1 PROVE v[i] = a[i]
    <3>1. CASE i = z - k + 1
      <4>1. k + i - 1 = b + 1 /\ i = Len(u) + 1
        BY <2>4, <2>c, <3>1
      <4>2. v[i] = r[k + i - 1]
        BY <2>5
      <4> QED
        BY <1>1, <2>7, <2>a, <4>1, <4>2
    <3>2. CASE i # z - k + 1
      <4>1. k + i - 1 \in 1 .. b /\ i \in 1 .. b - k + 1 /\ i \in 1 .. Len(u)
        BY <2>4, <2>c, <3>2
      <4>2. v[i] = r[k + i - 1] /\ u[i] = q[k + i - 1]
        BY <2>4, <2>5, <4>1
      <4> QED
        BY <1>1, <2>7, <2>a, <4>1, <4>2
    <3> QED
      BY <3>1, <3>2
  <2>10. \A i \in 1 .. Len(v) : v[i] = a[i]
    BY <2>5, <2>9
  <2> QED
    BY <2>2, <2>3, <2>5, <2>6, <2>7, <2>8, <2>10, SeqEqual
<1> QED
  BY <1>0, <1>2 DEF Group

(* The access unit of a picture.                                              *)
LEMMA AccessUnitIs ==
  ASSUME HubShape, Waiting, NEW p \in Pictures, NEW x, x = F!AccessUnit(p)
  PROVE  x \in AU /\ x.n = n + 1 /\ x.audio = audioQ
<1>1. /\ x.n = n + 1 /\ x.key = p.key /\ x.size = p.size /\ x.audio = audioQ
      /\ x = [n |-> x.n, key |-> x.key, size |-> x.size, audio |-> x.audio, params |-> x.params]
      /\ x.params = p.params \/ x.params = p.params \cup conf.params
  BY DEF F!AccessUnit
<1>2. p.params \subseteq Params /\ conf.params \subseteq Params
  BY DEF HubShape, Params
<1>3. x.n \in Nat /\ x.key \in BOOLEAN /\ x.audio \in Seq(Nat)
  BY <1>1, FramesAssumption DEF HubShape, Waiting
<1>4. x.params \in SUBSET Params
  BY <1>1, <1>2
<1> QED
  BY <1>1, <1>3, <1>4 DEF AU

(* The cache after a picture.                                                 *)
LEMMA CacheStep ==
  ASSUME HubShape, Cached, NEW x \in AU, x.n = n + 1, n' = n + 1, made' = Append(made, x),
         gop' = F!CacheAfter(x).aus, truncated' = F!CacheAfter(x).cut
  PROVE  Cached' /\ gop' \in Seq(AU) /\ made' \in Seq(AU) /\ truncated' \in BOOLEAN
<1>0. n \in Nat /\ made \in Seq(AU) /\ gop \in Seq(AU)
  BY DEF HubShape
<1>1. PICK m : m = made
  OBVIOUS
<1>2. PICK r : r = made'
  OBVIOUS
<1>3. m \in Seq(AU) /\ Rising(m) /\ UpTo(m, n) /\ r = Append(m, x)
  BY <1>0, <1>1, <1>2 DEF Cached
<1>4. /\ r \in Seq(AU) /\ Len(m) \in Nat /\ Len(r) = Len(m) + 1 /\ r # <<>>
      /\ DOMAIN m = 1 .. Len(m) /\ DOMAIN r = 1 .. Len(m) + 1
      /\ \A i \in 1 .. Len(m) : r[i] = m[i] /\ m[i] \in AU /\ m[i].n \in Nat /\ m[i].n <= n
      /\ r[Len(m) + 1] = x
      /\ Rising(r) /\ UpTo(r, n + 1)
  <2>1. Longer(r, m, n, x)
    BY <1>0, <1>3, AppendAU
  <2> QED
    BY <2>1 DEF Longer
<1>5. PICK g : g = gop
  OBVIOUS
<1>6. PICK h : h = gop'
  OBVIOUS
<1>7. g \in Seq(AU) /\ Rising(g) /\ UpTo(g, n)
  BY <1>0, <1>5 DEF Cached
<1>8. \/ truncated' = TRUE /\ h = <<>>
      \/ truncated' = FALSE /\ x.key /\ h = <<x>>
      \/ truncated' = FALSE /\ ~x.key /\ ~truncated /\ h = Append(g, x)
  BY <1>5, <1>6 DEF F!CacheAfter
<1>9. \A i \in DOMAIN r : r[i].n # 0
  <2>1. \A i \in DOMAIN m : m[i].n # 0
    BY <1>1 DEF Cached
  <2>2. x.n # 0
    BY <1>0
  <2> QED
    BY <1>4, <2>1, <2>2
<1>10. (\E i \in DOMAIN r : r[i].key) => \E k : KeyAt(r, k)
  <2>1. CASE x.key
    BY <1>3, <2>1, GroupOf
  <2>2. ASSUME ~x.key, NEW i \in DOMAIN r, r[i].key PROVE \E k : KeyAt(r, k)
    <3>1. i \in DOMAIN m /\ m[i].key
      BY <1>4, <2>2
    <3>2. PICK k : KeyAt(m, k)
      BY <1>1, <3>1 DEF Cached, F!HasKey
    <3> QED
      BY <1>3, <2>2, <3>2, GroupOf
  <2> QED
    BY <2>1, <2>2
<1>11. \A k : KeyAt(r, k) => F!LastKey' = k
  <2> TAKE k
  <2> HAVE KeyAt(r, k)
  <2>1. (CHOOSE i \in DOMAIN r : r[i].key /\ \A j \in i + 1 .. Len(r) : ~r[j].key) = k
    BY <1>4, NewestKey
  <2> QED
    BY <1>2, <2>1, Zenon DEF F!LastKey
<1>12. CASE truncated' = TRUE /\ h = <<>>
  <2>1. Rising(h) /\ UpTo(h, n + 1) /\ h \in Seq(AU)
    BY <1>12 DEF Rising, UpTo
  <2>2. F!CacheIsLastGOP'
    BY <1>12 DEF F!CacheIsLastGOP
  <2> QED
    BY <1>2, <1>4, <1>6, <1>9, <1>10, <1>12, <2>1, <2>2 DEF Cached, F!HasKey
<1>13. CASE truncated' = FALSE /\ x.key /\ h = <<x>>
  <2>1. h \in Seq(AU) /\ Rising(h) /\ UpTo(h, n + 1) /\ Holds(h, x)
    BY <1>0, <1>13, SingleAU
  <2>2. \A k \in DOMAIN r : r[k].n >= h[1].n => Holds(h, r[k])
    <3>1. h[1] = x
      BY <1>13
    <3>2. \A k \in 1 .. Len(m) : ~(r[k].n >= x.n)
      BY <1>0, <1>4
    <3> QED
      BY <1>4, <2>1, <3>1, <3>2
  <2>3. F!LastKey' = Len(m) + 1 /\ SubSeq(r, Len(m) + 1, Len(r)) = <<x>>
    BY <1>3, <1>11, <1>13, GroupOf
  <2>4. F!CacheIsLastGOP'
    BY <1>2, <1>6, <1>13, <2>3 DEF F!CacheIsLastGOP
  <2> QED
    BY <1>2, <1>4, <1>6, <1>9, <1>10, <1>13, <2>1, <2>2, <2>4 DEF Cached, F!HasKey
<1>14. CASE truncated' = FALSE /\ ~x.key /\ ~truncated /\ h = Append(g, x)
  <2>1. /\ h \in Seq(AU) /\ Rising(h) /\ UpTo(h, n + 1) /\ Len(g) \in Nat /\ h[Len(g) + 1] = x
        /\ \A i \in 1 .. Len(g) : h[i] = g[i]
        /\ \A y : Holds(h, y) <=> Holds(g, y) \/ y = x
    <3>1. Longer(h, g, n, x)
      BY <1>0, <1>7, <1>14, AppendAU
    <3> QED
      BY <3>1 DEF Longer
  <2>2. \A k \in DOMAIN r : r[k].n >= h[1].n => Holds(h, r[k])
    <3> SUFFICES ASSUME NEW k \in DOMAIN r, r[k].n >= h[1].n, r[k] # x PROVE Holds(h, r[k])
      BY <2>1
    <3>1. k \in DOMAIN m /\ r[k] = m[k] /\ m[k].n \in Nat /\ m[k].n <= n
      BY <1>4
    <3>2. CASE g = <<>>
      <4>1. h[1] = x
        BY <2>1, <3>2
      <4> QED
        BY <1>0, <3>1, <4>1
    <3>3. CASE g # <<>>
      <4>1. h[1] = g[1]
        BY <1>7, <2>1, <3>3
      <4>2. Holds(g, m[k])
        BY <1>1, <1>5, <1>14, <3>1, <3>3, <4>1 DEF Cached
      <4> QED
        BY <2>1, <3>1, <4>2
    <3> QED
      BY <3>2, <3>3
  <2>3. ASSUME \E i \in DOMAIN r : r[i].key PROVE h = SubSeq(r, F!LastKey', Len(r))
    <3>1. PICK i \in DOMAIN r : r[i].key
      BY <2>3
    <3>2. i \in DOMAIN m /\ m[i].key
      BY <1>4, <1>14, <3>1
    <3>3. PICK k : KeyAt(m, k)
      BY <1>1, <3>2 DEF Cached, F!HasKey
    <3>4. KeyAt(r, k) /\ SubSeq(r, k, Len(r)) = Append(SubSeq(m, k, Len(m)), x)
      <4>1. KeyAt(r, k)
        BY <1>3, <1>14, <3>3, GroupOf
      <4>2. Group(r, k) = Append(Group(m, k), x)
        BY <1>3, <3>3, GroupGrows, Zenon
      <4> QED
        BY <4>1, <4>2 DEF Group
    <3>5. F!LastKey' = k
      BY <1>11, <3>4
    <3>6. F!LastKey = k
      <4>1. (CHOOSE j \in DOMAIN m : m[j].key /\ \A l \in j + 1 .. Len(m) : ~m[l].key) = k
        BY <1>3, <3>3, NewestKey
      <4> QED
        BY <1>1, <4>1, Zenon DEF F!LastKey
    <3>7. g = SubSeq(m, k, Len(m))
      BY <1>1, <1>5, <1>14, <3>2, <3>6 DEF Cached, F!CacheIsLastGOP, F!HasKey
    <3> QED
      BY <1>14, <3>4, <3>5, <3>7
  <2>4. F!CacheIsLastGOP'
    BY <1>2, <1>6, <2>3 DEF F!CacheIsLastGOP, F!HasKey
  <2> QED
    BY <1>2, <1>4, <1>6, <1>9, <1>10, <1>14, <2>1, <2>2, <2>4, ZenonT(60) DEF Cached, F!HasKey
<1> QED
  BY <1>8, <1>12, <1>13, <1>14
-----------------------------------------------------------------------------
(* What StreamInOrder says of one session.                                    *)
Ordered(st, key, missed) ==
  /\ Rising(st)
  /\ key # 0 => st # <<>> /\ st[1].n = key
  /\ st # <<>> /\ ~missed => \A k \in DOMAIN made : made[k].n >= st[1].n => Holds(st, made[k])

LEMMA OneByOne ==
  F!StreamInOrder <=> \A s \in F!Active : Ordered(F!Stream(s), owed[s], overrun[s])
  BY DEF F!StreamInOrder, Ordered, Rising, Holds

LEMMA OneByOneNext ==
  F!StreamInOrder' <=> \A s \in F!Active' : Ordered(F!Stream(s), owed[s], overrun[s])'
  BY DEF F!StreamInOrder, Ordered, Rising, Holds

LEMMA StreamIs ==
  ASSUME HubShape, NEW s \in Subs
  PROVE  /\ F!Stream(s) \in Seq(AU) /\ F!Stream(s) = got[s] \o ch[s]
         /\ got[s] \in Seq(AU) /\ ch[s] \in Seq(AU) /\ owed[s] \in Nat /\ overrun[s] \in BOOLEAN
<1>1. got[s] \in Seq(AU) /\ ch[s] \in Seq(AU) /\ owed[s] \in Nat /\ overrun[s] \in BOOLEAN
  BY DEF HubShape
<1>2. PICK g : g = got[s]
  OBVIOUS
<1>3. PICK c : c = ch[s]
  OBVIOUS
<1>4. g \o c \in Seq(AU)
  BY <1>1, <1>2, <1>3, ConcatProperties
<1> QED
  BY <1>1, <1>2, <1>3, <1>4 DEF F!Stream

(* A session gets one more access unit, or its channel is full.               *)
LEMMA StreamStep ==
  ASSUME HubShape, Cached, NEW x \in AU, x.n = n + 1, made' = Append(made, x),
         NEW st \in Seq(AU), UpTo(st, n), NEW key, NEW missed, Ordered(st, key, missed)
  PROVE  /\ UpTo(Append(st, x), n + 1) /\ Ordered(Append(st, x), key, missed)'
         /\ UpTo(st, n + 1) /\ Ordered(st, key, TRUE)'
<1>1. PICK m : m = made
  OBVIOUS
<1>2. n \in Nat /\ m \in Seq(AU) /\ Rising(m) /\ UpTo(m, n) /\ made' = Append(m, x)
  BY <1>1 DEF HubShape, Cached
<1>3. PICK r : r = made'
  OBVIOUS
<1>4. /\ DOMAIN m = 1 .. Len(m) /\ DOMAIN r = 1 .. Len(m) + 1 /\ Len(m) \in Nat
      /\ \A i \in 1 .. Len(m) : r[i] = m[i] /\ m[i].n \in Nat /\ m[i].n <= n
      /\ r[Len(m) + 1] = x
  <2>1. Longer(r, m, n, x)
    BY <1>2, <1>3, AppendAU
  <2> QED
    BY <2>1 DEF Longer
<1>5. PICK t : t = Append(st, x)
  OBVIOUS
<1>6. /\ Len(st) \in Nat /\ t # <<>> /\ t[Len(st) + 1] = x
      /\ \A i \in 1 .. Len(st) : t[i] = st[i]
      /\ Rising(t) /\ UpTo(t, n + 1)
      /\ \A y : Holds(t, y) <=> Holds(st, y) \/ y = x
  <2>1. Rising(st)
    BY DEF Ordered
  <2>2. Longer(t, st, n, x)
    BY <1>2, <1>5, <2>1, AppendAU
  <2> QED
    BY <2>2 DEF Longer
<1>7. UpTo(st, n + 1)
  BY <1>2, Later
<1>8. st # <<>> => t[1] = st[1]
  BY <1>6
<1>9. st = <<>> => t[1] = x
  BY <1>6
<1>10. ASSUME ~missed, NEW k \in DOMAIN r, r[k].n >= t[1].n PROVE Holds(t, r[k])
  <2>1. CASE r[k] = x
    BY <1>6, <2>1
  <2>2. CASE r[k] # x
    <3>1. k \in DOMAIN m /\ r[k] = m[k] /\ m[k].n \in Nat /\ m[k].n <= n
      BY <1>4, <2>2
    <3>2. st # <<>>
      BY <1>2, <1>9, <1>10, <3>1
    <3>3. Holds(st, m[k])
      BY <1>1, <1>8, <1>10, <3>1, <3>2 DEF Ordered
    <3> QED
      BY <1>6, <3>1, <3>3
  <2> QED
    BY <2>1, <2>2
<1>11. Ordered(t, key, missed)'
  BY <1>3, <1>6, <1>8, <1>10 DEF Ordered
<1>12. Ordered(st, key, TRUE)'
  BY DEF Ordered
<1> QED
  BY <1>5, <1>6, <1>7, <1>11, <1>12
-----------------------------------------------------------------------------
HubInv == HubShape /\ Cached /\ (\A s \in Subs : InTurn(s)) /\ F!StreamInOrder

(* A step that leaves the hub alone: a frame that is not made into an access  *)
(* unit, or another binding.                                                  *)
LEMMA ApartHub ==
  ASSUME HubInv, UNCHANGED F!hub, conf'.params \subseteq Params, n' = n \/ n' = n + 1,
         made' = made \/ made' = <<>>
  PROVE  HubInv'
<1> USE DEF F!hub
<1>1. n \in Nat /\ n' \in Nat /\ made' \in Seq(AU)
  <2>1. n \in Nat /\ made \in Seq(AU) /\ <<>> \in Seq(AU)
    BY EmptySeq DEF HubInv, HubShape
  <2>2. n' \in Nat
    BY <2>1
  <2>3. made' \in Seq(AU)
    <3>1. CASE made' = made
      BY <2>1, <3>1
    <3>2. CASE made' = <<>>
      BY <2>1, <3>2
    <3> QED
      BY <3>1, <3>2
  <2> QED
    BY <2>1, <2>2, <2>3
<1>2. HubShape'
  BY <1>1 DEF HubInv, HubShape
<1>3. \A q : q \in Seq(AU) /\ UpTo(q, n) => UpTo(q, n')
  BY <1>1, Later
<1>4. Cached'
  <2>1. CASE made' = made
    BY <1>3, <2>1 DEF HubInv, HubShape, Cached, F!CacheIsLastGOP, F!HasKey, F!LastKey
  <2>2. CASE made' = <<>>
    <3>1. DOMAIN made' = {}
      BY <2>2
    <3>2. Rising(gop) /\ UpTo(gop, n')
      BY <1>3 DEF HubInv, HubShape, Cached
    <3> QED
      BY <2>2, <3>1, <3>2 DEF Cached, F!CacheIsLastGOP, F!HasKey, Rising, UpTo
  <2> QED
    BY <2>1, <2>2
<1>5. F!Active' = F!Active /\ \A s \in Subs : F!Stream(s)' = F!Stream(s)
  BY DEF F!Active, F!Stream
<1>6. \A s \in Subs : InTurn(s)'
  BY <1>3, <1>5, StreamIs DEF HubInv, InTurn
<1>7. F!StreamInOrder'
  <2> SUFFICES ASSUME NEW s \in F!Active PROVE Ordered(F!Stream(s), owed[s], overrun[s])'
    BY <1>5, OneByOneNext
  <2>1. s \in Subs
    BY DEF F!Active
  <2>2. PICK st : st = F!Stream(s)
    OBVIOUS
  <2>3. F!Stream(s)' = st
    BY <1>5, <2>1, <2>2
  <2>4. Ordered(st, owed[s], overrun[s])
    BY <2>2, OneByOne DEF HubInv
  <2>5. Ordered(st, owed[s], overrun[s])'
    <3>1. CASE made' = made
      BY <2>4, <3>1 DEF Ordered
    <3>2. CASE made' = <<>>
      <4>1. DOMAIN made' = {}
        BY <3>2
      <4> QED
        BY <2>4, <4>1 DEF Ordered
    <3> QED
      BY <3>1, <3>2
  <2> QED
    BY <2>3, <2>5 DEF Ordered
<1> QED
  BY <1>2, <1>4, <1>6, <1>7 DEF HubInv

(* A picture that is kept, for the cache and for every session.               *)
LEMMA BroadcastStep ==
  ASSUME HubInv, NEW x \in AU, x.n = n + 1, n' = n + 1, made' = Append(made, x), F!Broadcast(x),
         UNCHANGED conf
  PROVE  HubInv'
<1>1. /\ gop' = F!CacheAfter(x).aus /\ truncated' = F!CacheAfter(x).cut
      /\ ch' = [s \in Subs |-> IF s \in F!Active /\ Len(ch[s]) < SubCap THEN Append(ch[s], x) ELSE ch[s]]
      /\ overrun' = [s \in Subs |-> overrun[s] \/ (s \in F!Active /\ Len(ch[s]) = SubCap)]
      /\ UNCHANGED <<status, got, owed>>
  BY DEF F!Broadcast
<1>2. HubShape /\ Cached
  BY DEF HubInv
<1>3. Cached' /\ gop' \in Seq(AU) /\ made' \in Seq(AU) /\ truncated' \in BOOLEAN
  BY <1>1, <1>2, CacheStep
<1>4. HubShape'
  <2>1. n' \in Nat
    BY <1>2 DEF HubShape
  <2>2. ch' \in [Subs -> Seq(AU)]
    BY <1>1, <1>2 DEF HubShape
  <2>3. overrun' \in [Subs -> BOOLEAN]
    BY <1>1
  <2> QED
    BY <1>1, <1>2, <1>3, <2>1, <2>2, <2>3 DEF HubShape
<1>5. F!Active' = F!Active
  BY <1>1 DEF F!Active
<1>6. ASSUME NEW s \in Subs
      PROVE  InTurn(s)' /\ (s \in F!Active => Ordered(F!Stream(s), owed[s], overrun[s])')
  <2>1. /\ F!Stream(s) \in Seq(AU) /\ F!Stream(s) = got[s] \o ch[s]
        /\ got[s] \in Seq(AU) /\ ch[s] \in Seq(AU) /\ owed[s] \in Nat /\ overrun[s] \in BOOLEAN
    BY <1>2, StreamIs
  <2>2. PICK c : c = ch[s]
    OBVIOUS
  <2>3. PICK st : st = F!Stream(s)
    OBVIOUS
  <2>4. /\ c \in Seq(AU) /\ Len(c) \in Nat /\ Len(c) <= SubCap /\ SubCap \in Nat
        /\ st \in Seq(AU) /\ InTurn(s)
    <3>1. InTurn(s)
      BY DEF HubInv
    <3>2. c \in Seq(AU) /\ st \in Seq(AU) /\ SubCap \in Nat
      BY <2>1, <2>2, <2>3, FramesAssumption
    <3>3. Len(c) <= SubCap
      BY <2>2, <3>1 DEF InTurn
    <3> QED
      BY <3>1, <3>2, <3>3, LenProperties
  <2>5. CASE s \notin F!Active
    <3>1. ch'[s] = ch[s]
      BY <1>1, <2>5
    <3> QED
      BY <1>1, <1>5, <2>5, <3>1 DEF HubInv, InTurn
  <2>6. CASE s \in F!Active
    <3>1. Ordered(st, owed[s], overrun[s]) /\ UpTo(st, n)
      BY <2>3, <2>4, <2>6, OneByOne DEF HubInv, InTurn
    <3>2. /\ UpTo(Append(st, x), n + 1) /\ Ordered(Append(st, x), owed[s], overrun[s])'
          /\ UpTo(st, n + 1) /\ Ordered(st, owed[s], TRUE)'
      <4>1. PICK key : key = owed[s]
        OBVIOUS
      <4>2. PICK missed : missed = overrun[s]
        OBVIOUS
      <4>3. PICK missedNext : missedNext = overrun'[s]
        OBVIOUS
      <4>4. PICK keyNext : keyNext = owed'[s]
        OBVIOUS
      <4>5. /\ UpTo(Append(st, x), n + 1) /\ Ordered(Append(st, x), key, missed)'
            /\ UpTo(st, n + 1) /\ Ordered(st, key, TRUE)'
        BY <1>2, <2>4, <3>1, <4>1, <4>2, StreamStep
      <4> QED
        BY <1>1, <4>1, <4>2, <4>5 DEF Ordered
    <3>3. CASE Len(c) < SubCap
      <4>1. ch'[s] = Append(c, x) /\ overrun'[s] = overrun[s]
        BY <1>1, <2>1, <2>2, <2>4, <2>6, <3>3
      <4>2. F!Stream(s)' = Append(st, x)
        <5>1. PICK g : g = got[s]
          OBVIOUS
        <5>2. g \in Seq(AU) /\ c \in Seq(AU) /\ st = g \o c
          BY <2>1, <2>2, <2>3, <5>1
        <5>3. Append(c, x) = c \o <<x>> /\ Append(st, x) = st \o <<x>> /\ <<x>> \in Seq(AU)
          BY <2>4, AppendIsConcat
        <5>4. (g \o c) \o <<x>> = g \o (c \o <<x>>)
          BY <5>2, <5>3, ConcatAssociative
        <5>5. F!Stream(s)' = g \o Append(c, x)
          BY <1>1, <4>1, <5>1 DEF F!Stream
        <5> QED
          BY <5>2, <5>3, <5>4, <5>5
      <4>3. Len(ch'[s]) = Len(c) + 1
        BY <2>4, <4>1
      <4>4. InTurn(s)'
        <5>1. status[s] # "new"
          BY <2>6 DEF F!Active
        <5>2. Rising(Append(st, x))
          BY <3>2 DEF Ordered
        <5> QED
          BY <1>1, <2>4, <3>2, <3>3, <4>2, <4>3, <5>1, <5>2 DEF InTurn
      <4>5. Ordered(F!Stream(s), owed[s], overrun[s])'
        BY <3>2, <4>1, <4>2 DEF Ordered
      <4> QED
        BY <4>4, <4>5
    <3>4. CASE ~(Len(c) < SubCap)
      <4>1. ch'[s] = ch[s] /\ overrun'[s] = TRUE
        <5>1. Len(c) = SubCap
          BY <2>4, <3>4
        <5>2. overrun'[s] = (overrun[s] \/ (s \in F!Active /\ Len(c) = SubCap))
          BY <1>1, <2>2
        <5>3. ch'[s] = ch[s]
          BY <1>1, <2>2, <3>4
        <5> QED
          BY <2>6, <5>1, <5>2, <5>3
      <4>2. F!Stream(s)' = st
        BY <1>1, <2>3, <4>1 DEF F!Stream
      <4>3. InTurn(s)'
        <5>1. status[s] # "new"
          BY <2>6 DEF F!Active
        <5>2. Rising(st)
          BY <3>2 DEF Ordered
        <5> QED
          BY <1>1, <2>2, <2>4, <3>2, <4>1, <4>2, <5>1, <5>2 DEF InTurn
      <4>4. Ordered(F!Stream(s), owed[s], overrun[s])'
        BY <3>2, <4>1, <4>2 DEF Ordered
      <4> QED
        BY <4>3, <4>4
    <3> QED
      BY <3>3, <3>4
  <2> QED
    BY <2>5, <2>6
<1>7. F!StreamInOrder'
  <2>1. \A s \in F!Active' : s \in Subs
    BY DEF F!Active
  <2> QED
    BY <1>5, <1>6, <2>1, OneByOneNext
<1> QED
  BY <1>3, <1>4, <1>6, <1>7 DEF HubInv

(* A session that reads, or ends.                                             *)
LEMMA SessionStep ==
  ASSUME HubInv, NEW s \in Subs, F!Read(s) \/ F!Cancel(s) \/ F!Unsubscribe(s)
  PROVE  HubInv'
<1>1. UNCHANGED <<n, gop, truncated, overrun, owed, conf, made>>
  BY DEF F!Read, F!Cancel, F!Unsubscribe, F!converter
<1>2. HubShape /\ Cached /\ F!StreamInOrder /\ \A t \in Subs : InTurn(t)
  BY DEF HubInv
<1>3. Cached'
  BY <1>1, <1>2 DEF Cached, F!CacheIsLastGOP, F!HasKey, F!LastKey
<1>4. /\ HubShape' /\ F!Active' \subseteq F!Active
      /\ \A t \in Subs : /\ F!Stream(t)' = F!Stream(t) /\ Len(ch'[t]) <= SubCap
                         /\ status'[t] = "new" => got'[t] = <<>>
  <2>1. CASE F!Read(s)
    <3>1. /\ s \in F!Active /\ ch[s] # <<>> /\ UNCHANGED status
          /\ got' = [got EXCEPT ![s] = Append(@, Head(ch[s]))]
          /\ ch' = [ch EXCEPT ![s] = Tail(@)]
      BY <2>1 DEF F!Read
    <3>2. PICK g : g = got[s]
      OBVIOUS
    <3>3. PICK q : q = ch[s]
      OBVIOUS
    <3>4. g \in Seq(AU) /\ q \in Seq(AU) /\ q # <<>>
      BY <1>2, <3>1, <3>2, <3>3 DEF HubShape
    <3>5. Append(g, Head(q)) \in Seq(AU) /\ Tail(q) \in Seq(AU) /\ Append(g, Head(q)) \o Tail(q) = g \o q
      BY <3>4, Shifted
    <3>6. /\ got'[s] = Append(g, Head(q)) /\ ch'[s] = Tail(q)
          /\ \A t \in Subs : t # s => got'[t] = got[t] /\ ch'[t] = ch[t]
          /\ got' \in [Subs -> Seq(AU)] /\ ch' \in [Subs -> Seq(AU)]
      BY <1>2, <3>1, <3>2, <3>3, <3>5 DEF HubShape
    <3>7. Len(Tail(q)) <= SubCap
      <4>1. Len(Tail(q)) = Len(q) - 1 /\ Len(q) \in Nat
        BY <3>4, HeadTailProperties, LenProperties
      <4>2. Len(q) <= SubCap
        BY <1>2, <3>3 DEF InTurn
      <4> QED
        BY <4>1, <4>2, FramesAssumption
    <3>8. \A t \in Subs : F!Stream(t)' = F!Stream(t)
      BY <3>2, <3>3, <3>5, <3>6 DEF F!Stream
    <3>9. HubShape'
      BY <1>1, <1>2, <3>1, <3>6 DEF HubShape
    <3>10. F!Active' = F!Active /\ status[s] # "new"
      BY <3>1 DEF F!Active
    <3> QED
      BY <1>2, <3>1, <3>6, <3>7, <3>8, <3>9, <3>10 DEF InTurn
  <2>2. CASE F!Cancel(s) \/ F!Unsubscribe(s)
    <3>1. /\ UNCHANGED <<ch, got>>
          /\ \/ status[s] = "on" /\ status' = [status EXCEPT ![s] = "leaving"]
             \/ status[s] = "leaving" /\ status' = [status EXCEPT ![s] = "gone"]
      BY <2>2 DEF F!Cancel, F!Unsubscribe
    <3>2. HubShape'
      BY <1>1, <1>2, <3>1 DEF HubShape
    <3>3. F!Active' \subseteq F!Active /\ \A t \in Subs : status'[t] = "new" => status[t] = "new"
      BY <1>2, <3>1 DEF F!Active, HubShape
    <3> QED
      BY <1>2, <3>1, <3>2, <3>3 DEF InTurn, F!Stream
  <2> QED
    BY <2>1, <2>2
<1>5. \A t \in Subs : InTurn(t)'
  BY <1>1, <1>2, <1>4 DEF InTurn
<1>6. F!StreamInOrder'
  <2> SUFFICES ASSUME NEW t \in F!Active' PROVE Ordered(F!Stream(t), owed[t], overrun[t])'
    BY OneByOneNext
  <2>1. t \in F!Active /\ t \in Subs
    BY <1>4 DEF F!Active
  <2>2. Ordered(F!Stream(t), owed[t], overrun[t])
    BY <1>2, <2>1, OneByOne
  <2>3. PICK st : st = F!Stream(t)
    OBVIOUS
  <2>4. F!Stream(t)' = st /\ Ordered(st, owed[t], overrun[t])
    BY <1>4, <2>1, <2>2, <2>3
  <2>5. Ordered(st, owed[t], overrun[t])'
    BY <1>1, <2>4 DEF Ordered
  <2> QED
    BY <2>4, <2>5 DEF Ordered
<1> QED
  BY <1>3, <1>4, <1>5, <1>6 DEF HubInv

(* A session begins with as much of the cache as its channel takes.           *)
LEMMA SubscribeStep ==
  ASSUME HubInv, NEW s \in Subs, F!Subscribe(s)
  PROVE  HubInv'
<1>1. /\ status[s] = "new" /\ status' = [status EXCEPT ![s] = "on"]
      /\ ch' = [ch EXCEPT ![s] = F!Replay]
      /\ overrun' = [overrun EXCEPT ![s] = Len(gop) > SubCap]
      /\ owed' = [owed EXCEPT ![s] = IF ~truncated /\ F!HasKey THEN made[F!LastKey].n ELSE 0]
      /\ UNCHANGED <<n, conf, made, gop, truncated, got>>
  BY DEF F!Subscribe, F!converter
<1>2. HubShape /\ Cached /\ F!StreamInOrder /\ \A t \in Subs : InTurn(t)
  BY DEF HubInv
<1>3. Cached'
  BY <1>1, <1>2 DEF Cached, F!CacheIsLastGOP, F!HasKey, F!LastKey
<1>4. PICK g : g = gop
  OBVIOUS
<1>5. PICK w : w = F!Replay
  OBVIOUS
<1>6. /\ g \in Seq(AU) /\ Len(g) \in Nat /\ DOMAIN g = 1 .. Len(g) /\ Rising(g) /\ UpTo(g, n)
      /\ SubCap \in Nat \ {0}
  BY <1>2, <1>4, FramesAssumption DEF HubShape, Cached
<1>7. /\ w \in Seq(AU) /\ Len(w) <= SubCap /\ Rising(w) /\ UpTo(w, n)
      /\ ~truncated /\ g # <<>> => w # <<>> /\ w[1] = g[1]
      /\ ~truncated /\ ~(Len(g) > SubCap) => w = g
      /\ truncated => w = <<>>
  <2>1. CASE truncated
    BY <1>5, <1>6, <2>1 DEF F!Replay, Rising, UpTo
  <2>2. CASE ~truncated
    <3>0. PICK z : z = Len(g)
      OBVIOUS
    <3>1. PICK c : c = IF z < SubCap THEN z ELSE SubCap
      OBVIOUS
    <3>a. z \in Nat /\ DOMAIN g = 1 .. z /\ SubCap \in Nat \ {0}
      BY <1>6, <3>0
    <3>b. /\ c \in 0 .. z /\ c \in Nat /\ c <= SubCap /\ (z # 0 => c # 0)
          /\ (~(z > SubCap) => c = z)
      BY <3>1, <3>a
    <3>2. c \in 0 .. Len(g) /\ c <= SubCap /\ (Len(g) # 0 => c # 0) /\ (~(Len(g) > SubCap) => c = Len(g))
      BY <3>0, <3>b
    <3>3. w = SubSeq(g, 1, c)
      BY <1>4, <1>5, <2>2, <3>0, <3>1 DEF F!Replay, F!Fitting
    <3>5. \A i \in 1 .. c : i \in DOMAIN g
      BY <3>a, <3>b
    <3>4. w \in Seq(AU) /\ Len(w) = c /\ DOMAIN w = 1 .. c /\ \A i \in 1 .. c : w[i] = g[i]
      <4>1. c \in Int /\ 1 \in Int /\ \A i \in 1 .. c : g[i] \in AU
        BY <1>6, <3>a, <3>b, <3>5
      <4>2. /\ SubSeq(g, 1, c) \in Seq(AU) /\ Len(SubSeq(g, 1, c)) = (IF 1 <= c THEN c - 1 + 1 ELSE 0)
            /\ \A i \in 1 .. c - 1 + 1 : SubSeq(g, 1, c)[i] = g[1 + i - 1]
        BY <4>1, SubSeqProperties
      <4>3. c - 1 + 1 = c /\ (IF 1 <= c THEN c - 1 + 1 ELSE 0) = c
        BY <3>2
      <4>4. \A i \in 1 .. c : 1 + i - 1 = i
        BY <3>2
      <4>5. w \in Seq(AU) /\ Len(w) = c /\ \A i \in 1 .. c : w[i] = g[i]
        BY <3>3, <4>2, <4>3, <4>4
      <4> QED
        BY <4>5, LenProperties
    <3>6. Rising(w) /\ UpTo(w, n)
      BY <1>6, <3>4, <3>5 DEF Rising, UpTo
    <3>7. g # <<>> => w # <<>> /\ w[1] = g[1]
      <4> SUFFICES ASSUME g # <<>> PROVE w # <<>> /\ w[1] = g[1]
        OBVIOUS
      <4>1. Len(g) # 0
        BY <1>6
      <4>2. 1 \in 1 .. c
        BY <3>2, <4>1
      <4> QED
        BY <3>4, <4>2
    <3>8. ~(Len(g) > SubCap) => w = g
      BY <1>6, <3>2, <3>4, SeqEqual
    <3> QED
      BY <2>2, <3>2, <3>4, <3>6, <3>7, <3>8
  <2> QED
    BY <2>1, <2>2, <1>2 DEF HubShape
<1>8. /\ ch'[s] = w /\ got'[s] = <<>> /\ F!Stream(s)' = w
      /\ overrun'[s] = (Len(g) > SubCap)
      /\ owed'[s] = IF ~truncated /\ F!HasKey THEN made[F!LastKey].n ELSE 0
  <2>1. ch'[s] = w /\ overrun'[s] = (Len(g) > SubCap)
    BY <1>1, <1>2, <1>4, <1>5 DEF HubShape
  <2>2. owed'[s] = IF ~truncated /\ F!HasKey THEN made[F!LastKey].n ELSE 0
    BY <1>1, <1>2 DEF HubShape
  <2>3. got'[s] = <<>>
    BY <1>1, <1>2 DEF InTurn
  <2>4. <<>> \o w = w
    BY <1>7, ConcatEmptySeq
  <2> QED
    BY <2>1, <2>2, <2>3, <2>4 DEF F!Stream
<1>9. ~truncated /\ F!HasKey =>
        owed'[s] \in Nat \ {0} /\ w # <<>> /\ w[1].n = owed'[s]
  <2> SUFFICES ASSUME ~truncated, F!HasKey PROVE owed'[s] \in Nat \ {0} /\ w # <<>> /\ w[1].n = owed'[s]
    OBVIOUS
  <2>1. PICK m : m = made
    OBVIOUS
  <2>2. PICK k : KeyAt(m, k)
    BY <1>2, <2>1 DEF Cached
  <2>3. m \in Seq(AU)
    BY <1>2, <2>1 DEF HubShape
  <2>4. F!LastKey = k
    <3>1. (CHOOSE i \in DOMAIN m : m[i].key /\ \A j \in i + 1 .. Len(m) : ~m[j].key) = k
      BY <2>2, <2>3, NewestKey
    <3> QED
      BY <2>1, <3>1, Zenon DEF F!LastKey
  <2>5. PICK z : z = Len(m)
    OBVIOUS
  <2>6. g = SubSeq(m, k, z) /\ z \in Nat /\ k \in 1 .. z /\ m[k] \in AU
    BY <1>2, <1>4, <2>1, <2>2, <2>3, <2>4, <2>5 DEF Cached, F!CacheIsLastGOP, KeyAt
  <2>7. Len(g) = z - k + 1 /\ \A i \in 1 .. z - k + 1 : g[i] = m[k + i - 1]
    BY <2>3, <2>5, <2>6, RestOf
  <2>8. g # <<>> /\ g[1] = m[k]
    <3>1. 1 \in 1 .. z - k + 1 /\ k + 1 - 1 = k /\ z - k + 1 # 0
      BY <2>6
    <3> QED
      BY <1>6, <2>7, <3>1
  <2>9. m[k].n \in Nat \ {0}
    BY <1>2, <2>1, <2>2, <2>6 DEF Cached, KeyAt, AU
  <2> QED
    BY <1>7, <1>8, <2>1, <2>4, <2>8, <2>9
<1>10. HubShape'
  <2>1. owed' \in [Subs -> Nat]
    BY <1>1, <1>2, <1>8, <1>9 DEF HubShape
  <2>2. ch' \in [Subs -> Seq(AU)]
    BY <1>1, <1>2, <1>5, <1>7 DEF HubShape
  <2> QED
    BY <1>1, <1>2, <2>1, <2>2 DEF HubShape
<1>11. ASSUME NEW t \in Subs, t # s
       PROVE  /\ InTurn(t)' /\ F!Stream(t)' = F!Stream(t)
              /\ owed'[t] = owed[t] /\ overrun'[t] = overrun[t] /\ (t \in F!Active' <=> t \in F!Active)
  <2>1. /\ ch'[t] = ch[t] /\ got'[t] = got[t] /\ status'[t] = status[t] /\ n' = n
        /\ owed'[t] = owed[t] /\ overrun'[t] = overrun[t]
    BY <1>1, <1>2, <1>11 DEF HubShape
  <2>2. F!Stream(t)' = F!Stream(t)
    BY <2>1 DEF F!Stream
  <2>3. t \in F!Active' <=> t \in F!Active
    BY <2>1 DEF F!Active
  <2> QED
    BY <1>2, <2>1, <2>2, <2>3 DEF InTurn
<1>12. InTurn(s)'
  <2>1. status'[s] # "new"
    BY <1>1, <1>2 DEF HubShape
  <2> QED
    BY <1>1, <1>7, <1>8, <2>1 DEF InTurn
<1>13. Ordered(w, owed'[s], overrun'[s])
  <2>1. owed'[s] # 0 => w # <<>> /\ w[1].n = owed'[s]
    BY <1>8, <1>9
  <2>2. ASSUME w # <<>>, ~overrun'[s], NEW k \in DOMAIN made, made[k].n >= w[1].n
        PROVE  Holds(w, made[k])
    <3>1. ~truncated /\ w = g /\ g # <<>>
      BY <1>7, <1>8, <2>2
    <3> QED
      BY <1>2, <1>4, <2>2, <3>1 DEF Cached
  <2> QED
    BY <1>7, <2>1, <2>2 DEF Ordered
<1>14. F!StreamInOrder'
  <2> SUFFICES ASSUME NEW t \in F!Active' PROVE Ordered(F!Stream(t), owed[t], overrun[t])'
    BY OneByOneNext
  <2>0. t \in Subs
    BY DEF F!Active
  <2>1. CASE t = s
    BY <1>1, <1>8, <1>13, <2>1 DEF Ordered
  <2>2. CASE t # s
    <3>1. Ordered(F!Stream(t), owed[t], overrun[t])
      BY <1>2, <1>11, <2>0, <2>2, OneByOne
    <3>2. PICK st : st = F!Stream(t)
      OBVIOUS
    <3>3. /\ Ordered(st, owed[t], overrun[t]) /\ F!Stream(t)' = st
          /\ owed'[t] = owed[t] /\ overrun'[t] = overrun[t]
      BY <1>11, <2>0, <2>2, <3>1, <3>2
    <3> QED
      BY <1>1, <3>3 DEF Ordered
  <2> QED
    BY <2>1, <2>2
<1> QED
  BY <1>3, <1>10, <1>11, <1>12, <1>14 DEF HubInv
-----------------------------------------------------------------------------
AudioInv == Waiting /\ F!AudioKept

(* The audio frames younger than a that came before any picture after it.     *)
Newer(a) == {x \in heard : x > a /\ \A j \in DOMAIN made : made[j].n > a => x < made[j].n}

LEMMA SameCardinality == ASSUME NEW T PROVE F!Cardinality(T) = Cardinality(T)
  BY Zenon DEF F!Cardinality, Cardinality

(* What AudioKept says of one audio frame and of one access unit.             *)
Kept(a) ==
  \/ F!Among(a, audioQ) \/ \E i \in DOMAIN made : F!Among(a, made[i].audio)
  \/ Cardinality(Newer(a)) >= AudioMax

Carried(i) ==
  /\ F!Ascending(made[i].audio)
  /\ \A k \in DOMAIN made[i].audio :
       /\ made[i].audio[k] < made[i].n
       /\ \A j \in DOMAIN made : made[j].n < made[i].n => made[j].n < made[i].audio[k]

(* AudioKept by its parts.                                                    *)
WaitsInOrder == F!Ascending(audioQ) /\ \A k \in DOMAIN audioQ, j \in DOMAIN made : made[j].n < audioQ[k]

LEMMA AudioParts ==
  F!AudioKept <=> WaitsInOrder /\ (\A i \in DOMAIN made : Carried(i)) /\ (\A a \in heard : Kept(a))
<1>1. ASSUME NEW a
      PROVE  F!Cardinality({x \in heard : x > a /\ \A j \in DOMAIN made : made[j].n > a => x < made[j].n})
               = Cardinality(Newer(a))
  <2>1. F!Cardinality(Newer(a)) = Cardinality(Newer(a))
    BY SameCardinality
  <2> QED
    BY <2>1, Zenon DEF Newer
<1>2. ASSUME NEW a
      PROVE  Kept(a) <=>
               \/ F!Among(a, audioQ) \/ \E i \in DOMAIN made : F!Among(a, made[i].audio)
               \/ F!Cardinality({x \in heard : x > a /\ \A j \in DOMAIN made :
                                   made[j].n > a => x < made[j].n}) >= AudioMax
  BY <1>1, Zenon DEF Kept
<1>3. ASSUME F!AudioKept PROVE WaitsInOrder
  BY <1>3, Zenon DEF F!AudioKept, WaitsInOrder
<1>4. ASSUME F!AudioKept, NEW i \in DOMAIN made PROVE Carried(i)
  BY <1>4, Zenon DEF F!AudioKept, Carried
<1>5. ASSUME F!AudioKept, NEW a \in heard PROVE Kept(a)
  BY <1>2, <1>5, Zenon DEF F!AudioKept
<1>6. ASSUME WaitsInOrder, \A i \in DOMAIN made : Carried(i), \A a \in heard : Kept(a) PROVE F!AudioKept
  <2>1. \A i \in DOMAIN made :
          /\ F!Ascending(made[i].audio)
          /\ \A k \in DOMAIN made[i].audio :
               /\ made[i].audio[k] < made[i].n
               /\ \A j \in DOMAIN made : made[j].n < made[i].n => made[j].n < made[i].audio[k]
    BY <1>6, Zenon DEF Carried
  <2> QED
    BY <1>2, <1>6, <2>1, Zenon DEF F!AudioKept, WaitsInOrder
<1> QED
  BY <1>3, <1>4, <1>5, <1>6

LEMMA AudioPartsNext ==
  F!AudioKept' <=> WaitsInOrder' /\ (\A i \in DOMAIN made' : Carried(i)') /\ (\A a \in heard' : Kept(a)')
<1>1. ASSUME NEW a
      PROVE  F!Cardinality({x \in heard' : x > a /\ \A j \in DOMAIN made' : made'[j].n > a => x < made'[j].n})
               = Cardinality(Newer(a)')
  <2>1. F!Cardinality(Newer(a)') = Cardinality(Newer(a)')
    BY SameCardinality
  <2> QED
    BY <2>1, Zenon DEF Newer
<1>2. ASSUME NEW a
      PROVE  Kept(a)' <=>
               \/ F!Among(a, audioQ') \/ \E i \in DOMAIN made' : F!Among(a, made'[i].audio)
               \/ F!Cardinality({x \in heard' : x > a /\ \A j \in DOMAIN made' :
                                   made'[j].n > a => x < made'[j].n}) >= AudioMax
  BY <1>1, Zenon DEF Kept
<1>3. ASSUME F!AudioKept' PROVE WaitsInOrder'
  BY <1>3, Zenon DEF F!AudioKept, WaitsInOrder
<1>4. ASSUME F!AudioKept', NEW i \in DOMAIN made' PROVE Carried(i)'
  BY <1>4, Zenon DEF F!AudioKept, Carried
<1>5. ASSUME F!AudioKept', NEW a \in heard' PROVE Kept(a)'
  BY <1>2, <1>5, Zenon DEF F!AudioKept
<1>6. ASSUME WaitsInOrder', \A i \in DOMAIN made' : Carried(i)', \A a \in heard' : Kept(a)' PROVE F!AudioKept'
  <2>1. \A i \in DOMAIN made' :
          /\ F!Ascending(made'[i].audio)
          /\ \A k \in DOMAIN made'[i].audio :
               /\ made'[i].audio[k] < made'[i].n
               /\ \A j \in DOMAIN made' : made'[j].n < made'[i].n => made'[j].n < made'[i].audio[k]
    BY <1>6, Zenon DEF Carried
  <2> QED
    BY <1>2, <1>6, <2>1, Zenon DEF F!AudioKept, WaitsInOrder
<1> QED
  BY <1>3, <1>4, <1>5, <1>6

LEMMA NewerFinite ==
  ASSUME n \in Nat, Waiting, NEW a
  PROVE  IsFiniteSet(heard) /\ IsFiniteSet(Newer(a)) /\ Cardinality(Newer(a)) \in Nat
<1>1. IsFiniteSet(1 .. n)
  BY FS_Interval
<1>2. IsFiniteSet(heard)
  BY <1>1, FS_Subset DEF Waiting
<1>3. Newer(a) \subseteq heard
  BY DEF Newer
<1>4. IsFiniteSet(Newer(a))
  BY <1>2, <1>3, FS_Subset
<1> QED
  BY <1>2, <1>4, FS_CardinalityType

(* A step that leaves the audio alone, or forgets it with the binding.        *)
LEMMA ApartAudio ==
  ASSUME n \in Nat, AudioInv, n' = n \/ n' = n + 1,
         \/ UNCHANGED <<audioQ, made, heard>>
         \/ audioQ' = <<>> /\ made' = <<>> /\ heard' = {}
  PROVE  AudioInv'
<1>1. CASE UNCHANGED <<audioQ, made, heard>>
  <2>1. Waiting'
    BY <1>1 DEF AudioInv, Waiting
  <2>2. F!AudioKept'
    BY <1>1, AudioParts, AudioPartsNext DEF AudioInv, WaitsInOrder, Carried, Kept, Newer, F!Ascending
  <2> QED
    BY <2>1, <2>2 DEF AudioInv
<1>2. CASE audioQ' = <<>> /\ made' = <<>> /\ heard' = {}
  <2>1. audioQ' \in Seq(Nat) /\ Len(audioQ') = 0 /\ DOMAIN audioQ' = {} /\ DOMAIN made' = {}
    BY <1>2
  <2>2. Waiting'
    BY <1>2, <2>1, FramesAssumption DEF Waiting
  <2>3. F!AudioKept'
    BY <1>2, <2>1, AudioPartsNext DEF WaitsInOrder, F!Ascending
  <2> QED
    BY <2>2, <2>3 DEF AudioInv
<1> QED
  BY <1>1, <1>2

(* The next picture that is kept takes all the audio that waits.              *)
LEMMA CarryStep ==
  ASSUME HubShape, Cached, AudioInv, NEW x \in AU, x.n = n + 1, x.audio = audioQ, n' = n + 1,
         made' = Append(made, x), audioQ' = <<>>, heard' = heard
  PROVE  AudioInv'
<1>1. PICK m : m = made
  OBVIOUS
<1>2. n \in Nat /\ m \in Seq(AU) /\ Rising(m) /\ UpTo(m, n) /\ made' = Append(m, x)
  BY <1>1 DEF HubShape, Cached
<1>3. PICK r : r = made'
  OBVIOUS
<1>4. /\ DOMAIN m = 1 .. Len(m) /\ DOMAIN r = 1 .. Len(m) + 1 /\ Len(m) \in Nat
      /\ \A i \in 1 .. Len(m) : r[i] = m[i] /\ m[i].n \in Nat /\ m[i].n <= n
      /\ r[Len(m) + 1] = x
  <2>1. Longer(r, m, n, x)
    BY <1>2, <1>3, AppendAU
  <2> QED
    BY <2>1 DEF Longer
<1>5. /\ audioQ \in Seq(Nat) /\ heard \subseteq 1 .. n
      /\ \A k \in DOMAIN audioQ : audioQ[k] \in 1 .. n
  BY DEF AudioInv, Waiting
<1>6. /\ F!Ascending(audioQ) /\ \A k \in DOMAIN audioQ, j \in DOMAIN m : m[j].n < audioQ[k]
      /\ \A i \in DOMAIN m : Carried(i)
      /\ \A a \in heard : Kept(a)
  BY <1>1, AudioParts DEF AudioInv, WaitsInOrder
<1>7. audioQ' \in Seq(Nat) /\ Len(audioQ') = 0 /\ DOMAIN audioQ' = {}
  OBVIOUS
<1>8. Waiting'
  <2>1. heard' \subseteq 1 .. n'
    BY <1>2, <1>5
  <2> QED
    BY <1>7, <2>1, FramesAssumption DEF Waiting
<1>9. ASSUME NEW i \in DOMAIN r PROVE Carried(i)'
  <2>1. CASE i = Len(m) + 1
    <3>1. r[i] = x
      BY <1>4, <2>1
    <3>2. ASSUME NEW k \in DOMAIN audioQ
          PROVE  audioQ[k] < n + 1 /\ \A j \in DOMAIN r : r[j].n < n + 1 => r[j].n < audioQ[k]
      <4>1. audioQ[k] < n + 1
        BY <1>2, <1>5
      <4>2. ASSUME NEW j \in DOMAIN r, r[j].n < n + 1 PROVE r[j].n < audioQ[k]
        <5>1. j # Len(m) + 1
          BY <1>2, <1>4, <4>2
        <5>2. j \in DOMAIN m /\ r[j] = m[j]
          BY <1>4, <5>1
        <5> QED
          BY <1>6, <5>2
      <4> QED
        BY <4>1, <4>2
    <3> QED
      BY <1>3, <1>6, <3>1, <3>2 DEF Carried
  <2>2. CASE i # Len(m) + 1
    <3>1. i \in DOMAIN m /\ r[i] = m[i] /\ m[i].n \in Nat /\ m[i].n <= n
      BY <1>4, <2>2
    <3>2. Carried(i)
      BY <1>6, <3>1
    <3>3. ASSUME NEW k \in DOMAIN m[i].audio, NEW j \in DOMAIN r, r[j].n < m[i].n
          PROVE  r[j].n < m[i].audio[k]
      <4>1. j # Len(m) + 1
        BY <1>2, <1>4, <3>1, <3>3
      <4>2. j \in DOMAIN m /\ r[j] = m[j]
        BY <1>4, <4>1
      <4> QED
        BY <1>1, <3>2, <3>3, <4>2 DEF Carried
    <3> QED
      BY <1>1, <1>3, <3>1, <3>2, <3>3 DEF Carried
  <2> QED
    BY <2>1, <2>2
<1>10. ASSUME NEW a \in heard PROVE Kept(a)'
  <2>1. CASE F!Among(a, audioQ)
    <3>1. Len(m) + 1 \in DOMAIN r /\ F!Among(a, r[Len(m) + 1].audio)
      BY <1>4, <2>1
    <3> QED
      BY <1>3, <3>1 DEF Kept, F!Among
  <2>2. ASSUME NEW i \in DOMAIN m, F!Among(a, m[i].audio) PROVE Kept(a)'
    <3>1. i \in DOMAIN r /\ r[i] = m[i]
      BY <1>4
    <3> QED
      BY <1>3, <2>2, <3>1 DEF Kept, F!Among
  <2>3. CASE Cardinality(Newer(a)) >= AudioMax
    <3>1. ASSUME NEW y \in heard, y > a, \A j \in DOMAIN m : m[j].n > a => y < m[j].n
          PROVE  \A j \in DOMAIN r : r[j].n > a => y < r[j].n
      <4> SUFFICES ASSUME NEW j \in DOMAIN r, r[j].n > a PROVE y < r[j].n
        OBVIOUS
      <4>1. CASE j = Len(m) + 1
        BY <1>2, <1>4, <1>5, <4>1
      <4>2. CASE j # Len(m) + 1
        BY <1>4, <3>1, <4>2
      <4> QED
        BY <4>1, <4>2
    <3>2. ASSUME NEW y \in heard, \A j \in DOMAIN r : r[j].n > a => y < r[j].n
          PROVE  \A j \in DOMAIN m : m[j].n > a => y < m[j].n
      <4>1. \A j \in DOMAIN m : j \in DOMAIN r /\ r[j] = m[j]
        BY <1>4
      <4> QED
        BY <3>2, <4>1
    <3>3. Newer(a)' = Newer(a)
      BY <1>1, <1>3, <3>1, <3>2 DEF Newer
    <3> QED
      BY <2>3, <3>3 DEF Kept
  <2> QED
    BY <1>1, <1>6, <2>1, <2>2, <2>3 DEF Kept
<1>11. F!AudioKept'
  BY <1>3, <1>7, <1>9, <1>10, AudioPartsNext DEF WaitsInOrder, F!Ascending
<1> QED
  BY <1>8, <1>11 DEF AudioInv

(* A set that holds m different numbers.                                      *)
LEMMA AtLeast ==
  ASSUME NEW T, IsFiniteSet(T), NEW m \in Nat, NEW f,
         \A i \in 1 .. m : f[i] \in T, \A i, j \in 1 .. m : f[i] = f[j] => i = j
  PROVE  Cardinality(T) >= m
<1> DEFINE g == [i \in 1 .. m |-> f[i]]
<1>1. g \in Injection(1 .. m, T)
  BY DEF Injection, IsInjective
<1>2. Cardinality(1 .. m) = m
  BY FS_Interval
<1>3. Cardinality(1 .. m) <= Cardinality(T)
  BY <1>1, FS_Injection
<1>4. Cardinality(T) \in Nat
  BY FS_CardinalityType
<1> QED
  BY <1>2, <1>3, <1>4

(* One more audio frame; beyond the limit the oldest that waits is dropped.   *)
LEMMA WaitStep ==
  ASSUME HubShape, Cached, AudioInv, n' = n + 1, made' = made, heard' = heard \cup {n + 1},
         NEW q, q = Append(audioQ, n + 1), audioQ' = IF Len(q) > AudioMax THEN Tail(q) ELSE q
  PROVE  AudioInv'
<1>1. PICK b : b = audioQ
  OBVIOUS
<1>2. PICK l : l = Len(b)
  OBVIOUS
<1>3. /\ n \in Nat /\ AudioMax \in Nat /\ b \in Seq(Nat) /\ l \in Nat /\ DOMAIN b = 1 .. l /\ l <= AudioMax
      /\ heard \subseteq 1 .. n /\ \A k \in 1 .. l : b[k] \in heard
  <2>1. n \in Nat /\ AudioMax \in Nat /\ b \in Seq(Nat) /\ heard \subseteq 1 .. n
    BY <1>1, FramesAssumption DEF AudioInv, Waiting, HubShape
  <2>2. l \in Nat /\ DOMAIN b = 1 .. l
    BY <1>2, <2>1
  <2>3. l <= AudioMax /\ \A k \in DOMAIN b : b[k] \in heard
    BY <1>1, <1>2 DEF AudioInv, Waiting
  <2> QED
    BY <2>1, <2>2, <2>3
<1>4. /\ q \in Seq(Nat) /\ Len(q) = l + 1 /\ DOMAIN q = 1 .. l + 1 /\ q[l + 1] = n + 1
      /\ \A k \in 1 .. l : q[k] = b[k]
  BY <1>1, <1>2, <1>3
<1>5. /\ F!Ascending(b) /\ \A k \in DOMAIN b, j \in DOMAIN made : made[j].n < b[k]
      /\ \A i \in DOMAIN made : Carried(i)
      /\ \A a \in heard : Kept(a)
  BY <1>1, AudioParts DEF AudioInv, WaitsInOrder
<1>6. /\ \A i, j \in 1 .. l + 1 : i < j => q[i] < q[j]
      /\ \A k \in 1 .. l + 1 : q[k] \in heard' /\ q[k] \in 1 .. n + 1
      /\ \A k \in 1 .. l + 1, j \in DOMAIN made : made[j].n < q[k]
  <2>1. ASSUME NEW i \in 1 .. l + 1, NEW j \in 1 .. l + 1, i < j PROVE q[i] < q[j]
    <3>1. i \in 1 .. l /\ q[i] = b[i] /\ b[i] \in 1 .. n
      BY <1>3, <1>4, <2>1
    <3>2. CASE j = l + 1
      BY <1>3, <1>4, <3>1, <3>2
    <3>3. CASE j # l + 1
      <4>1. j \in 1 .. l
        BY <1>3, <3>3
      <4> QED
        BY <1>3, <1>4, <1>5, <2>1, <3>1, <4>1 DEF F!Ascending
    <3> QED
      BY <3>2, <3>3
  <2>2. ASSUME NEW k \in 1 .. l + 1 PROVE q[k] \in heard' /\ q[k] \in 1 .. n + 1
    BY <1>3, <1>4
  <2>3. ASSUME NEW k \in 1 .. l + 1, NEW j \in DOMAIN made PROVE made[j].n < q[k]
    <3>1. CASE k = l + 1
      <4>1. made[j].n \in Nat /\ made[j].n <= n
        <5>1. made[j] \in AU
          BY DEF HubShape
        <5> QED
          BY <5>1 DEF AU, Cached, UpTo
      <4> QED
        BY <1>3, <1>4, <3>1, <4>1
    <3>2. CASE k # l + 1
      BY <1>3, <1>4, <1>5, <3>2
    <3> QED
      BY <3>1, <3>2
  <2> QED
    BY <2>1, <2>2, <2>3
<1>7. \A i \in DOMAIN made' : Carried(i)'
  BY <1>5 DEF Carried, F!Ascending
<1>8. PICK w : w = audioQ'
  OBVIOUS
<1> DEFINE Off(d) ==
        /\ w \in Seq(Nat) /\ DOMAIN w = 1 .. l + 1 - d /\ Len(w) = l + 1 - d /\ l + 1 - d <= AudioMax
        /\ \A k \in 1 .. l + 1 - d : w[k] = q[k + d]
        /\ d = 1 => l = AudioMax
<1>a. PICK d \in {0, 1} : Off(d)
  <2>1. CASE l + 1 > AudioMax
    <3>1. w = Tail(q) /\ q # <<>>
      BY <1>4, <1>8, <2>1
    <3>2. Tail(q) \in Seq(Nat) /\ Len(Tail(q)) = Len(q) - 1 /\ \A i \in 1 .. Len(Tail(q)) : Tail(q)[i] = q[i + 1]
      BY <1>4, <3>1, HeadTailProperties
    <3>3. w \in Seq(Nat) /\ Len(w) = l /\ \A i \in 1 .. l : w[i] = q[i + 1]
      BY <1>3, <1>4, <3>1, <3>2
    <3>4. DOMAIN w = 1 .. l
      BY <3>3, LenProperties
    <3>5. l = AudioMax /\ l + 1 - 1 = l
      BY <1>3, <2>1
    <3>6. Off(1)
      BY <1>3, <3>3, <3>4, <3>5
    <3> HIDE DEF Off
    <3> QED
      BY <3>6
  <2>2. CASE ~(l + 1 > AudioMax)
    <3>1. w = q
      BY <1>4, <1>8, <2>2
    <3>2. l + 1 - 0 = l + 1 /\ l + 1 <= AudioMax /\ \A k \in 1 .. l + 1 : k + 0 = k
      BY <1>3, <2>2
    <3>3. Off(0)
      BY <1>4, <3>1, <3>2
    <3> HIDE DEF Off
    <3> QED
      BY <3>3
  <2> HIDE DEF Off
  <2> QED
    BY <2>1, <2>2
<1>9. /\ d \in {0, 1} /\ w \in Seq(Nat) /\ DOMAIN w = 1 .. l + 1 - d /\ Len(w) = l + 1 - d
      /\ l + 1 - d <= AudioMax
      /\ \A k \in 1 .. l + 1 - d : w[k] = q[k + d]
      /\ d = 1 => l = AudioMax
  BY <1>a
<1> HIDE DEF Off
<1>10. \A k \in 1 .. l + 1 - d : k + d \in 1 .. l + 1
  BY <1>3, <1>9
<1>11. Waiting'
  <2>1. heard' \subseteq 1 .. n'
    BY <1>3
  <2>2. \A k \in DOMAIN w : w[k] \in heard'
    BY <1>6, <1>9, <1>10
  <2> QED
    BY <1>8, <1>9, <2>1, <2>2 DEF Waiting
<1>12. F!Ascending(w) /\ \A k \in DOMAIN w, j \in DOMAIN made : made[j].n < w[k]
  <2>1. ASSUME NEW i \in DOMAIN w, NEW j \in DOMAIN w, i < j PROVE w[i] < w[j]
    <3>1. i + d \in 1 .. l + 1 /\ j + d \in 1 .. l + 1 /\ i + d < j + d
      <4>1. i \in 1 .. l + 1 - d /\ j \in 1 .. l + 1 - d
        BY <1>9
      <4>2. i + d < j + d
        BY <1>3, <1>9, <2>1, <4>1
      <4> QED
        BY <1>10, <4>1, <4>2
    <3>2. q[i + d] < q[j + d]
      BY <1>6, <3>1
    <3> QED
      BY <1>9, <3>2
  <2>2. ASSUME NEW k \in DOMAIN w, NEW j \in DOMAIN made PROVE made[j].n < w[k]
    BY <1>6, <1>9, <1>10
  <2> QED
    BY <2>1, <2>2 DEF F!Ascending
<1>13. \A a : Newer(a) \subseteq Newer(a)' /\ IsFiniteSet(Newer(a)') /\ IsFiniteSet(Newer(a))
  <2> TAKE a
  <2>1. Newer(a) \subseteq Newer(a)' /\ Newer(a)' \subseteq heard'
    BY DEF Newer
  <2>2. IsFiniteSet(heard) /\ IsFiniteSet(Newer(a))
    BY <1>3, NewerFinite DEF AudioInv
  <2>3. IsFiniteSet(heard')
    BY <2>2, FS_AddElement
  <2> QED
    BY <2>1, <2>2, <2>3, FS_Subset
<1>14. ASSUME NEW a \in heard' PROVE Kept(a)'
  <2>1. ASSUME NEW k \in 1 .. l + 1, a = q[k] PROVE Kept(a)'
    <3>1. CASE k - d \in 1 .. l + 1 - d
      <4>1. PICK e : e = k - d
        OBVIOUS
      <4>a. e \in 1 .. l + 1 - d /\ e + d = k
        BY <1>3, <1>9, <3>1, <4>1
      <4>b. e \in DOMAIN w /\ w[e] = a
        BY <1>9, <2>1, <4>a
      <4>2. F!Among(a, w)
        BY <4>b DEF F!Among
      <4> QED
        BY <1>8, <4>2 DEF Kept
    <3>2. CASE k - d \notin 1 .. l + 1 - d
      <4>1. k = 1 /\ d = 1 /\ l = AudioMax
        BY <1>3, <1>9, <3>2
      <4>2. \A i \in 1 .. l : i + 1 \in 1 .. l + 1 /\ 1 \in 1 .. l + 1 /\ 1 < i + 1
        BY <1>3
      <4> DEFINE f == [i \in 1 .. l |-> q[i + 1]]
      <4>3. \A i \in 1 .. l : f[i] \in Newer(a)'
        <5> TAKE i \in 1 .. l
        <5>1. q[i + 1] \in heard' /\ q[i + 1] > q[1]
          BY <1>3, <1>6, <4>2
        <5>2. \A j \in DOMAIN made' : ~(made'[j].n > q[1])
          <6>1. \A j \in DOMAIN made : made[j].n < q[1] /\ made[j].n \in Nat
            <7>1. \A j \in DOMAIN made : made[j] \in AU
              BY DEF HubShape
            <7> QED
              BY <1>6, <2>1, <4>1, <7>1 DEF AU
          <6>2. q[1] \in Nat
            BY <1>6, <2>1, <4>1
          <6> QED
            BY <6>1, <6>2
        <5> QED
          BY <2>1, <4>1, <5>1, <5>2 DEF Newer
      <4>4. \A i, j \in 1 .. l : f[i] = f[j] => i = j
        <5> TAKE i, j \in 1 .. l
        <5> HAVE f[i] = f[j]
        <5>0. PICK i1 : i1 = i + 1
          OBVIOUS
        <5>a. PICK j1 : j1 = j + 1
          OBVIOUS
        <5>b. i1 \in 1 .. l + 1 /\ j1 \in 1 .. l + 1 /\ (i < j => i1 < j1) /\ (j < i => j1 < i1)
          BY <1>3, <5>0, <5>a
        <5>1. i < j => q[i1] < q[j1]
          BY <1>6, <5>b, Zenon
        <5>2. j < i => q[j1] < q[i1]
          BY <1>6, <5>b, Zenon
        <5>c. q[i1] = q[j1]
          BY <5>0, <5>a
        <5>d. q[i1] \in Nat /\ q[j1] \in Nat
          BY <1>4, <5>b
        <5>3. q[i1] \in Nat /\ q[j1] \in Nat /\ q[i1] = q[j1]
          BY <5>c, <5>d
        <5>4. ~(i < j) /\ ~(j < i)
          <6>1. \A x \in Nat : ~(x < x)
            OBVIOUS
          <6>2. ~(q[i1] < q[j1]) /\ ~(q[j1] < q[i1])
            BY <5>3, <6>1
          <6> QED
            BY <5>1, <5>2, <6>2
        <5> QED
          BY <1>3, <5>4
      <4> HIDE DEF f
      <4>5. Cardinality(Newer(a)') >= l
        BY <1>3, <1>13, <4>3, <4>4, AtLeast
      <4> QED
        BY <4>1, <4>5 DEF Kept
    <3> QED
      BY <3>1, <3>2
  <2>2. CASE a = n + 1
    <3>1. l + 1 \in 1 .. l + 1
      BY <1>3
    <3> QED
      BY <1>4, <2>1, <2>2, <3>1
  <2>3. CASE a \in heard
    <3>1. CASE F!Among(a, audioQ)
      <4>1. PICK k \in 1 .. l : b[k] = a
        BY <1>1, <1>3, <3>1 DEF F!Among
      <4>2. k \in 1 .. l + 1 /\ q[k] = a
        BY <1>3, <1>4, <4>1
      <4> QED
        BY <2>1, <4>2
    <3>2. CASE \E i \in DOMAIN made : F!Among(a, made[i].audio)
      BY <3>2 DEF Kept, F!Among
    <3>3. CASE Cardinality(Newer(a)) >= AudioMax
      <4>1. /\ Cardinality(Newer(a)) \in Nat /\ Cardinality(Newer(a)') \in Nat
            /\ Cardinality(Newer(a)) <= Cardinality(Newer(a)')
        BY <1>13, FS_Subset, FS_CardinalityType
      <4>2. Cardinality(Newer(a)') >= AudioMax
        BY <1>3, <3>3, <4>1
      <4> QED
        BY <4>2 DEF Kept
    <3> QED
      BY <1>5, <2>3, <3>1, <3>2, <3>3 DEF Kept
  <2> QED
    BY <2>2, <2>3
<1>15. F!AudioKept'
  BY <1>7, <1>8, <1>12, <1>14, AudioPartsNext DEF WaitsInOrder
<1> QED
  BY <1>11, <1>15 DEF AudioInv
-----------------------------------------------------------------------------
LEMMA FrameStep == ASSUME FrameInv, [F!Next]_(F!vars) PROVE FrameInv'
<1>0. HubInv /\ AudioInv /\ HubShape /\ Cached /\ Waiting /\ n \in Nat
  BY DEF FrameInv, HubInv, AudioInv, HubShape
<1>1. HubInv' /\ AudioInv' => FrameInv'
  BY DEF FrameInv, HubInv, AudioInv
<1>2. ASSUME NEW st \in Streams, F!Configure(st) PROVE FrameInv'
  <2>1. UNCHANGED F!hub /\ n' = n
    BY <1>2 DEF F!Configure
  <2>2. CASE F!Accepted(st)
    <3>1. /\ audioQ' = <<>> /\ made' = <<>> /\ heard' = {} /\ conf'.params = st.params
      BY <1>2, <2>2 DEF F!Configure
    <3>2. st.params \subseteq Params
      BY DEF Params
    <3> QED
      BY <1>0, <1>1, <2>1, <3>1, <3>2, ApartHub, ApartAudio
  <2>3. CASE ~F!Accepted(st)
    <3>1. UNCHANGED <<conf, audioQ, made, heard>>
      BY <1>2, <2>3 DEF F!Configure
    <3>2. conf'.params \subseteq Params
      BY <1>0, <3>1 DEF HubShape
    <3> QED
      BY <1>0, <1>1, <2>1, <3>1, <3>2, ApartHub, ApartAudio
  <2> QED
    BY <2>2, <2>3
<1>3. ASSUME NEW p \in Pictures, F!WriteVideo(p) PROVE FrameInv'
  <2>1. n' = n + 1 /\ UNCHANGED <<conf, heard>> /\ audioQ' = F!AudioAfter(p)
    BY <1>3 DEF F!WriteVideo
  <2>2. conf'.params \subseteq Params
    BY <1>0, <2>1 DEF HubShape
  <2>3. CASE F!Dropped(p)
    <3>1. UNCHANGED <<made, F!hub, audioQ>>
      BY <1>3, <2>1, <2>3 DEF F!WriteVideo, F!AudioAfter
    <3> QED
      BY <1>0, <1>1, <2>1, <2>2, <3>1, ApartHub, ApartAudio
  <2>4. CASE ~F!Dropped(p)
    <3>1. PICK x : x = F!AccessUnit(p)
      OBVIOUS
    <3>2. made' = Append(made, x) /\ F!Broadcast(x) /\ audioQ' = <<>>
      BY <1>3, <2>1, <2>4, <3>1 DEF F!WriteVideo, F!AudioAfter
    <3>3. x \in AU /\ x.n = n + 1 /\ x.audio = audioQ
      BY <1>0, <3>1, AccessUnitIs
    <3>4. HubInv'
      BY <1>0, <2>1, <3>2, <3>3, BroadcastStep
    <3>5. AudioInv'
      BY <1>0, <2>1, <3>2, <3>3, CarryStep
    <3> QED
      BY <1>1, <3>4, <3>5
  <2> QED
    BY <2>3, <2>4
<1>4. CASE F!WriteAudio
  <2>1. n' = n + 1 /\ UNCHANGED <<conf, made, F!hub>>
    BY <1>4 DEF F!WriteAudio
  <2>2. conf'.params \subseteq Params
    BY <1>0, <2>1 DEF HubShape
  <2>3. HubInv'
    BY <1>0, <2>1, <2>2, ApartHub
  <2>4. AudioInv'
    <3>1. CASE UNCHANGED <<audioQ, heard>>
      BY <1>0, <2>1, <3>1, ApartAudio
    <3>2. CASE ~UNCHANGED <<audioQ, heard>>
      <4>1. PICK q : q = Append(audioQ, n + 1)
        OBVIOUS
      <4>2. heard' = heard \cup {n + 1} /\ audioQ' = IF Len(q) > AudioMax THEN Tail(q) ELSE q
        BY <1>4, <3>2, <4>1 DEF F!WriteAudio
      <4>3. made' = made
        BY <2>1
      <4> QED
        BY <1>0, <2>1, <4>1, <4>2, <4>3, WaitStep
    <3> QED
      BY <3>1, <3>2
  <2> QED
    BY <1>1, <2>3, <2>4
<1>5. ASSUME NEW s \in Subs, F!Subscribe(s) \/ F!Read(s) \/ F!Cancel(s) \/ F!Unsubscribe(s)
      PROVE  FrameInv'
  <2>1. HubInv'
    BY <1>0, <1>5, SubscribeStep, SessionStep
  <2>2. UNCHANGED <<n, audioQ, made, heard>>
    BY <1>5 DEF F!Subscribe, F!Read, F!Cancel, F!Unsubscribe, F!converter
  <2> QED
    BY <1>0, <1>1, <2>1, <2>2, ApartAudio
<1>6. CASE UNCHANGED F!vars
  <2>1. UNCHANGED <<F!hub, n, conf, audioQ, made, heard>>
    BY <1>6 DEF F!vars, F!hub
  <2>2. conf'.params \subseteq Params
    BY <1>0, <2>1 DEF HubShape
  <2> QED
    BY <1>0, <1>1, <2>1, <2>2, ApartHub, ApartAudio
<1> QED
  BY <1>2, <1>3, <1>4, <1>5, <1>6 DEF F!Next
-----------------------------------------------------------------------------
(***************************************************************************)
(* The parts of a device side by side: a step of one is a stutter of the     *)
(* others.                                                                   *)
(***************************************************************************)
DeviceInv == IInv /\ PlayInv /\ FrameInv /\ MessagesInv

LEMMA InitDevice == DeviceInit => DeviceInv
<1> SUFFICES ASSUME Init, P!Init, F!Init, M!Init PROVE DeviceInv
  BY DEF DeviceInit
<1>1. MaxRequests \in Nat
  BY MessagesAssumption
<1>2. MessagesInv
  BY <1>1, InitLoops, InitAnswers DEF MessagesInv
<1> QED
  BY <1>2, InitInv, InitPlay, InitFrames DEF DeviceInv

LEMMA EachPart ==
  ASSUME [DeviceNext]_deviceVars
  PROVE  [Next]_vars /\ [P!Next]_(P!vars) /\ [F!Next]_(F!vars) /\ [M!Next]_(M!vars)
<1>1. ASSUME UNCHANGED pVars PROVE UNCHANGED P!vars
  BY <1>1 DEF pVars, P!vars
<1>2. ASSUME UNCHANGED fVars PROVE UNCHANGED F!vars
  BY <1>2 DEF fVars, F!vars
<1>3. ASSUME UNCHANGED mVars PROVE UNCHANGED M!vars
  BY <1>3 DEF mVars, M!vars
<1>4. CASE UNCHANGED <<vars, pVars, fVars, mVars>>
  BY <1>1, <1>2, <1>3, <1>4
<1>5. CASE Next /\ UNCHANGED <<pVars, fVars, mVars>>
  BY <1>1, <1>2, <1>3, <1>5
<1>6. CASE P!Next /\ UNCHANGED <<vars, fVars, mVars>>
  BY <1>2, <1>3, <1>6
<1>7. CASE F!Next /\ UNCHANGED <<vars, pVars, mVars>>
  BY <1>1, <1>3, <1>7
<1>8. CASE M!Next /\ UNCHANGED <<vars, pVars, fVars>>
  BY <1>1, <1>2, <1>8
<1>9. CASE UNCHANGED deviceVars
  BY <1>4, <1>9 DEF deviceVars
<1>10. ASSUME NEW offer \in site.offers, S(Invite(offer)) PROVE Next /\ UNCHANGED <<pVars, fVars, mVars>>
  BY <1>10 DEF S, Next
<1>11. CASE S(CastBegins) \/ S(StopCancels) \/ S(StopCloses) \/ S(StopSip)
  BY <1>5, <1>11 DEF S, Next
<1>12. ASSUME NEW i \in Ids,
              \/ S(BindListener(i)) \/ S(BindMedia(i)) \/ S(GiveUp(i)) \/ S(Answer(i)) \/ S(Dial(i))
              \/ S(Subscribe(i)) \/ S(StartLive(i)) \/ S(StartPlayback(i)) \/ S(AnswerTalk(i))
              \/ S(StartTalk(i)) \/ S(Bye(i))
       PROVE  Next /\ UNCHANGED <<pVars, fVars, mVars>>
  BY <1>12 DEF S, Next
<1>13. ASSUME NEW i \in Ids,
              \/ S(PlatformDials(i)) \/ S(TakeConn(i)) \/ S(AcceptEnds(i)) \/ S(LiveEnds(i))
              \/ S(Unsubscribe(i)) \/ S(TalkEnds(i)) \/ S(Control(i)) \/ S(PlaybackEnds(i))
              \/ S(CastAnswered(i)) \/ S(CastFails(i))
       PROVE  Next /\ UNCHANGED <<pVars, fVars, mVars>>
  BY <1>13 DEF S, Next
<1>26. ASSUME NEW c \in {"PAUSE", "PLAY"}, S(Info(c)) \/ \E i \in Ids : S(InfoSends(i, c))
        PROVE  Next /\ UNCHANGED <<pVars, fVars, mVars>>
  BY <1>26 DEF S, Next
<1>14. CASE \/ Pb(P!OpenSegment) \/ Pb(P!Exhausted) \/ Pb(P!ReadFrame) \/ Pb(P!SendHeld) \/ Pb(P!SendFails)
            \/ Pb(P!FastForward) \/ Pb(P!ApplyControl) \/ Pb(P!Cancelled) \/ Pb(P!Bye)
  BY <1>6, <1>14 DEF Pb, P!Next
<1>15. ASSUME NEW c \in P!Commands, Pb(P!Info(c)) PROVE P!Next /\ UNCHANGED <<vars, fVars, mVars>>
  BY <1>15 DEF Pb, P!Next
<1>16. ASSUME NEW st \in Streams, Fr(F!Configure(st)) PROVE F!Next /\ UNCHANGED <<vars, pVars, mVars>>
  BY <1>16 DEF Fr, F!Next
<1>17. ASSUME NEW p \in Pictures, Fr(F!WriteVideo(p)) PROVE F!Next /\ UNCHANGED <<vars, pVars, mVars>>
  BY <1>17 DEF Fr, F!Next
<1>18. CASE Fr(F!WriteAudio)
  BY <1>7, <1>18 DEF Fr, F!Next
<1>19. ASSUME NEW s \in Subs, Fr(F!Subscribe(s)) \/ Fr(F!Read(s)) \/ Fr(F!Cancel(s)) \/ Fr(F!Unsubscribe(s))
       PROVE  F!Next /\ UNCHANGED <<vars, pVars, mVars>>
  BY <1>19 DEF Fr, F!Next
<1>20. ASSUME NEW h \in Receivers, NEW r \in Requests, Ms(M!Receive(h, r))
       PROVE  M!Next /\ UNCHANGED <<vars, pVars, fVars>>
  BY <1>20 DEF Ms, M!Next
<1>21. ASSUME NEW h \in Receivers, Ms(M!SwapLoop(h)) \/ Ms(M!CloseOld(h)) \/ Ms(M!Send(h)) \/ Ms(M!Finish(h))
       PROVE  M!Next /\ UNCHANGED <<vars, pVars, fVars>>
  BY <1>21 DEF Ms, M!Next
<1>22. ASSUME NEW j \in jobs, Ms(M!ExchangeEnds(j)) PROVE M!Next /\ UNCHANGED <<vars, pVars, fVars>>
  BY <1>22 DEF Ms, M!Next
<1>23. ASSUME NEW e \in Events, Ms(M!HostNotify(e)) \/ Ms(M!Expire(e))
       PROVE  M!Next /\ UNCHANGED <<vars, pVars, fVars>>
  BY <1>23 DEF Ms, M!Next
<1>24. ASSUME NEW i \in DOMAIN loops, Ms(M!Report(i)) \/ Ms(M!LoopEnds(i))
       PROVE  M!Next /\ UNCHANGED <<vars, pVars, fVars>>
  BY <1>24 DEF Ms, M!Next
<1>25. CASE Ms(M!Stop)
  BY <1>8, <1>25 DEF Ms, M!Next
<1>a. CASE DeviceNext
  <2>1. CASE Next /\ UNCHANGED <<pVars, fVars, mVars>>
    BY <1>5, <2>1
  <2>2. CASE P!Next /\ UNCHANGED <<vars, fVars, mVars>>
    BY <1>6, <2>2
  <2>3. CASE F!Next /\ UNCHANGED <<vars, pVars, mVars>>
    BY <1>7, <2>3
  <2>4. CASE M!Next /\ UNCHANGED <<vars, pVars, fVars>>
    BY <1>8, <2>4
  <2> QED
    BY <1>a, <2>1, <2>2, <2>3, <2>4, <1>10, <1>11, <1>12, <1>13, <1>26, <1>14, <1>15, <1>16, <1>17, <1>18,
       <1>19, <1>20, <1>21, <1>22, <1>23, <1>24, <1>25 DEF DeviceNext
<1> QED
  BY <1>9, <1>a

LEMMA DeviceStep == ASSUME DeviceInv, [DeviceNext]_deviceVars PROVE DeviceInv'
<1>1. [Next]_vars /\ [P!Next]_(P!vars) /\ [F!Next]_(F!vars) /\ [M!Next]_(M!vars)
  BY EachPart
<1>2. IInv'
  BY <1>1, BaseStep, OverlapStep, AloneStep, TurnStep DEF DeviceInv, IInv
<1>3. PlayInv'
  BY <1>1, PlayStep DEF DeviceInv
<1>4. FrameInv'
  BY <1>1, FrameStep DEF DeviceInv
<1>5. MessagesInv'
  BY <1>1, MessagesStep, MessagesAssumption DEF DeviceInv
<1> QED
  BY <1>2, <1>3, <1>4, <1>5 DEF DeviceInv

LEMMA DeviceHolds == DeviceSpec => []DeviceInv
<1>1. DeviceInit => DeviceInv
  BY InitDevice
<1>2. DeviceInv /\ [DeviceNext]_deviceVars => DeviceInv'
  BY DeviceStep
<1> QED
  BY <1>1, <1>2, PTL DEF DeviceSpec

(* A device never streams to two sessions at once, unless it takes part in a  *)
(* broadcast or handled their INVITEs beside each other (server.go, the       *)
(* handlers of INVITE, BYE and their goroutines).                             *)
THEOREM OneStreamAlways == DeviceSpec => []OneStream
<1>1. DeviceInv => OneStream
  BY DEF DeviceInv, IInv, Alone, Turn, OneStream
<1> QED
  BY <1>1, DeviceHolds, PTL

(* Whatever is recorded and whatever the platform asks for, pauses and seeks, *)
(* what it gets since the last start or seek begins with a key frame, lies in *)
(* its range and never goes back in time (playback.go:85-318).                *)
THEOREM GoodStreamAlways == DeviceSpec => []GoodStream
<1>1. DeviceInv => GoodStream
  BY DEF DeviceInv, PlayInv, GoodStream
<1> QED
  BY <1>1, DeviceHolds, PTL

(* However the pictures, the audio and the sessions of an output interleave:  *)
(* a session reads the pictures once and in order, from the key frame of a    *)
(* valid cache and without a gap until its channel was full; the cache is the *)
(* last group of pictures; and no audio is lost or reordered but beyond the   *)
(* limit of the queue (gb28181_hub.go:52-112, gb28181_media.go:117-184).      *)
THEOREM FramesDeliveredAlways == DeviceSpec => []FramesDelivered
<1>1. DeviceInv => FramesDelivered
  BY DEF DeviceInv, FrameInv, Cached, FramesDelivered
<1> QED
  BY <1>1, DeviceHolds, PTL

(* Every command that was handled to the end got its whole answer, however    *)
(* the commands of the connections interleave: a list in pages that hold each *)
(* entry once and in order, an order one verdict that says whether the host   *)
(* takes it (server.go, the handlers of MESSAGE).                             *)
THEOREM AnswersCompleteAlways == DeviceSpec => []AnswersComplete
<1>1. DeviceInv => AnswersComplete
  BY AnswersWhole, MessagesAssumption DEF DeviceInv, MessagesInv, AnswersComplete
<1> QED
  BY <1>1, DeviceHolds, PTL

(* However the SUBSCRIBEs of several connections interleave, the last one has *)
(* the only report loop that goes on (restartPositionLoop,                    *)
(* subscribe.go:432-460).                                                     *)
THEOREM OnePositionLoopAlways == DeviceSpec => []OnePositionLoop
<1>1. DeviceInv => OnePositionLoop
  BY LoopsAreOne DEF DeviceInv, MessagesInv, OnePositionLoop
<1> QED
  BY <1>1, DeviceHolds, PTL
=============================================================================
