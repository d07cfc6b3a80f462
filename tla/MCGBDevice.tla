------------------------------ MODULE MCGBDevice ------------------------------
(***************************************************************************)
(* GBDevice with a platform that offers every kind of session, two           *)
(* recordings, three streams and a request of every kind.                    *)
(***************************************************************************)
EXTENDS GBDevice

(* What the platform offers.                                                  *)
DialLive == [kind |-> "live", proto |-> "tcp", setup |-> "passive"]
ListenLive == [kind |-> "live", proto |-> "tcp", setup |-> "active"]
ListenPlay == [kind |-> "playback", proto |-> "tcp", setup |-> "active"]
Talk == [kind |-> "talk", proto |-> "udp", setup |-> "active"]

(* A device that receives requests through one socket, from a platform that   *)
(* also announces broadcasts, and one that listens for connections.           *)
TwoSites == {[listener |-> FALSE, offers |-> {DialLive, ListenPlay, Talk}, broadcasts |-> TRUE],
             [listener |-> TRUE, offers |-> {ListenLive, Talk}, broadcasts |-> FALSE]}

(* Two recordings; the second has no sidecar and begins within a GOP.         *)
First == [start |-> 0, pts |-> <<0, 1, 2, 4>>,
          nalus |-> <<"sps", "idr", "slice", "sps", "idr", "slice">>]
Second == [start |-> 6, pts |-> <<>>, nalus |-> <<"slice", "sps", "idr", "slice">>]
SomeRanges == {<<0, 9>>, <<1, 3>>, <<3, 7>>, <<12, 14>>}

SomeStreams == {
  [codec |-> "h264", params |-> {"sps", "pps"}, audio |-> TRUE, drop |-> TRUE, limit |-> "auto"],
  [codec |-> "h265", params |-> {}, audio |-> FALSE, drop |-> TRUE, limit |-> "auto"],
  [codec |-> "h265", params |-> {}, audio |-> TRUE, drop |-> FALSE, limit |-> "h264"]}
SomePictures == {
  [key |-> TRUE, ref |-> TRUE, early |-> FALSE, params |-> {"sps"}, size |-> 1],
  [key |-> FALSE, ref |-> TRUE, early |-> FALSE, params |-> {}, size |-> 1],
  [key |-> FALSE, ref |-> FALSE, early |-> TRUE, params |-> {}, size |-> 1]}

Req(k, items) == [kind |-> k, items |-> items, event |-> "none", cseq |-> 0]
Sub(event) == [kind |-> "subscribe", items |-> 0, event |-> event, cseq |-> 1]
SomeRequests ==
  {Req("catalog", 1), Req("records", 0), Req("records", 3), Req("records", 4), Req("config", 0),
   Req("control", 0), Req("snapshot", 0), Req("upgrade", 0), Req("empty", 0),
   Sub("position"), Sub("other")}

SomeRecordings == <<First, Second>>
=============================================================================
