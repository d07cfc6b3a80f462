----------------------------- MODULE MCGBSessions -----------------------------
(***************************************************************************)
(* GBSessions with a platform that offers live sessions alone, over UDP.     *)
(***************************************************************************)
EXTENDS GBSessions
UdpLive == [kind |-> "live", proto |-> "udp", setup |-> "active"]
OneSite == {[listener |-> FALSE, offers |-> {UdpLive}, broadcasts |-> FALSE]}
=============================================================================
