--------------------------- MODULE MCGBRegistration ---------------------------
EXTENDS GBRegistration
Both == {"udp", "tcp-out"}
Challenge == {"401"}
EveryFault == {"lose", "repeat", "refuse", "forget", "drop", "dial", "idle"}
=============================================================================
