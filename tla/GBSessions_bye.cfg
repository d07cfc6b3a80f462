SPECIFICATION Spec
CONSTANTS
  Invites = 2
  Sites <- OneSite
  Role = "auto"
  Recorded = TRUE
  HasSink = TRUE
  CtlCap = 1

PROPERTIES ByeEndsOwnSession
CHECK_DEADLOCK FALSE
