SPECIFICATION FairSpec
CONSTANTS
  Transports <- Both
  FirstAnswers <- Challenge
  TimeoutCount = 1
  ChanCap = 1
  MaxAge = 1
  MaxFaults = 1
  Faulty <- EveryFault
  Slow = FALSE
INVARIANTS NeverFooled
PROPERTIES Heals StopEnds
CHECK_DEADLOCK FALSE
