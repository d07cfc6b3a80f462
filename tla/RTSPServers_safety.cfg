SPECIFICATION Spec
CONSTANTS
  s1 = s1
  s2 = s2
  s3 = s3
  a1 = a1
  p1 = p1
  p2 = p2
  x1 = x1
  Nobody = Nobody
  Sinks <- ThreeSinks
  Addrs <- OneAddr
  Paths <- TwoPaths
  Sessions <- OneSession
  AddrOf <- SameAddr
  PathOf <- OldAndNew
  Inputs <- AllInputs
  MaxServers = 2
  MaxStreams = 2
INVARIANTS RefsCountUsers RunningSinkServed NothingLeft PathsAnswer LatestReachable ReadersConnected RacesHarmless
PROPERTY LeaseSpec
CHECK_DEADLOCK FALSE
SYMMETRY Alike
