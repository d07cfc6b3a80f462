SPECIFICATION Spec
CONSTANTS
  i1 = i1
  i2 = i2
  o1 = o1
  o2 = o2
  p1 = p1
  p2 = p2
  c1 = c1
  c2 = c2
  Boot = Boot
  NoRow = NoRow
  Inputs <- In1
  Outputs <- Out2
  PipeIds <- Pipe2
  Fresh <- None
  Fragile <- Out1
  Clients <- Client1
  Callers <- Callers1
  Requests <- AllRequests
  Faults <- AllFaults
  MaxObjs = 6
  MaxReqs = 4
  MaxCrashes = 1
  MaxActive = 1
INVARIANT PipeRowsTrue
CHECK_DEADLOCK FALSE
