SPECIFICATION Spec
CONSTANTS
  i1 = i1
  i2 = i2
  o1 = o1
  o2 = o2
  p1 = p1
  p2 = p2
  c1 = c1
  c2 = c2
  Boot = Boot
  NoRow = NoRow
  Inputs <- In1
  Outputs <- Out2
  PipeIds <- Pipe2
  Fresh <- None
  Fragile <- None
  Clients <- Client2
  Callers <- Callers2
  Requests <- AllRequests
  Faults <- PipeFaults
  MaxObjs = 6
  MaxReqs = 3
  MaxCrashes = 1
  MaxActive = 2
INVARIANTS RestoreHeals HubConsistent
CHECK_DEADLOCK FALSE
SYMMETRY Alike
