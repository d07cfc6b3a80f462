SPECIFICATION Spec
CONSTANTS
  t1 = t1
  t2 = t2
  Tracks <- TwoTracks
  BufSize = 2
  MaxFrames = 2
  MaxStarts = 2
INVARIANTS LiveWriterIsCurrent UnboundAfterStop Conservation SinkOrder
PROPERTIES DeliverySpec LifecycleSpec
CHECK_DEADLOCK FALSE
