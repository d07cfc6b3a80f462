SPECIFICATION FairSpec
CONSTANTS
  t1 = t1
  t2 = t2
  Tracks <- OneTrack
  BufSize = 1
  MaxFrames = 3
  MaxStarts = 2
PROPERTIES WriterEnds EmitterNeverBlocked QueuedFrameServed
CHECK_DEADLOCK FALSE
