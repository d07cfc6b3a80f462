SPECIFICATION Spec
CONSTANTS
  w1 = w1
  w2 = w2
  k1 = k1
  k2 = k2
  None = None
  Writers <- TwoWriters
  Clients <- OneClient
  Size = 3
  ReadSize = 1
  NotifyCap = 1
  MaxTag = 2
  MaxBytes = 4
  MaxConfigs = 2
INVARIANTS WholeTags NoLostWakeup JoinsAtGOP
CHECK_DEADLOCK FALSE
SYMMETRY Alike
