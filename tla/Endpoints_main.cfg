SPECIFICATION PartsSpec
CONSTANTS
  MaxPublishers = 6
  MaxFaults = 2
  MaxStops = 1
  MaxLog = 4
  Tracks <- TwoTracks
  Micro = 6
  Configs <- TwoConfigs
  Points = {1, 3}
  Starts = 1
  Signals = 1
  MaxTime = 9
  Peers = {1}
  QueueCap = 3
  MaxFrames = 3
  MaxRuns = 2
  Descs <- OneDesc
  Stoppers = {"api"}
  InTurn = TRUE
  MaxPulls = 4
  MaxBreaks = 2
  MaxPackets = 3
INVARIANTS Paced OneConnection StreamsInOrder
PROPERTIES Interleaved LinksHeal ClientsReleased
CHECK_DEADLOCK FALSE
