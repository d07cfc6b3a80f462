SPECIFICATION DeviceSpec
CONSTANTS
  Invites = 2
  Sites <- TwoSites
  Role = "auto"
  Recorded = TRUE
  HasSink = TRUE
  CtlCap = 1
  Recordings <- SomeRecordings
  Nominal = 1
  Ranges <- SomeRanges
  Mode = "Playback"
  Controls = 2
  Subs = {1}
  SubCap = 2
  GOPMax = 3
  AudioMax = 1
  Streams <- SomeStreams
  Pictures <- SomePictures
  MaxFrames = 4
  MaxConfigs = 2
  Receivers = {1, 2}
  Requests <- SomeRequests
  Installed = {"control", "upgrade"}
  PageItems = 2
  Events = {"position"}
  Position = "position"
  HasSource = TRUE
  MaxRequests = 2
INVARIANTS OneStream GoodStream FramesDelivered AnswersComplete OnePositionLoop
PROPERTIES OldEnds PlaybackOver
CHECK_DEADLOCK FALSE
