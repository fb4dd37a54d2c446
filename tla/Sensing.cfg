CONSTANTS
  lidar = lidar
  data_type = data_type
  pattern = pattern
  Lidars <- MCLidars
  Files <- MCFiles
  Params <- MCParams
  Wanted <- MCWanted
  TableSize = 1
  MaxOpen = 2
  Senders = {l1, l2}
  Interval = 2
  Tolerance = 1
  Skew = 1
  HostMaxTime = 4
  MaxQueue = 2
  FramePoints = 2
  Never = Never
  NumLidars = 2
  Settings <- MCSettings
  MaxList = 2
  ImuStep = 20
  ScanStep = 40
  Bins <- MCBins
  lidar_time_inte = 100
  MAX_INI_COUNT = 2
  Modes = {TRUE, FALSE}
  MaxTime = 160
  Turns = {"config", "packets", "samples", "merge", "lio", "map", "reloc"}
  Bases = {0, 20, 1000}
  ClockOffset = 500
  Period = 400
  Jitters <- MCJitters
  MaxJump = 100
  Smoothing = 50
  Frames <- MCFrames
  MaxOffset = 120
  Voxels = {o, v}
  Origin = o
  InitMapSize = 2
  LeastValid = 2
  LeastMapped = 1
  MaxSize = 3
  MapScans = 4
  ScanSizes = {0, 1, 3}
  MinScans = 2
  MinPoints = 3
  MaxScans = 3
  MaxPoints = 5
  MaxAccumulation = 2
  MaxClouds = 5
  MaxTransit = 2
SPECIFICATION MCSpec
INVARIANTS SamplingIsConfigured EveryPointOnce NoSampleStranded HasPublisher FedInOrder PairsAgree ConfirmedByTwoScans OdometryUsesResult
PROPERTIES AnnouncedSamples RelocalizationEnds
