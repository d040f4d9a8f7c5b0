SPECIFICATION Spec
CONSTANTS
  Qualities <- MCQualities
  Sizes = {0, 2, 3, 5}
  Monitors <- MCMonitors
  FrameBound = 4
  UpdateBound = 2
  max_frames = 2
  max_bytes = 4
INVARIANTS ModeMatchesQuality StatsAddUp
INVARIANTS BufferIsRecent CapsHold EvictedForRoom
PROPERTIES WorseNetworkNeverMilder OffloadedWhenReachable StopEndsMonitors
CHECK_DEADLOCK FALSE
