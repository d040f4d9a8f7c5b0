SPECIFICATION Spec
CONSTANTS
  Qualities <- MCQualities
  Sizes = {2}
  Monitors <- MCMonitors
  FrameBound = 2
  UpdateBound = 2
  max_frames = 2
  max_bytes = 4
PROPERTY FlushDelivers
CHECK_DEADLOCK FALSE
