SPECIFICATION NodeSpec
CONSTANTS
  Hosts <- MCHosts
  Arguments <- MCArguments
  DEMO_FRAMES = 3
  CTX_SIZE = 4
  Limits = {2}
  PromptSizes = {0, 1, 3, 4, 5}
  Qualities = {}
  Sizes = {1}
  Monitors = {"m1"}
  FrameBound = 3
  UpdateBound = 1
  max_frames = 2
  max_bytes = 4
INVARIANTS OffloadNeedsGpu ReadingsOwn AskedModeHolds SamplesNewestPosition
PROPERTIES ImplementsBackend MainFinishes
CHECK_DEADLOCK FALSE
