SPECIFICATION MainSpec
CONSTANTS
  Tokens = {"", "sk-1", "sk-2", "bytes"}
  NotUtf8 = {"bytes"}
  Sources = {"edge-1", "edge-2"}
  FrameIds = {1}
  MaxChoices = 2
  FrameBound = 3
  SimulatedKey = "sk-2"
  MainFrame <- MCMainFrame
INVARIANTS KeyIsSealedToken FramesAccounted AnswersLoggable RequestIdsUnique OwnKeyOrNoCall
CHECK_DEADLOCK FALSE
