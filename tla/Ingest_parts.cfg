SPECIFICATION MCSpec
CONSTANTS
  Bytes = {b0, b1}
  Zero = b0
  Capacity = 3
  Modulus = 8
  Counts = {0, 1, 2, 3, 4, 5, 6, 7}
  Checked = FALSE
  FrameCounts = {0, 2}
  PacketBound = 3
  Sizes = {13, 14, 33, 34, 41, 42}
  Ports = {0, 47821}
  OptionWords = {47821}
  Lengths = {7, 26}
  RingSize = 1
INVARIANT PositionsInOrder
PROPERTIES ImplementsQueue ShutdownCompletes FinalStatsAreFinal FilterExact
CHECK_DEADLOCK FALSE
