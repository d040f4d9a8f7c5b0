SPECIFICATION MCSpec
CONSTANTS
  Bytes = {b0, b1}
  Zero = b0
  Capacity = 4
  Modulus = 8
  Counts = {0, 1, 2, 3, 4, 5, 6, 7}
  Checked = FALSE
  FrameCounts = {0, 2}
  PacketBound = 3
  Sizes = {13, 14, 33, 34, 41, 42, 46}
  Ports = {0, 47821}
  OptionWords = {0, 47821}
  Lengths = {7, 26}
  RingSize = 1
PROPERTY FiltersTelemetry
CHECK_DEADLOCK FALSE
