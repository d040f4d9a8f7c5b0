SPECIFICATION Spec
CONSTANTS
  Senders = {"s1", "s2"}
  Receivers = {"r1", "r2"}
  Openers = {}
  Cleaners = {"c1"}
  Quota = 2
  Rounds = 1
  NonceLimit = 3
  Timeout = 0
  Now = 1
INVARIANTS NoncesUnique OnlyOvertakingLoses
PROPERTIES ImplementsChannel AllFinish CleanupComplete
CHECK_DEADLOCK FALSE
