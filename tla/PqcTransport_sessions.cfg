SPECIFICATION Spec
CONSTANTS
  a = a
  b = b
  h1 = h1
  h2 = h2
  h3 = h3
  Nodes <- MCNodes
  Handles <- MCHandles
  FrameIds = {1, 2}
  Payloads = {7}
  NonceLimit = 2
  Timeout = 0
  Times = {0, 1}
SYMMETRY Sym
CONSTRAINT MCBounded
INVARIANTS CounterHardStops AcceptorGetsPrefix NonceReuseNeedsReaccept
PROPERTIES LossIsPermanent ImplementsChannel OnlyIdleSessionsDropped
CHECK_DEADLOCK FALSE
