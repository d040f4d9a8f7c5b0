SPECIFICATION Spec
CONSTANTS
  a = a
  b = b
  h1 = h1
  h2 = h2
  h3 = h3
  Nodes <- MCNodes
  Handles <- MCHandles
  FrameIds = {1}
  Payloads = {7}
  NonceLimit = 2
  Timeout = 1
  Times = {0}
SYMMETRY Sym
INVARIANT NoNonceReuse
CHECK_DEADLOCK FALSE
