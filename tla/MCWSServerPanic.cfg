CONSTANTS
  Conns = {c1}
  Workers = {w1}
  Bundles = {b1}
  QueueCapacity = 1
  None = None
SPECIFICATION Spec
INVARIANT NoSendOnClosedQueue
