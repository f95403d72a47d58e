CONSTANTS
  Conns = {c1, c2}
  Workers = {w1, w2}
  Bundles = {b1, b2, b3}
  QueueCapacity = 1
  None = None
SPECIFICATION FairSpec
INVARIANTS
  TypeOK
  InOnePlace
  ReceivedIsAccounted
  LateIsRefused
PROPERTIES
  AcceptedIsServed
  QuitEnds
  KeepsPromise
