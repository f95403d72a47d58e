CONSTANTS
  i1 = i1
  r1 = r1
  r2 = r2
  h1 = h1
  h2 = h2
  Ids = {i1}
  Builders = {r1, r2}
  Hashes = {h1, h2}
  Sims = {s1}
  Events <- ThreeEvents
  None = None
  HashCap = 1
  SimCap = 1
  FlushAge = 1
  SimTTL = 2
SPECIFICATION FairSpec
INVARIANT TypeOK
INVARIANT EventInOnePlace
INVARIANT WrittenOnce
INVARIANT PendingMatchesCache
PROPERTY JoinIsKept
PROPERTY HashGetsOutcome
PROPERTY CacheIsEmptied
