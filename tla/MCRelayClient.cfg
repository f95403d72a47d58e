CONSTANTS
  Bundles = {b1, b2}
  Relays = {r1, r2}
  BadRelays = {r2}
  TrackedRelays = {r1}
  MaxRetries = 3
  CooldownConfig <- DefaultConfig
  DefaultCooldown = 2
  MaxTime = 4
  Buffers = {x1, x2}
  None = None
SPECIFICATION Spec
SYMMETRY Symmetry
INVARIANTS
  TypeOK
  EachCallCountedOnce
  DuplicatesAreBounded
  CooldownsDoNotAddUp
  CooldownIsPerRelay
  BufferIsExclusive
PROPERTY NoAttemptAfterSettled
