CONSTANTS
  Conns = {c1}
  Workers = {w1}
  Bundles = {b1, b2}
  QueueCapacity = 1
  None = None
  Relays = {r1, r2}
  BadRelays = {r2}
  TrackedRelays = {}
  MaxRetries = 2
  CooldownConfig <- DefaultConfig
  DefaultCooldown = 1
  MaxTime = 2
  Buffers = {x1}
SPECIFICATION Spec
INVARIANTS
  NoCallAfterShutdown
  MetricsReconcile
  ServedAtEveryRelay
PROPERTY ServerIsImplemented
