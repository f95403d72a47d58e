CONSTANTS
  Senders = {s1, s2}
  Links = {k1, k2, k3, k4}
  MaxRetries = 3
  None = None
SPECIFICATION Spec
INVARIANTS
  TypeOK
  OneLink
  NoLinkAfterClose
  SendAfterCloseIsRefused
  WritesAreBounded
