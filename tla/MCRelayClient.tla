--------------------------- MODULE MCRelayClient ---------------------------
EXTENDS RelayClient, TLC

\* Every relay uses the default cooldown: rate_limit_cooldown_ms is absent.
DefaultConfig == [r \in Relays |-> 0]

\* Bundles and buffers only differ by name.
Symmetry == Permutations(Bundles) \union Permutations(Buffers)
=============================================================================
