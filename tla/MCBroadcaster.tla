--------------------------- MODULE MCBroadcaster ---------------------------
EXTENDS Broadcaster

DefaultConfig == [r \in Relays |-> 0]
=============================================================================
