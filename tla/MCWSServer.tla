----------------------------- MODULE MCWSServer -----------------------------
EXTENDS WSServer
=============================================================================
