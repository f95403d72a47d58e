----------------------------- MODULE MCWSClient -----------------------------
EXTENDS WSClient
=============================================================================
